CONSTANT TlsServers <- AnyServer
SPECIFICATION FairSpec
INVARIANT TypeOK
INVARIANT RowsTellOfFirewall
PROPERTY OutcomeAnswersPending
PROPERTY RunEnds
CHECK_DEADLOCK FALSE
