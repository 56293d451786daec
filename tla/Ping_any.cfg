CONSTANTS
    Count = 3
    MaxStray = 2
    Ids = {1, 63487, 65535}
SPECIFICATION FairSpec
INVARIANT TypeOK
INVARIANT SuccessIsAnswered
INVARIANT StatisticsMatchLines
INVARIANT LossIsExact
INVARIANT RequestIsUnderstood
PROPERTY PingEnds
CHECK_DEADLOCK FALSE
