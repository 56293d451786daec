CONSTANT TlsServers <- AnyServer
SPECIFICATION Spec
INVARIANT DocumentedPortPasses
CHECK_DEADLOCK FALSE
