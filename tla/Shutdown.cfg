CONSTANTS
    s1 = s1
    s2 = s2
    t1 = t1
    t2 = t2
    t3 = t3
    Servers <- MCServers
    Config <- MCConfig
    Fds = {3, 4}
    Threads <- MCThreads
    Main = Main
    None = None
    Unconnected = Unconnected
    MaxSignals = 1
    MaxFaults = 1
SPECIFICATION SpecShutdown
CHECK_DEADLOCK FALSE
INVARIANTS
    HandlerTypeOK
    SaysGoodbye
PROPERTY
    ShutdownEnds
