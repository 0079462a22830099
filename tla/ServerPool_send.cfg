CONSTANTS
    s1 = s1
    s2 = s2
    t1 = t1
    t2 = t2
    t3 = t3
    t4 = t4
    Servers <- MCServers
    Config <- MCConfig
    Fds = {3, 4, 5}
    Threads <- MCThreads
    Main = Main
    None = None
    Unconnected = Unconnected
SPECIFICATION Spec
CHECK_DEADLOCK FALSE
INVARIANT
    SendsToServer
