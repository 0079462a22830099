CONSTANTS
    c1 = c1
    c2 = c2
    Callers <- MCCallers
    Handler = Handler
    None = None
    Junk = Junk
    MaxMsgCount = 2
    HistorySize = 2
    MaxCalls = 3
SPECIFICATION FairSpec
CHECK_DEADLOCK FALSE
INVARIANTS
    TypeOK
    CountBounded
    OneProducer
    QueueExact
PROPERTY
    CallsReturnUnlessRefused
