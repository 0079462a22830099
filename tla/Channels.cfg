CONSTANTS
    r1 = r1
    r2 = r2
    a = a
    b = b
    n = n
    Readers <- MCReaders
    Names <- MCNames
    Nicks <- MCNicks
    Garbled = Garbled
    NotThere = NotThere
    None = None
    MaxEvents = 3
SPECIFICATION FairSpec
CHECK_DEADLOCK FALSE
INVARIANTS
    TypeOK
    NoDuplicates
    OwnChannel
PROPERTIES
    OnlyAppends
    EventsReturn
