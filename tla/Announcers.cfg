SPECIFICATION Spec
CHECK_DEADLOCK FALSE
INVARIANT TypeOK
INVARIANT AnsweredOnce
INVARIANT UrlsWhole
PROPERTY MessageHandled
CONSTANTS
    r1 = r1
    r2 = r2
    Readers <- MCReaders
    Messages <- MCMessages
    InitialFiles <- MCFiles
    MaxMessages = 2
    MaxChunks = 2
    Null = Null
