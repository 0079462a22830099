CONSTANTS
    chan = chan
    Bases = {"nick", "alt"}
    FirstNick <- MCFirst
    AltNick <- MCAlt
    Autojoin <- MCAutojoin
    Channels = {chan}
    PingSizes = {6, 7}
    MaxTail = 1
    MaxAsked = 2
    MaxLosses = 1
    None = None
SPECIFICATION FairSpec
INVARIANTS
    TypeOK
    NickSettles
    NothingMissed
PROPERTIES
    JoinsChannels
    PingsAnswered
