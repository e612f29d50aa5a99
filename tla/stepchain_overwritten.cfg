SPECIFICATION FairSpec
CONSTANTS
    p = p
    q = q
    None = None
    ErrorText = ErrorText
    Op = {p, q}
    Backend <- AllPoll
    GivenId <- Generated
    IdModulus = 4
    Timed = {}
    MayCancel = {}
    MayFail = {}
    MayMiss = {}
    MayClose = FALSE
    Symbols = 2
    EventLimit = 1
PROPERTIES
    ChainEndIsSeen
CHECK_DEADLOCK FALSE
