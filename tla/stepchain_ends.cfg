SPECIFICATION FairSpec
CONSTANTS
    p = p
    q = q
    None = None
    ErrorText = ErrorText
    Op = {p, q}
    Backend <- Mixed
    GivenId <- OneGiven
    IdModulus = 4
    Timed = {p, q}
    MayCancel = {q}
    MayFail = {}
    MayMiss = {}
    MayClose = FALSE
    Symbols = 2
    EventLimit = 1
PROPERTIES
    EveryOperationEnds
CHECK_DEADLOCK FALSE
