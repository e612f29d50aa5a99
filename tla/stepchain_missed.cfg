SPECIFICATION Spec
CONSTANTS
    p = p
    q = q
    None = None
    ErrorText = ErrorText
    Op = {p}
    Backend <- AllPoll
    GivenId <- Generated
    IdModulus = 4
    Timed = {}
    MayCancel = {}
    MayFail = {}
    MayMiss = {"done"}
    MayClose = FALSE
    Symbols = 2
    EventLimit = 1
INVARIANTS
    DoneIsTrue
CHECK_DEADLOCK FALSE
