SPECIFICATION Spec
CONSTANTS
    p = p
    q = q
    None = None
    ErrorText = ErrorText
    Op = {p, q}
    Backend <- Mixed
    GivenId <- OneGiven
    IdModulus = 4
    Timed = {p, q}
    MayCancel = {q}
    MayFail <- SomeFail
    MayMiss = {}
    MayClose = TRUE
    Symbols = 2
    EventLimit = 1
INVARIANTS
    TypeOK
    OwnEnding
    NoLostWakeup
    HandlesReleased
    AwaitsAnswered
PROPERTIES
    KeepsPromise
CHECK_DEADLOCK FALSE
