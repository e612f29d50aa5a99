SPECIFICATION Spec
CONSTANTS
    o = o
    a = a
    b = b
    k = k
    j = j
    main = main
    other = other
    None = None
    Shutdown = Shutdown
    Call = {o, a, b}
    Closer = {k, j}
    Loop = {main, other}
    LoopOf <- TwoLoops
    CallKind <- OneOpen
    MayFail = {o, a, k}
    MayCancel = {a, b, k}
    MayEnd = {main}
INVARIANTS
    TypeOK
    OwnOutcome
    InOrder
    NobodyForgotten
PROPERTIES
    SettledForever
    SerialSpec
CHECK_DEADLOCK FALSE
