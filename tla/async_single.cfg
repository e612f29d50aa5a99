SPECIFICATION FairSpec
CONSTANTS
    o = o
    a = a
    b = b
    k = k
    j = j
    main = main
    other = other
    None = None
    Shutdown = Shutdown
    Call = {o, a, b}
    Closer = {k, j}
    Loop = {main}
    LoopOf <- OneLoop
    CallKind <- OneOpen
    MayFail = {o, a, k}
    MayCancel = {a, b, k, j}
    MayEnd = {}
INVARIANTS
    AcloseDrains
PROPERTIES
    EveryCallSettles
    AcloseEnds
CHECK_DEADLOCK FALSE
