SPECIFICATION Spec
CONSTANTS
    o = o
    a = a
    b = b
    k = k
    j = j
    main = main
    other = other
    None = None
    Shutdown = Shutdown
    Call = {o, b}
    Closer = {k}
    Loop = {main, other}
    LoopOf <- TwoLoops
    CallKind <- LateOpen
    MayFail = {}
    MayCancel = {}
    MayEnd = {}
INVARIANTS
    ClosedForGood
CHECK_DEADLOCK FALSE
