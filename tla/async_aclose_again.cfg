SPECIFICATION Spec
CONSTANTS
    o = o
    a = a
    b = b
    k = k
    j = j
    main = main
    other = other
    None = None
    Shutdown = Shutdown
    Call = {o}
    Closer = {k, j}
    Loop = {main}
    LoopOf <- OneLoop
    CallKind <- OneOpen
    MayFail = {k}
    MayCancel = {}
    MayEnd = {}
INVARIANTS
    AcloseReturnsClosed
CHECK_DEADLOCK FALSE
