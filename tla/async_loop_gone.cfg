SPECIFICATION FairSpec
CONSTANTS
    o = o
    a = a
    b = b
    k = k
    j = j
    main = main
    other = other
    None = None
    Shutdown = Shutdown
    Call = {a, b}
    Closer = {}
    Loop = {main, other}
    LoopOf <- TwoLoops
    CallKind <- OneOpen
    MayFail = {}
    MayCancel = {}
    MayEnd = {main}
PROPERTIES
    EveryCallIsTaken
CHECK_DEADLOCK FALSE
