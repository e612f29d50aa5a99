SPECIFICATION Spec
CONSTANTS
    a = a
    b = b
    None = None
    Sym = {a, b}
    AutoSym = {a}
    Moving = {a}
    Mortal = {a}
    Value = {0, 1}
    Zero = 0
    MaxHandle = 2
    MaxAdds = 3
    MaxListed = 2
    MaxOpens = 2
    MaxPending = 1
    MayRefuse = {"add", "delete", "read", "write"}
INVARIANTS
    TypeOK
    CallbackAlive
    NoOrphans
    AutoIsLive
    BufferFollows
PROPERTIES
    DeletesOwn
CHECK_DEADLOCK FALSE
