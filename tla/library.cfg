SPECIFICATION LibrarySpec
CONSTANTS
    raw = raw
    text = text
    wide = wide
    record = record
    texts = texts
    Var = {raw, text, wide, record, texts}
    Decl <- Declared
    Start <- StartBytes
    Input <- Inputs
    Batch <- Batches
    Chunk = {1, 2}
    MaxCalls = 2
    DefaultChars = 2
    NoInfo = NoInfo
    Raised = Raised
    Failed = Failed
    Base = {x}
    PlcType = {t, u}
    SymbolType = s
    NoType = NoType
    Unknown = Unknown
    Caller = {worker}
    MaxSets = 2
    Root = Root
    Mid = Mid
    Leaf = Leaf
    Alone = Alone
    NoClass = NoClass
    Class = {Root, Mid, Leaf, Alone}
    Parent <- BaseOf
    HasPath = {Root, Leaf}
    AsyncPath = {Leaf}
    Stepchain = {Leaf, Alone}
    Getter = {g, h}
    fast = fast
    slow = slow
    Peer = {fast, slow}
    Pipelining = {fast}
    Request <- Requests
INVARIANTS
    LibraryTypeOK
    ListReadsAgree
    WritesLand
    RecordRoundTrip
    SpecsTrue
    CallsOnce
    StableDefinition
    RightConnection
    StoppedClients
    StopIsHeard
    AnswersInOrder
PROPERTIES
    StopEnds
CHECK_DEADLOCK FALSE
