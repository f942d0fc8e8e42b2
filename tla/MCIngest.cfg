CONSTANTS
    e1 = e1
    e2 = e2
    e3 = e3
    bad = bad
    Events = {e1, e2}
    MultiLine = {e2}
    Garbage = Garbage
    NoTail = NoTail
    MaxFileBytes = 1
    SyncOnWrite = TRUE
    Retention = 1
    Faults = {"write", "close", "open", "sync", "panic"}
    Handlers = {h1, h2}
    Batches <- OneEach
    Invalid = {}
    Ts <- MCTs
    Capacity = 1
    HotWindow = 1
    RotationSlack = 0
    PowerLoss = FALSE
    MaxTime = 2
    MaxLines = 2
    MaxCrashes = 1
SPECIFICATION Spec
INVARIANTS
    TypeOK
    OneLineDurable
    NothingUnlogged
    AckedVisible
    IndexRebuildable
PROPERTY ImplementsEventStore
SYMMETRY HandlerSymmetry
