CONSTANTS
    e1 = e1
    e2 = e2
    e3 = e3
    bad = bad
    Events = {e1, e2}
    MultiLine = {}
    Garbage = Garbage
    NoTail = NoTail
    MaxFileBytes = 2
    SyncOnWrite = TRUE
    Retention = 2
    Faults = {}
    Handlers = {h1}
    Batches <- OneEach
    Invalid = {}
    Ts <- LaterTs
    Capacity = 1
    HotWindow = 1
    RotationSlack = 1
    PowerLoss = FALSE
    MaxTime = 3
    MaxLines = 3
    MaxCrashes = 0
SPECIFICATION Spec
CONSTRAINT ClocksAgree
INVARIANT IndexAlwaysRebuildable
