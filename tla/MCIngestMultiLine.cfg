CONSTANTS
    e1 = e1
    e2 = e2
    e3 = e3
    bad = bad
    Events = {e1, e2}
    MultiLine = {e2}
    Garbage = Garbage
    NoTail = NoTail
    MaxFileBytes = 2
    SyncOnWrite = TRUE
    Retention = 2
    Faults = {}
    Handlers = {h1}
    Batches <- OneEach
    Invalid = {}
    Ts <- MCTs
    Capacity = 1
    HotWindow = 1
    RotationSlack = 2
    PowerLoss = FALSE
    MaxTime = 0
    MaxLines = 3
    MaxCrashes = 1
SPECIFICATION Spec
INVARIANT AckedDurable
