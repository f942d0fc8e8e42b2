CONSTANTS
    e1 = e1
    e2 = e2
    e3 = e3
    bad = bad
    Events = {e1, e2, bad}
    MultiLine = {}
    Garbage = Garbage
    NoTail = NoTail
    MaxFileBytes = 2
    SyncOnWrite = TRUE
    Retention = 2
    Faults = {"sync", "panic", "write", "torn"}
    Handlers = {h1, h2}
    Batches <- BadBatches
    Invalid = {bad}
    Ts <- MCTs
    Capacity = 1
    HotWindow = 1
    RotationSlack = 2
    PowerLoss = TRUE
    MaxTime = 0
    MaxLines = 3
    MaxCrashes = 2
SPECIFICATION Spec
INVARIANT TornWriteLosesOne
SYMMETRY HandlerSymmetry
