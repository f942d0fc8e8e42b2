CONSTANTS
    e1 = e1
    e2 = e2
    e3 = e3
    bad = bad
    Events = {e1, e2, e3}
    MultiLine = {e3}
    Garbage = Garbage
    NoTail = NoTail
    MaxFileBytes = 2
    SyncOnWrite = TRUE
    Retention = 2
    Faults = {"panic", "read"}
    Handlers = {h1, h2}
    Batches <- OneEach
    Invalid = {}
    Ts <- SameTs
    Capacity = 2
    HotWindow = 1
    RotationSlack = 0
    PowerLoss = FALSE
    MaxTime = 0
    MaxLines = 2
    MaxCrashes = 2
SPECIFICATION FairSpec
INVARIANT ReplayOrderMatches
PROPERTY EventuallyVisible
