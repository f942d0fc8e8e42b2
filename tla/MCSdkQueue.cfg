CONSTANTS
    okSmall = okSmall
    okLarge = okLarge
    err = err
    panic = panic
    huge = huge
    broken = broken
    Events = {okSmall, okLarge, err, panic, huge, broken}
    Unencodable = {broken}
    Priority = {err, panic}
    Size <- MCSize
    InFlightCap = 3
    OkBudgetPct = 70
    MaxBatch = 2
    MaxBatchSize = 2
    MaxRetries = 1
    MaxSubmits = 4
SPECIFICATION FairSpec
INVARIANTS TypeOK DropsCounted BytesExact PostsBounded DrainedEmpty
PROPERTIES RetryPutBack PriorityLast Settles Drains
\* The worker stops when the queue is shut down.
CHECK_DEADLOCK FALSE
