CONSTANTS
    watched = watched
    other = other
    third = third
    Plans = {watched, other, third}
    PlanOf <- MCPlanOf
    Subs = {s1, s2}
    MaxSteps = 1
    MaxSize = 2
    MaxLog = 3
SPECIFICATION Spec
INVARIANTS TypeOK StoreExact LogComplete ClosedOnce RegisteredLive EachOnce LateReplayExact
PROPERTY RunningKept
SYMMETRY ClientSymmetry
\* Executions, streams and the store all come to an end.
CHECK_DEADLOCK FALSE
