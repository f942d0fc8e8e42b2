SPECIFICATION FairSpec
CONSTANTS
    Families = {payment}
    Envs = {prod, staging}
    Deploys = {release}
    DeployedAt <- AtStart
    DeployWindow = 1
    None = None
    MinCount = 1
    MinRate = 0
    MinLift = 1
    Window = 1
    ResolveAfter = 2
    IdBucket = 3
    ReplayWindow = 4
    Retention = 1
    MaxDelay = 1
    MaxTime = 5
    MaxEvents = 2
    MaxFaults = 1
INVARIANTS TypeOK CacheMatchesStore OneOpenPerFamily NotificationsExact
PROPERTIES Lifecycle LostOnlyByRebuild SuspectSticky QuietResolves
CHECK_DEADLOCK FALSE
