SPECIFICATION Spec
CONSTANTS
    manual = manual
    timer = timer
    Run = {manual, timer}
    Kind <- TwoDataRuns
    Sizes = {0, 2, 3}
    ConfiguredBatch = 2
    PoolSize = 1
    Deployments <- OnlyRoomyPool
    FetchEnds = {"items", "empty", "failed"}
    MaxCrashes = 0
INVARIANTS
    FailuresRecorded
