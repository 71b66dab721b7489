SPECIFICATION FairSpec
CONSTANTS
    manual = manual
    timer = timer
    Run = {manual, timer}
    Kind <- MixedKinds
    Sizes = {0, 2, 3}
    ConfiguredBatch = 2
    PoolSize = 1
    Deployments <- TightAndRoomy
    FetchEnds = {"items", "failed"}
    MaxCrashes = 1
INVARIANTS
    PendingInExecutor
    ExecutorBounded
    NoRejection
    ReturnedIsComplete
    HistoryHasNoHole
    NoStarvation
    IInv
PROPERTIES RunsEnd Promise
