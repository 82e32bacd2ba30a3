CONSTANTS
    Entities = {0, 1}
    Times = {1, 2}
    WindowLen = 2
    ShardCount = 2
    ShardOf <- Apart
    DeleteKinds = {"row", "batch", "scan"}
    AnyId = FALSE
    ScanPredicates <- AtTime
    MaxKeys = 3
    MaxBatchRows = 2
    MaxSegments = 4
    MaxSeqs = 6
    MaxBatches = 4
    MaxDeletes = 1
    MaxDrops = 0
    MaxCrashes = 1
SPECIFICATION Spec
INVARIANTS RefsHaveFiles IdsUnique TombstonesHitOnlyPresentRows
PROPERTY ImplementsTable
CHECK_DEADLOCK FALSE
