CONSTANTS
    Entities = {0, 1}
    Times = {0, 1, 2}
    WindowLen = 3
    ShardCount = 2
    ShardOf <- Apart
    DeleteKinds = {"entity"}
    AnyId = FALSE
    ScanPredicates = {}
    MaxKeys = 3
    MaxBatchRows = 2
    MaxSegments = 3
    MaxSeqs = 4
    MaxBatches = 3
    MaxDeletes = 1
    MaxDrops = 0
    MaxCrashes = 0
SPECIFICATION Spec
INVARIANT TombstonesHitOnlyPresentRows
CHECK_DEADLOCK FALSE
