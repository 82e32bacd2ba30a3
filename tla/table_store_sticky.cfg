CONSTANTS
    Entities = {0, 1}
    Times = {0, 1, 2}
    WindowLen = 2
    ShardCount = 2
    ShardOf <- Apart
    DeleteKinds = {"entity", "range"}
    AnyId = FALSE
    ScanPredicates = {}
    MaxKeys = 3
    MaxBatchRows = 2
    MaxSegments = 3
    MaxSeqs = 5
    MaxBatches = 3
    MaxDeletes = 1
    MaxDrops = 0
    MaxCrashes = 1
SPECIFICATION Spec
INVARIANTS TypeOK DeleteComplete TimePruningSound
PROPERTY ImplementsTable
CHECK_DEADLOCK FALSE
