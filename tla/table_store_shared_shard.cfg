CONSTANTS
    Entities = {0, 1}
    Times = {0, 1, 2}
    WindowLen = 3
    ShardCount = 1
    ShardOf <- Together
    DeleteKinds = {}
    AnyId = FALSE
    ScanPredicates = {}
    MaxKeys = 3
    MaxBatchRows = 2
    MaxSegments = 2
    MaxSeqs = 4
    MaxBatches = 2
    MaxDeletes = 0
    MaxDrops = 0
    MaxCrashes = 0
SPECIFICATION Spec
INVARIANT TimePruningSound
CHECK_DEADLOCK FALSE
