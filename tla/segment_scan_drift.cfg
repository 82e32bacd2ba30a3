CONSTANTS
    Null = Null
    SortBatchSize = 2
    MaxPushdown = 3
    SumWidth = 3
    WindowDays = 2
    IntWidth = 4
    BlockSize = 2
    ScanFiles <- FileCases
    ScanDeletes <- DeleteCases
    ScanFilters <- FilterCases
    FirstSeq = 10
    MatchJobs = {}
    EntityJobs = {}
    SortJobs = {}
    PlanJobs = {}
    AggJobs = {}
    IngestJobs = {}
    ColumnJobs = {}
SPECIFICATION ScanSpec
INVARIANT ScanExact
CHECK_DEADLOCK FALSE
