CONSTANTS
    Null = Null
    SortBatchSize = 2
    MaxPushdown = 3
    SumWidth = 3
    WindowDays = 2
    IntWidth = 4
    BlockSize = 2
    ScanFiles <- FileCases
    ScanDeletes <- DeleteCases
    ScanFilters <- FilterCases
    FirstSeq = 10
    MatchJobs <- MatchCases
    EntityJobs <- EntityCases
    SortJobs <- SortCases
    PlanJobs <- PlanCases
    AggJobs <- AggCases
    IngestJobs <- IngestCases
    ColumnJobs <- ColumnCases
SPECIFICATION Spec
INVARIANTS MatchesExact EntriesAccountedOnce SessionsExact SelectionExact AttributionExact
INVARIANTS SortExact BudgetExact PlanExact AggregateExact IngestExact ColumnExact
INVARIANTS ScanExactWithoutDrift
CHECK_DEADLOCK FALSE
