CONSTANTS
    Queries = {q1, q2}
    Shards = {s1, s2}
    Tokens = {k1}
    QueryThreads = 2
    Permits = 2
    MaxFaults = 1
SPECIFICATION FairSpec
INVARIANTS PoolTypeOK NoPartialResult AccountingBalanced RootCauseReported WorkersWithinPermits
PROPERTIES EveryQueryReturns
CHECK_DEADLOCK FALSE
