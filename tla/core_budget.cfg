CONSTANTS
    Threads = {t1, t2, t3, t4}
    Permits = 3
    Demands = {1, 2, 3}
SPECIFICATION FairSpec
INVARIANTS BudgetTypeOK PermitsConserved QueueExact NoLostWakeup
PROPERTIES GrantedInOrder EveryWaiterServed
