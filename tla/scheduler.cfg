CONSTANTS
    Workers = {w1, w2}
    Clients = {c1, c2}
    Buckets = {b1, b2}
    NoBucket = none
    Trigger = 1
    Permits = 1
    UseCompactNow = TRUE
    MaxIngests = 4
    MaxFailures = 1
SPECIFICATION Spec
INVARIANTS SchedulerTypeOK InFlightExact NoJobSleptThrough
PROPERTIES JobsRun RetriedWhenNotified ShutdownTerminates
CHECK_DEADLOCK FALSE
