CONSTANTS
    Workers = {w1}
    Clients = {c1, c2}
    Buckets = {b1}
    NoBucket = none
    Trigger = 1
    Permits = 1
    UseCompactNow = FALSE
    MaxIngests = 4
    MaxFailures = 0
SPECIFICATION Spec
PROPERTY EligibleGetsCompacted
CHECK_DEADLOCK FALSE
