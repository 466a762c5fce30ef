SPECIFICATION RecycledSpec
CONSTANTS
    Event = {e1, e2}
    Task = {t1}
    Run = {r1, r2}
    Nobody = Nobody
    Gone = Gone
    Batch = 2
    MaxRetries = 2
    MaxFaults = 1
    MaxRequeues = 0
    BusMissing = FALSE
    Subscribed = FALSE
INVARIANTS AckedMeansHeard ClaimsSettled
PROPERTIES Drained
CHECK_DEADLOCK FALSE
