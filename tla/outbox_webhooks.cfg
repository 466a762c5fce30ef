SPECIFICATION Spec
CONSTANTS
    Event = {e1}
    Task = {t1, t2}
    Run = {r1, r2}
    Nobody = Nobody
    Gone = Gone
    Batch = 1
    MaxRetries = 1
    MaxFaults = 1
    MaxRequeues = 1
    BusMissing = TRUE
    Subscribed = TRUE
SYMMETRY Alike
INVARIANTS TypeOK ClaimsDisjoint Bookkeeping RetriesSpent WebhookBeforeAck
PROPERTIES SettledStays
CHECK_DEADLOCK FALSE
