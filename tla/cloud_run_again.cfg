SPECIFICATION FairSpec
CONSTANTS
    Runner = {s1, d1}
    Nobody = Nobody
    HardCap = 5
    MaxRetries = 2
    Dispatcher = {d1}
    Spawn = {s1}
    Job = {j1, j2}
    Reconciler = {c1}
    MaxTries = 1
    Faults = {"stall", "give up", "lost answer", "lost ref", "early raise", "dismissal", "no job"}
CHECK_DEADLOCK FALSE
PROPERTY
    AbandonedReclaimed
