SPECIFICATION Spec
CONSTANTS
    Runner = {s1, s2, s3, d1}
    Nobody = Nobody
    HardCap = 5
    MaxRetries = 3
    Dispatcher = {d1}
    Spawn = {s1, s2, s3}
    Job = {j1, j2, j3}
    Reconciler = {}
    MaxTries = 2
    Faults = {"dismissal", "no job", "lost ref"}
CHECK_DEADLOCK FALSE
SYMMETRY Alike
INVARIANTS
    TypeOK
    NoDoubleRun
    OneAttempt
