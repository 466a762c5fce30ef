SPECIFICATION Spec
CONSTANTS
    Runner = {s1, d1}
    Nobody = Nobody
    HardCap = 5
    MaxRetries = 3
    Dispatcher = {d1}
    Spawn = {s1}
    Job = {j1}
    Reconciler = {}
    MaxTries = 1
    Faults = {}
CHECK_DEADLOCK FALSE
SYMMETRY Alike
PROPERTY
    PermanentStays
