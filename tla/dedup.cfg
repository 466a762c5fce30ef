SPECIFICATION Spec
CONSTANTS
    Call = {c1, c2, c3}
    Stamp = {1, 2}
    MaxRequeues = 1
SYMMETRY Alike
INVARIANTS  OneRowPerInstant 
CHECK_DEADLOCK FALSE
