SPECIFICATION Spec
CONSTANTS
    Process = {p1, p2, p3}
    Mortal = {p1, p2}
    Nobody = Nobody
    Heartbeat = FALSE
    TTL = 4
    Skew = 1
    Renew = 1
    Latency = 1
SYMMETRY Alike
INVARIANTS
    TypeOK
    SingleLeader
    TickWithinLease
    OverrunBounded
PROPERTY
    LiveLeaseUntouched
