SPECIFICATION FairSpec
CONSTANTS
    Process = {p1, p2}
    Mortal = {p1}
    Nobody = Nobody
    Heartbeat = TRUE
    TTL = 5
    Skew = 1
    Renew = 2
    Latency = 1
INVARIANTS
    OverrunBounded
    Tenure
    Knowledge
PROPERTIES
    LedAgain
