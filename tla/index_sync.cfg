SPECIFICATION FairSpec
CONSTANTS
    Item = {i1}
    Writer = {u1}
    Run = {r1, r2}
    Offload = {}
    FailOpen = {}
    Nobody = Nobody
    Ledger = Ledger
    Batch = 2
    MaxWrites = 2
    MaxFaults = 3
INVARIANTS TypeOK InOrder DoneMeansIndexed
PROPERTIES IndexedStays Converges
