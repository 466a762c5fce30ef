CONSTANTS
  Task = {t1}
  Runner = {d1, d2}
  Nobody = Nobody
  HardCap = 2
  MaxRetries = 3
  MaxClaims = 3
  Inline = {}
  Routed = {t1}
  Rejects = {}
  Dismissible = {}
  Orphans = {}
  RequeueModes = {}
SPECIFICATION FairSpec
INVARIANTS
  ActiveRowReachable
  AttemptsBounded
PROPERTIES
  EventuallySettled
CHECK_DEADLOCK FALSE
