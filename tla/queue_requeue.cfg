CONSTANTS
  Task = {t1}
  Runner = {d1, d2}
  Nobody = Nobody
  HardCap = 2
  MaxRetries = 2
  MaxClaims = 3
  Inline = {t1}
  Routed = {}
  Rejects <- D1Refuses
  Dismissible = {}
  Orphans = {t1}
  RequeueModes = {TRUE, FALSE}
  d1 = d1
  t1 = t1
SPECIFICATION Spec
INVARIANTS
  TypeOK
  ActiveBelowHardCap
CHECK_DEADLOCK FALSE
