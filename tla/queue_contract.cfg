CONSTANTS
  Task = {t1}
  Runner = {d1}
  Nobody = Nobody
  HardCap = 2
  MaxRetries = 3
  MaxClaims = 2
  Inline = {}
  Routed = {t1}
  Rejects = {}
  Dismissible = {t1}
  Orphans = {t1}
  RequeueModes = {TRUE, FALSE}
SPECIFICATION Spec
INVARIANTS
  ReleasedRowUnowned
  CompletionLandsOnce
  SuccessRoutedOnce
PROPERTIES
  
  ContractKept
CHECK_DEADLOCK FALSE
