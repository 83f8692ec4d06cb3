\* One alert_id that fires twice; crashes and lost acks cease some day.
CONSTANTS
  k1 = k1
  AlertIds = {a1}
  Keys = {k1}
  KeyOf <- OneKey
  Claims = {c1, c2}
  NoClaim = NoClaim
  NoAlert = NoAlert
  RunIds = {r1}
  Hooks = {h1}
  Reports = {p1}
  Batches <- Singles
  MaxAttempts = 2
  Env = {"crash", "acklost", "publish", "reject", "ambiguous", "runnerdies", "oldrunner", "lockttl"}
SPECIFICATION FairSpec
PROPERTIES MessageSettles LockIsFreed
CHECK_DEADLOCK FALSE
