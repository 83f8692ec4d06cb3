\* No fault at all: an alert_id fires again after its repair completed.
CONSTANTS
  a1 = a1  a2 = a2  k1 = k1
  AlertIds = {a1}
  Keys = {k1}
  KeyOf <- OneKey
  Claims = {c1, c2}
  NoClaim = NoClaim
  NoAlert = NoAlert
  RunIds = {r1}
  Hooks = {h1}
  Reports = {p1}
  Batches <- Singles
  MaxAttempts = 2
  Env = {}
SPECIFICATION Spec
INVARIANT LockMeansInFlight
CHECK_DEADLOCK FALSE
