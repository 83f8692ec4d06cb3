\* Two alerts of one (service, error), the toggle moving and markers expiring
\* at any time; no message is redelivered behind the callback's back.
CONSTANTS
  k1 = k1
  AlertIds = {a1, a2}
  Keys = {k1}
  KeyOf <- OneKey
  Claims = {c1, c2}
  NoClaim = NoClaim
  NoAlert = NoAlert
  RunIds = {r1, r2}
  Hooks = {h1}
  Reports = {p1}
  Batches <- SinglesAndPairs
  MaxAttempts = 2
  Env = {"toggle", "markerttl", "kv", "sql", "publish", "reject", "runnerdies", "oldrunner", "lockttl"}
SPECIFICATION Spec
SYMMETRY Symmetry
INVARIANTS RepairMutex DispatchHoldsLock AtMostOneDispatch OutcomeAfterRelease OutcomeIsDigested
PROPERTY ImplementsFlapLock
CHECK_DEADLOCK FALSE
