\* Two alerts of one (service, error): crashes, redelivery, failed dispatches.
CONSTANTS
  k1 = k1
  AlertIds = {a1, a2}
  Keys = {k1}
  KeyOf <- OneKey
  Claims = {c1, c2}
  NoClaim = NoClaim
  NoAlert = NoAlert
  RunIds = {r1, r2}
  Hooks = {h1}
  Reports = {p1}
  Batches <- SinglesAndPairs
  MaxAttempts = 2
  Env = {"crash", "ackwait", "reject", "runnerdies", "lockttl"}
SPECIFICATION Spec
SYMMETRY Symmetry
INVARIANTS TypeOK RepairMutex DispatchHoldsLock AtMostOneDispatch
PROPERTY ImplementsFlapLock
CHECK_DEADLOCK FALSE
