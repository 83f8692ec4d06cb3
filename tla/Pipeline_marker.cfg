\* A crash between TryMarkDispatched and the repository_dispatch call.
CONSTANTS
  a1 = a1  a2 = a2  k1 = k1
  AlertIds = {a1}
  Keys = {k1}
  KeyOf <- OneKey
  Claims = {c1}
  NoClaim = NoClaim
  NoAlert = NoAlert
  RunIds = {r1}
  Hooks = {h1}
  Reports = {p1}
  Batches <- Singles
  MaxAttempts = 2
  Env = {"crash"}
SPECIFICATION Spec
INVARIANT MarkerMeansDispatched
CHECK_DEADLOCK FALSE
