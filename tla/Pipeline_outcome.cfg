\* Two concurrent reports beside a webhook and the dispatcher; no crash, every KV
\* call succeeds, but a report need not name its lock.  One marker that never
\* expires lets at most one run start, so one run id is enough.
CONSTANTS
  k1 = k1
  AlertIds = {a1}
  Keys = {k1}
  KeyOf <- OneKey
  Claims = {c1, c2}
  NoClaim = NoClaim
  NoAlert = NoAlert
  RunIds = {r1}
  Hooks = {h1}
  Reports = {p1, p2}
  Batches <- Singles
  MaxAttempts = 2
  Env = {"ackwait", "toggle", "resend", "oldrunner", "reject", "lockttlEarly"}
SPECIFICATION Spec
SYMMETRY Symmetry
INVARIANTS OutcomeAfterRelease AckedIsHandled
CHECK_DEADLOCK FALSE
