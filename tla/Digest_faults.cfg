\* Concurrent upserts and flushes with every fault; the clocks go back on
\* the second day.
CONSTANTS
  EventKeys = {k1, k2}
  Writers = {w1, w2}
  LastDay = 4
  LongDays = {2}
  MaxUpserts = 3
  MaxAttempts = 2
  Env = {"crash", "kv", "slack"}
SPECIFICATION Spec
SYMMETRY Symmetry
INVARIANTS TypeOK NoLostUpsert PostedOncePerDay DeletedOnlyAfterPost EarlyEntriesArePosted
PROPERTY ImplementsDigest
CHECK_DEADLOCK FALSE
