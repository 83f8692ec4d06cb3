\* An entry recorded after the digest time.
CONSTANTS
  EventKeys = {k1}
  Writers = {w1}
  LastDay = 3
  LongDays = {}
  MaxUpserts = 1
  MaxAttempts = 2
  Env = {}
SPECIFICATION Spec
INVARIANT NextMorning
CHECK_DEADLOCK FALSE
