CONSTANTS
  Handlers = {h1, h2}
  Payloads <- MCPayloads
  LineBytes = {0, 2, 4}
  MaxLines = 3
  MaxContextBytes = 7
  MaxRequests = 2
SPECIFICATION Spec
INVARIANTS TypeOK AnswerIsTrue OneMessagePerLock RowsAreOrdered ContextIsNewest
CHECK_DEADLOCK FALSE
