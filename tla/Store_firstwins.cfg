\* Two reports of one alert_id overlap.
CONSTANTS
  RawModes = {"AUTONOMOUS", "autonomous"}
  Columns <- NoColumns
  Outcomes = {"MERGED", "ESCALATED"}
  Inserters = {i1}
  Recorders = {p1, p2}
  None = None
  MaxCalls = 3
  Env = {}
SPECIFICATION Spec
PROPERTY FirstOutcomeWins
CHECK_DEADLOCK FALSE
