\* Two concurrent reports, two inserts, restarts in another mode and in
\* the middle of a migration, failing statements.
CONSTANTS
  RawModes = {"AUTONOMOUS", "autonomous"}
  Columns <- TwoColumns
  Outcomes = {"MERGED", "ESCALATED"}
  Inserters = {i1, i2}
  Recorders = {p1, p2}
  None = None
  MaxCalls = 4
  Env = {"crash", "sql"}
SPECIFICATION Spec
SYMMETRY Symmetry
INVARIANTS TypeOK MergedOnlyAutonomous MigrationCompletes RowIsOneReport AnswerStaysTrue
PROPERTIES RowKept ImplementsRunRow
CHECK_DEADLOCK FALSE
