CONSTANTS
  f1 = f1
  f2 = f2
  Faults = {f1, f2}
  TrialsPerFault = 2
  Retried = {1}
  MaxPolls = 2
  MaxTrials = 3
  MaxMishaps = 1
SPECIFICATION FairSpec
INVARIANTS TypeOK JudgedOwnFix NoHaltedTrial Stage2OnCleanReport VerdictStands
PROPERTIES FileOnlyGrows CommandEnds
CHECK_DEADLOCK FALSE
