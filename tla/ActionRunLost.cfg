\* An action run that has been executed is still PENDING.
SPECIFICATION Spec
CONSTANTS
  hook = hook
  nightly = nightly
  r1 = r1
  r2 = r2
  None = None
  Triggers <- TwoTriggers
  Runs <- TwoRuns
  Cron <- Crons
  Target <- Targets
  Date <- FirstOfJune
  LastTick = 2
  MaxEdits = 1
  MaxStops = 1
SYMMETRY Symmetry
INVARIANTS
  EndedRunsHaveVerdict
CHECK_DEADLOCK FALSE
