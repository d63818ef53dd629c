\* Triggers, their runs and the cron loop, with one PATCH or DELETE and one
\* stop of the server.
SPECIFICATION Spec
CONSTANTS
  hook = hook
  nightly = nightly
  r1 = r1
  r2 = r2
  None = None
  Triggers <- TwoTriggers
  Runs <- TwoRuns
  Cron <- Crons
  Target <- Targets
  Date <- FirstOfJune
  LastTick = 2
  MaxEdits = 1
  MaxStops = 1
SYMMETRY Symmetry
INVARIANTS
  TypeOK
  TotalRunsCountsRows
  TriggeredActsHaveRows
  ActsAtMostOnce
  OncePerMinute
\* Nothing is left to do when the clock and the identifiers are used up.
CHECK_DEADLOCK FALSE
