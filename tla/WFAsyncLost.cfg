\* The background task of async_run can look for its row too early.
SPECIFICATION Spec
CONSTANTS
  e1 = e1
  e2 = e2
  Executions <- OneExecution
  Plans <- OneStep
  ForeignKeys = TRUE
\* A deleted workflow, its executions ended, has nothing left to do.
CHECK_DEADLOCK FALSE
INVARIANTS
  AsyncExecutionIsFound
