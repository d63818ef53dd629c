\* Handlers, jumps, retries, edits, and executions that overlap, on SQLite.
SPECIFICATION SmallSpec
CONSTANTS
  e1 = e1
  e2 = e2
  Executions <- TwoExecutions
  Plans <- AllLists
  ForeignKeys = FALSE
\* A deleted workflow, its executions ended, has nothing left to do.
CHECK_DEADLOCK FALSE
INVARIANTS
  TypeOK
  VerdictFollowsHandlers
  JumpsSkipExactly
  AllOrNothing
  StatisticsNeverOvercount
PROPERTIES
  ExecutionsEnd
  TriggeredExecutionsSettle
