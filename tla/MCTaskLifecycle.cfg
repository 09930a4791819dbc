SPECIFICATION FairSpec
CONSTANTS
  NumTasks = 1
  Agents = {a1, a2, a3}
  InitialAgents = 1
  HasUpdatedAt = TRUE
  MaxRetries = 1
  MaxFaults = 2
INVARIANTS
  TypeOK
  RunsArePaidFor
  PendingIsTracked
  RunningIsTracked
PROPERTIES
  TasksSettle
CHECK_DEADLOCK FALSE
