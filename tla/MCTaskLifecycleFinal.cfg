SPECIFICATION Spec
CONSTANTS
  NumTasks = 1
  Agents = {a1, a2}
  InitialAgents = 1
  HasUpdatedAt = FALSE
  MaxRetries = 0
  MaxFaults = 0
PROPERTIES
  CompletedIsFinal
CHECK_DEADLOCK FALSE
