SPECIFICATION FairSpec
CONSTANTS
  NumTasks = 1
  Agents = {a1, a2}
  InitialAgents = 2
  HasUpdatedAt = FALSE
  MaxRetries = 0
  MaxFaults = 1
PROPERTIES
  OrphanIsRequeued
CHECK_DEADLOCK FALSE
