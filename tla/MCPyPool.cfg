SPECIFICATION FairSpec
CONSTANTS
  NumTasks = 3
  Edges <- MCEdges
  Daemons = {d1}
  Clients = {c1, c2}
  MaxAsks = 2
  MaxFaults = 1
INVARIANTS TypeOK ClaimsArePaidFor AssignedIsTracked NoDependentForgotten
PROPERTIES AssignedTasksEnd
CHECK_DEADLOCK FALSE
