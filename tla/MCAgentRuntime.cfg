SPECIFICATION Spec
CONSTANTS
  Agents = {a1, a2}
  Tasks = {t1}
  MaxRounds = 2
  SaveEvery = 1
  MaxAssignments = 2
  MaxEvents = 2
SYMMETRY Symmetry
CHECK_DEADLOCK FALSE
INVARIANTS TypeOK LoadIsNewest CheckpointsAreDeleted RowsAreWorked ReportsItsWork
