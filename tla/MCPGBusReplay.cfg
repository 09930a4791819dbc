SPECIFICATION FairSpec
CONSTANTS
  Msgs = {m1}
  GoSubs = {g1}
  PySubs = {}
  MaxWakes = 0
  MaxFaults = 1
PROPERTIES
  ReplayedOnReconnect
CHECK_DEADLOCK FALSE
