SPECIFICATION MCSpec
CONSTANTS
  Msgs = {m1, m2}
  GoSubs = {g1, g2}
  PySubs = {p1}
  MaxWakes = 1
  MaxFaults = 2
INVARIANTS
  TypeOK
  NoRowLeftBehind
  GoHandsOutOnce
PROPERTIES
  ImplementsChannel
  LoyalSubscriberDrains
CHECK_DEADLOCK FALSE
