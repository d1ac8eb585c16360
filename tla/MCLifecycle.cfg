\* Anybody may do anything at any time; a third subject may join.
SPECIFICATION Spec
CONSTANTS
  trader = trader
  creator = creator
  Role = {trader, creator}
  Files <- MCFiles
  MaxSubjects = 3
  MaxCount = 5
INVARIANTS
  TypeOK
  LoadedIsComplete
  DownHasCause
  OrderlyStaysUp
PROPERTIES
  RoundsInOrder
  CounterCountsSubjects
  ReachesPayouts
CHECK_DEADLOCK FALSE
