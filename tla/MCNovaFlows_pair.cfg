SPECIFICATION Spec
CONSTANTS
  n1 = n1
  n2 = n2
  Notifications <- TwoNotifications
  Kinds <- AllKinds
  process_all_instances = FALSE
  MaxMoves = 2
  MaxFaults = 2
INVARIANTS
  LeftStoppedIsReported
PROPERTIES
  EveryRecoveryEnds
CHECK_DEADLOCK FALSE
