SPECIFICATION Spec
CONSTANTS
  e1 = e1
  e2 = e2
  Hosts = {1, 2}
  Events = {e1, e2}
  NoEvent = NoEvent
  MaxAutos = {2}
  MinSurviving = 0
  Window = TRUE
  Placements <- Placed
  StableReads = 1
  MaxAttempts = 1
  SlowFencing = TRUE
  MaxRuns <- Twice
  MaxFaults = 0
CHECK_DEADLOCK FALSE
INVARIANT SegmentLockExcludes
