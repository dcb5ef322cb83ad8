SPECIFICATION FairSpec
CONSTANTS
  Hosts = {1, 2, 3}
  e1 = e1
  e2 = e2
  Events = {e1, e2}
  NoEvent = NoEvent
  MaxAutos = {1, 2}
  MinSurviving = 1
  Window = TRUE
  Placements <- Placed
  StableReads = 1
  MaxAttempts = 2
  SlowFencing = FALSE
  MaxRuns <- Twice
  MaxFaults = 1
CHECK_DEADLOCK FALSE
INVARIANTS TypeOK EvacuatedHostIsOff LimitPerWindow OneFencerPerSegment
PROPERTY EveryFencingEnds
