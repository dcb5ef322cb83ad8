SPECIFICATION Spec
CONSTANTS
  Ids <- MCIds
  Values = {1, 2}
  Over = {1}
  Initial <- MCInitial
  Requests <- MCRequests
  Purges <- MCPurges
  Written = {"failover_segments", "hosts", "notifications"}
  MaxLimit = 2
  Lag = 1
  MaxClock = 3
  MaxChanges = 2
INVARIANTS
  EachOnce
  OnlyOrphansStopPurge
  HostsFollowSegments
CHECK_DEADLOCK FALSE
