SPECIFICATION FairSpec
CONSTANTS
  f1 = f1
  f2 = f2
  i1 = i1
  Failed = {f1, f2}
  Instances = {i1, i2}
  home <- Homes
  Reserved = {r1, r2}
  Elsewhere = Elsewhere
  NoHost = NoHost
  Methods = {"reserved_host"}
  Threads = 1
  Excluded = {}
  IgnoreErrors = FALSE
  MaxRuns = 1
  NovaAnswers = FALSE
CHECK_DEADLOCK FALSE
INVARIANT ReservedHostsAreSpare
INVARIANT OneRecoveryPerReservedHost
PROPERTY EveryRecoveryEnds
