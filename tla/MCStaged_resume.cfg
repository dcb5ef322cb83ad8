SPECIFICATION FairSpec
CONSTANTS
  Instances = {i1, i2}
  Running = {i1}
  Excluded = {}
  IgnoreErrors = TRUE
  Engines = {e1, e2}
  NoEngine = NoEngine
  MaxRuns = 2
  MaxCrashes = 1
INVARIANTS OriginalIsKept StartsAreSafe NoFailedMoveIsForgotten
PROPERTIES AchievedStaysAchieved InterruptedIsRetried
CHECK_DEADLOCK FALSE
