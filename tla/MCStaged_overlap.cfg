SPECIFICATION Spec
CONSTANTS
  Instances = {i1}
  Running = {i1}
  Excluded = {}
  IgnoreErrors = FALSE
  Engines = {e1, e2}
  NoEngine = NoEngine
  MaxRuns = 2
  MaxCrashes = 0
INVARIANT OneWorkflowAtATime
CHECK_DEADLOCK FALSE
