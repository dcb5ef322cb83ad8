SPECIFICATION Spec
CONSTANTS
  f1 = f1
  f2 = f2
  i1 = i1
  Failed = {f1}
  Instances = {i1}
  home <- Homes
  Reserved = {r1}
  Elsewhere = Elsewhere
  NoHost = NoHost
  Methods = {"auto"}
  Threads = 1
  Excluded = {}
  IgnoreErrors = FALSE
  MaxRuns = 1
  NovaAnswers = FALSE
INVARIANT FinishedMeansEvacuated
CHECK_DEADLOCK FALSE
