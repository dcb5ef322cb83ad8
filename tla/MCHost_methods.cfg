SPECIFICATION Spec
CONSTANTS
  f1 = f1
  f2 = f2
  i1 = i1
  Failed = {f1}
  Instances = {i1, i2, i3}
  home <- Homes
  Reserved = {r1}
  Elsewhere = Elsewhere
  NoHost = NoHost
  Methods = {"auto", "reserved_host", "auto_priority", "rh_priority"}
  Threads = 2
  Excluded = {i3}
  IgnoreErrors = TRUE
  MaxRuns = 2
  NovaAnswers = TRUE
CHECK_DEADLOCK FALSE
INVARIANT TypeOK
INVARIANT FinishedMeansEvacuated
INVARIANT NoInstanceStaysLocked
SYMMETRY Symmetry
