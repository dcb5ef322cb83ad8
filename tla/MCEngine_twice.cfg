SPECIFICATION Spec
CONSTANTS
  Notifs = {n1}
  Hosts = {h1}
  Kinds = {"host_stopped"}
  NoWorker = NoWorker
  NoRow = NoRow
  e1 = e1
  e2 = e2
  rpc1 = rpc1
  per1 = per1
  Engines = {e1, e2}
  Workers = {rpc1, per1, per2}
  Periodic = {per1, per2}
  EngineOf <- TwoEngines
  RetryAge = 1
  ExpiryAge = 3
  MaxAge = 2
  RunCap = 4
  MaxCrashes = 0
  MaxUpdates = 0
  Staged = FALSE
  MaxFaults = 0
PROPERTY NotRecoveredTwice
