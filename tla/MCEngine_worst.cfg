SPECIFICATION FairSpec
CONSTANTS
  Notifs = {n1}
  Hosts = {h1}
  Kinds = {"host_stopped", "process_stopped", "process_started", "host_not_normal", "vm_event"}
  NoWorker = NoWorker
  NoRow = NoRow
  e1 = e1
  e2 = e2
  rpc1 = rpc1
  per1 = per1
  Engines = {e1}
  Workers = {rpc1, per1}
  Periodic = {per1}
  EngineOf <- OneEngine
  RetryAge = 1
  ExpiryAge = 3
  MaxAge = 3
  RunCap = 5
  MaxCrashes = 1
  MaxUpdates = 1
  Staged = TRUE
  MaxFaults = 2
INVARIANTS TypeOK AtMostOneRetry NewIsUntouched VerdictHasACause
PROPERTY EveryNotificationSettles
