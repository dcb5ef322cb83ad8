SPECIFICATION FairSpec
CONSTANTS
  Notifs = {n1, n2}
  Hosts = {h1}
  Kinds = {"host_stopped"}
  NoWorker = NoWorker
  NoRow = NoRow
  e1 = e1
  e2 = e2
  rpc1 = rpc1
  per1 = per1
  Engines = {e1}
  Workers = {rpc1, per1}
  Periodic = {per1}
  EngineOf <- OneEngine
  RetryAge = 1
  ExpiryAge = 2
  MaxAge = 1
  RunCap = 4
  MaxCrashes = 1
  MaxUpdates = 0
  Staged = FALSE
  MaxFaults = 1
INVARIANT LockMatchesHolder
PROPERTIES ImplementsLifecycle EveryNotificationIsTaken
