SPECIFICATION SlotsSpec
CONSTANTS
  a1 = a1
  a2 = a2
  a3 = a3
  i1 = i1
  i2 = i2
  i3 = i3
  NoAttempt = NoAttempt
  Attempts = {a1, a2}
  Servers = {i1}
  ServerOf <- Starts
  Limits = {2}
  StartTimeout = 2
  BatchDelay = 0
  TTL = 2
  CallTime = 1
  MaxDeaths = 0
  MaxChanges = 0
INVARIANT StartsWithinLimit
CHECK_DEADLOCK FALSE
