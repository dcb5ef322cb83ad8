SPECIFICATION FairSlotsSpec
CONSTANTS
  a1 = a1
  a2 = a2
  a3 = a3
  i1 = i1
  i2 = i2
  i3 = i3
  NoAttempt = NoAttempt
  Attempts = {a1, a2, a3, a4}
  Servers = {i1, i2, i3}
  ServerOf <- Starts
  Limits = {1, 2}
  StartTimeout = 1
  BatchDelay = 0
  TTL = 2
  CallTime = 0
  MaxDeaths = 1
  MaxChanges = 1
INVARIANTS SlotIsOwn StartsWithinLimit
CHECK_DEADLOCK FALSE
PROPERTIES EveryAttemptEnds ImplementsStartSlots
