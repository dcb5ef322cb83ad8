SPECIFICATION Spec
CONSTANTS
  Requests = {1, 2, 3}
  Calls <- MCCalls
  First <- MCFirst
  Configured = 2
  MaxFaults = 2
INVARIANTS
  JobsTellTheTruth
  DraftsSayWhatTheyAre
CHECK_DEADLOCK FALSE
