SPECIFICATION Spec
CONSTANTS
  Requests = {1, 2}
  Calls <- MCCalls
  First <- MCFirst
  Configured = 2
  MaxFaults = 1
INVARIANT FailedChangesNothing
CHECK_DEADLOCK FALSE
