SPECIFICATION Spec
CONSTANTS
  Requests = {r1, r2}
  Calls <- SomeCalls
  Wrapped <- SomeForms
  AuthStrategy = "keystone"
  Detection = 1
  MaxFaults = 0
CHECK_DEADLOCK FALSE
INVARIANT DuplicatesAreOpen
