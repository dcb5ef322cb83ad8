SPECIFICATION Spec
CONSTANTS
  Requests = {r1, r2, r3}
  Calls <- SomeCalls
  Wrapped <- SomeForms
  AuthStrategy = "keystone"
  Detection = 1
  MaxFaults = 1
CHECK_DEADLOCK FALSE
SYMMETRY Symmetry
INVARIANTS TypeOK AcceptedOnce TruthIsTold CheckedMeansIdle OrphansAreRaced
