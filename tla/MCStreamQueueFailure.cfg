SPECIFICATION Spec
CONSTANTS
  Capacity = 2
  MaxItems = 4
  MaxAborts = 2
INVARIANTS FailureIsRaised
CHECK_DEADLOCK FALSE
