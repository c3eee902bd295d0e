SPECIFICATION Spec
CONSTANTS
  Capacity = 2
  MaxItems = 5
  MaxAborts = 2
INVARIANTS OrderIsKept BoundedAhead
PROPERTIES CleanupIsLast BatchesEnd
CHECK_DEADLOCK FALSE
