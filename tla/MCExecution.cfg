SPECIFICATION Spec
CONSTANTS
  N = 6
  Parent <- MCParent
  NonNull = {2, 4, 5, 6}
  Lists = {3}
  Sources = {3}
  Deferred = {1}
  Aborters = {2}
INVARIANTS TypeOK ResponseIsSound WorkHasParent SerialOrder
PROPERTIES ErrorsAreFinal NoCallAfterAbort HookFollows
CHECK_DEADLOCK FALSE
