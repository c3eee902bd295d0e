SPECIFICATION Spec
CONSTANTS
  P = P
  Q = Q
  C = C
  D = D
  t1 = t1
  t2 = t2
  t3 = t3
  t4 = t4
  s1 = s1
  s2 = s2
  NoGroup = NoGroup
  Groups = {P, C, D}
  Tasks = {t1, t2, t3, t4}
  Streams = {s1}
  Parent <- ForkParent
  GroupsOf <- ForkGroupsOf
  Early = TRUE
  MaxBatches = 1
INVARIANTS TypeOK PendingIsExact RootsAreOutermost RootsAreServed NothingLeftBehind CancelReachesLiveWork
CHECK_DEADLOCK FALSE
