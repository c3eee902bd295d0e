SPECIFICATION Spec
CONSTANTS
  P = P
  Q = Q
  C = C
  D = D
  t1 = t1
  t2 = t2
  t3 = t3
  t4 = t4
  s1 = s1
  s2 = s2
  NoGroup = NoGroup
  Groups = {P, Q, C}
  Tasks = {t1, t2, t3, t4}
  Streams = {}
  Parent <- SharedParent
  GroupsOf <- SharedGroupsOf
  Early = FALSE
  MaxBatches = 1
INVARIANTS AllWorkDelivered
CHECK_DEADLOCK FALSE
