SPECIFICATION PublisherSpec
CONSTANTS
  P = P
  Q = Q
  C = C
  t1 = t1
  t2 = t2
  t3 = t3
  t4 = t4
  s1 = s1
  NoGroup = NoGroup
  Groups = {P, Q, C}
  Tasks = {t2, t3, t4}
  Streams = {s1}
  Parent <- SharedParent
  GroupsOf <- OverlapGroupsOf
  PathLength <- SharedLength
  Early = FALSE
  HasSignal = FALSE
  MaxBatches = 1
INVARIANTS IdsMatchClient GraphIsConsistent SuccessIsComplete ClientIsComplete
PROPERTIES ImplementsDelivery ValuesOnce ReportsOnce
CHECK_DEADLOCK FALSE
