SPECIFICATION PublisherSpec
CONSTANTS
  P = P
  Q = Q
  C = C
  t1 = t1
  t2 = t2
  t3 = t3
  t4 = t4
  s1 = s1
  NoGroup = NoGroup
  Groups = {P}
  Tasks = {t1, t2, t3}
  Streams = {}
  Parent <- SingleParent
  GroupsOf <- SingleGroupsOf
  PathLength <- SingleLength
  Early = TRUE
  HasSignal = TRUE
  MaxBatches = 1
PROPERTIES IterationEnds
INVARIANTS NoTrackedWorkLeft
CHECK_DEADLOCK FALSE
