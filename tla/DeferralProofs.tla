--------------------------- MODULE DeferralProofs ---------------------------
(***************************************************************************)
(* Whatever is collected in the objects of a response, the delivery groups *)
(* form a forest, the groups of an execution group are not nested in each  *)
(* other, and what it plans lies below them: the assumptions of WorkQueue. *)
(***************************************************************************)
EXTENDS Deferral, TLAPS, SequenceTheorems, NaturalsInduction, WellFoundedInduction

-----------------------------------------------------------------------------
(* Usages, and how they are nested.                                        *)

Usages == Seq(Defers)

LEMMA NoUsageIsEmpty == NoUsage \in Usages
BY EmptySeq DEF Usages, NoUsage

\* A set of natural numbers has a least element.
LEMMA LeastNumber ==
  ASSUME NEW S \in SUBSET Nat, S # {}
  PROVE  \E m \in S : \A n \in S : m <= n
<1>1. PICK m \in S : \A n \in S : ~ (<<n, m>> \in OpToRel(<, Nat))
  BY NatLessThanWellFounded, WFMin
<1>2. \A n \in S : ~ (n < m)
  BY <1>1 DEF OpToRel
<1> QED BY <1>2

\* A set of usages has a shortest one.
LEMMA Shortest ==
  ASSUME NEW X \in SUBSET Usages, X # {}
  PROVE  \E u \in X : \A w \in X : Len(u) <= Len(w)
<1> DEFINE L == {Len(u) : u \in X}
<1>1. L \in SUBSET Nat /\ L # {}
  <2>1. \A u \in X : Len(u) \in Nat
    BY DEF Usages
  <2> QED BY <2>1
<1>2. PICK n \in L : \A m \in L : n <= m
  <2> HIDE DEF L
  <2> QED BY <1>1, LeastNumber
<1> QED BY <1>2

LEMMA PrefixIsPointwise ==
  ASSUME NEW u \in Usages, NEW w \in Usages
  PROVE  IsStrictPrefix(w, u) <=> Len(w) < Len(u) /\ \A i \in 1..Len(w) : w[i] = u[i]
<1>1. Len(u) \in Nat /\ Len(w) \in Nat
  BY DEF Usages
<1>2. SubSeq(w, 1, Len(w)) = w
  BY DEF Usages
<1>3. ASSUME Len(w) <= Len(u)
      PROVE  SubSeq(w, 1, Len(w)) = SubSeq(u, 1, Len(w)) <=> \A i \in 1..Len(w) : w[i] = u[i]
  <2>1. /\ SubSeq(u, 1, Len(w)) \in Usages /\ Len(SubSeq(u, 1, Len(w))) = Len(w)
        /\ \A i \in 1..Len(w) : SubSeq(u, 1, Len(w))[i] = u[i]
    BY <1>1, <1>3 DEF Usages
  <2> QED BY <1>1, <1>2, <2>1, SeqEqual DEF Usages
<1>4. ASSUME Len(w) = Len(u), \A i \in 1..Len(w) : w[i] = u[i] PROVE w = u
  BY <1>4, SeqEqual DEF Usages
<1> QED BY <1>1, <1>3, <1>4 DEF IsStrictPrefix, IsPrefix

\* The parent of a usage is the longest one that it is nested in.
LEMMA FrontIsNext ==
  ASSUME NEW u \in Usages \ {NoUsage}
  PROVE  /\ Front(u) \in Usages /\ Len(Front(u)) = Len(u) - 1 /\ Len(u) \in Nat \ {0}
         /\ IsStrictPrefix(Front(u), u)
         /\ \A w \in Usages : IsStrictPrefix(w, u) => w = Front(u) \/ IsStrictPrefix(w, Front(u))
<1>1. Len(u) \in Nat \ {0}
  BY DEF Usages, NoUsage
<1>2. /\ Front(u) \in Usages /\ Len(Front(u)) = Len(u) - 1
      /\ \A i \in 1..(Len(u) - 1) : Front(u)[i] = u[i]
  <2>1. PICK n \in Nat : Len(u) = n + 1
    BY <1>1
  <2>2. u \in [1..(n + 1) -> Defers]
    BY <2>1, LenProperties DEF Usages
  <2>3. /\ SubSeq(u, 1, n) \in Usages /\ Len(SubSeq(u, 1, n)) = n
        /\ \A i \in 1..n : SubSeq(u, 1, n)[i] = u[i]
    BY <2>1, <2>2, SubSeqProperties DEF Usages
  <2> QED BY <2>1, <2>3 DEF Front
<1>3. IsStrictPrefix(Front(u), u)
  BY <1>1, <1>2, PrefixIsPointwise
<1>4. ASSUME NEW w \in Usages, IsStrictPrefix(w, u)
      PROVE  w = Front(u) \/ IsStrictPrefix(w, Front(u))
  <2>1. Len(w) < Len(u) /\ \A i \in 1..Len(w) : w[i] = u[i]
    BY <1>4, PrefixIsPointwise
  <2>2. Len(w) \in Nat
    BY DEF Usages
  <2>3. \A i \in 1..Len(w) : w[i] = Front(u)[i]
    BY <1>1, <1>2, <2>1, <2>2
  <2>4. CASE Len(w) = Len(u) - 1
    BY <1>2, <2>3, <2>4, SeqEqual DEF Usages
  <2>5. CASE Len(w) < Len(u) - 1
    BY <1>2, <2>3, <2>5, PrefixIsPointwise
  <2> QED BY <1>1, <2>1, <2>2, <2>4, <2>5
<1> QED BY <1>1, <1>2, <1>3, <1>4

LEMMA NestingIsStrict ==
  ASSUME NEW u \in Usages
  PROVE  /\ ~ IsStrictPrefix(u, u) /\ ~ IsStrictPrefix(u, NoUsage)
         /\ \A v, w \in Usages : IsStrictPrefix(w, v) /\ IsStrictPrefix(v, u) => IsStrictPrefix(w, u)
<1>1. ~ IsStrictPrefix(u, u)
  BY DEF IsStrictPrefix
<1>2. NoUsage \in Usages /\ Len(NoUsage) = 0
  BY DEF Usages, NoUsage
<1>3. ~ IsStrictPrefix(u, NoUsage)
  <2>1. Len(u) \in Nat
    BY DEF Usages
  <2> QED BY <1>2, <2>1, PrefixIsPointwise
<1>4. ASSUME NEW v \in Usages, NEW w \in Usages, IsStrictPrefix(w, v), IsStrictPrefix(v, u)
      PROVE  IsStrictPrefix(w, u)
  <2>1. Len(w) \in Nat /\ Len(v) \in Nat /\ Len(u) \in Nat
    BY DEF Usages
  <2>2. /\ Len(w) < Len(v) /\ \A i \in 1..Len(w) : w[i] = v[i]
        /\ Len(v) < Len(u) /\ \A i \in 1..Len(v) : v[i] = u[i]
    BY <1>4, PrefixIsPointwise
  <2> QED BY <2>1, <2>2, PrefixIsPointwise
<1> QED BY <1>1, <1>3, <1>4

\* Each usage is, or is nested in, an outermost one.
LEMMA OutermostExists ==
  ASSUME NEW met \in SUBSET Usages, NoUsage \notin met, NEW u \in met
  PROVE  \E w \in Outermost(met) : w = u \/ IsStrictPrefix(w, u)
<1> DEFINE X == {w \in met : w = u \/ IsStrictPrefix(w, u)}
<1>1. PICK w \in X : \A v \in X : Len(w) <= Len(v)
  <2>1. X \in SUBSET Usages /\ X # {}
    OBVIOUS
  <2> HIDE DEF X
  <2> QED BY <2>1, Shortest
<1>2. ASSUME NEW v \in met, IsStrictPrefix(v, w) PROVE FALSE
  <2>1. Len(v) < Len(w) /\ Len(v) \in Nat /\ Len(w) \in Nat
    BY <1>2, PrefixIsPointwise DEF Usages
  <2>2. v \in X
    BY <1>2, NestingIsStrict
  <2> QED BY <1>1, <2>1, <2>2
<1> QED BY <1>2 DEF Outermost

\* No usage is left without one that delivers it.
LEMMA OutermostIsEmpty ==
  ASSUME NEW met \in SUBSET Usages, met # {}
  PROVE  Outermost(met) = {} <=> NoUsage \in met
<1>1. CASE NoUsage \in met
  BY <1>1 DEF Outermost
<1>2. CASE NoUsage \notin met
  BY <1>2, OutermostExists
<1> QED BY <1>1, <1>2

-----------------------------------------------------------------------------
(* The invariant: what every field knows of the delivery groups.           *)

FieldOK(c) ==
  /\ DOMAIN c.map \subseteq Usages \ {NoUsage}
  /\ \A u \in DOMAIN c.map : Front(u) \in DOMAIN c.map \cup {NoUsage}
  /\ c.met # {} /\ c.met \subseteq DOMAIN c.map \cup {NoUsage}
  /\ c.usages = Outermost(c.met)

\* A delivery group is made in an object with fields, and looks the same for all fields.
MadeInObjects == \A c \in planned : \A u \in DOMAIN c.map : \E d \in planned : d.object = c.map[u]
MapsAgree ==
  \A c, d \in planned : \A u \in DOMAIN c.map \cap DOMAIN d.map :
     c.map[u] = d.map[u] /\ Front(u) # NoUsage => c.map[Front(u)] = d.map[Front(u)]

PlanInv == (\A c \in planned : FieldOK(c)) /\ MadeInObjects /\ MapsAgree

\* The map of an object extends the map around it, by usages that are nested in those met.
LEMMA MapOfObject ==
  ASSUME NEW map, NEW old, NEW met, NEW object, IsExtended(map, old, met, object)
  PROVE  /\ DOMAIN old \subseteq DOMAIN map
         /\ \A u \in DOMAIN map : map[u] = IF u \in DOMAIN old THEN old[u] ELSE object
         /\ \A u \in DOMAIN map \ DOMAIN old : /\ u \in Usages \ {NoUsage}
                                               /\ Front(u) \in met \cup (DOMAIN map \ DOMAIN old)
<1> DEFINE new == DOMAIN map \ DOMAIN old
           grown == [u \in DOMAIN old \cup new |-> IF u \in new THEN object ELSE old[u]]
<1>1. map = grown
  BY DEF IsExtended
<1>2. DOMAIN grown = DOMAIN old \cup new
  OBVIOUS
<1>3. \A u \in DOMAIN grown : grown[u] = IF u \in new THEN object ELSE old[u]
  OBVIOUS
<1>4. DOMAIN old \subseteq DOMAIN map
  BY <1>1, <1>2
<1>5. \A u \in DOMAIN map : map[u] = IF u \in DOMAIN old THEN old[u] ELSE object
  BY <1>1, <1>3
<1>6. \A u \in new : u \in Usages \ {NoUsage} /\ Front(u) \in met \cup new
  BY DEF IsExtended, Usages
<1> QED BY <1>4, <1>5, <1>6

\* What an object is planned with: the map and the usages of a planned field, or nothing.
Around(old, met) ==
  \/ old = NoMap /\ met = {NoUsage}
  \/ \E f \in planned : old = f.map /\ met = f.met

LEMMA PlanKeepsInv ==
  ASSUME PlanInv, NEW object, NEW old, NEW met, Around(old, met), Plan(object, old, met)
  PROVE  PlanInv'
<1>1. /\ DOMAIN old \subseteq Usages \ {NoUsage}
      /\ \A u \in DOMAIN old : Front(u) \in DOMAIN old \cup {NoUsage}
      /\ met # {} /\ met \subseteq DOMAIN old \cup {NoUsage}
      /\ \A u \in DOMAIN old : \E d \in planned : d.object = old[u]
  BY DEF Around, NoMap, PlanInv, FieldOK, MadeInObjects
<1>2. /\ planned \subseteq planned' /\ planned' = planned \cup New
      /\ \A c \in planned : c.object # object
      /\ \A c \in New : /\ c.object = object
                        /\ c.met # {} /\ c.met \subseteq met \cup (DOMAIN c.map \ DOMAIN old)
                        /\ c.usages = Outermost(c.met)
      /\ \A c, d \in New : c.map = d.map
  BY DEF Plan, New
<1>3. \A c \in New : /\ DOMAIN old \subseteq DOMAIN c.map
                     /\ \A u \in DOMAIN c.map : c.map[u] = IF u \in DOMAIN old THEN old[u] ELSE object
                     /\ \A u \in DOMAIN c.map \ DOMAIN old :
                           /\ u \in Usages \ {NoUsage}
                           /\ Front(u) \in met \cup (DOMAIN c.map \ DOMAIN old)
  BY MapOfObject DEF Plan
<1>4. ASSUME NEW c \in New PROVE FieldOK(c)
  <2>1. DOMAIN c.map \subseteq Usages \ {NoUsage}
    BY <1>1, <1>3
  <2>2. ASSUME NEW u \in DOMAIN c.map PROVE Front(u) \in DOMAIN c.map \cup {NoUsage}
    BY <1>1, <1>3
  <2>3. c.met \subseteq DOMAIN c.map \cup {NoUsage}
    BY <1>1, <1>2, <1>3
  <2> QED BY <1>2, <2>1, <2>2, <2>3 DEF FieldOK
<1>5. (\A c \in planned : FieldOK(c))'
  BY <1>2, <1>4 DEF PlanInv, FieldOK
<1>6. MadeInObjects'
  <2> SUFFICES ASSUME NEW c \in planned', NEW u \in DOMAIN c.map
               PROVE  \E d \in planned' : d.object = c.map[u]
    BY DEF MadeInObjects
  <2>1. CASE c \in planned
    BY <1>2, <2>1 DEF PlanInv, MadeInObjects
  <2>2. CASE c \in New
    BY <1>1, <1>2, <1>3, <2>2
  <2> QED BY <1>2, <2>1, <2>2
<1>7. ASSUME NEW c \in New, NEW d \in planned, NEW u \in DOMAIN c.map \cap DOMAIN d.map,
             c.map[u] = d.map[u], Front(u) # NoUsage
      PROVE  c.map[Front(u)] = d.map[Front(u)]
  <2>1. u \in DOMAIN old /\ old[u] = d.map[u]
    <3>1. d.map[u] # object
      BY <1>2 DEF PlanInv, MadeInObjects
    <3> QED BY <1>3, <1>7, <3>1
  <2>2. Front(u) \in DOMAIN old /\ c.map[Front(u)] = old[Front(u)]
    BY <1>1, <1>3, <1>7, <2>1
  <2>3. PICK f \in planned : old = f.map
    BY <2>1 DEF Around, NoMap
  <2> QED BY <1>7, <2>1, <2>2, <2>3 DEF PlanInv, MapsAgree
<1>8. MapsAgree'
  <2> SUFFICES ASSUME NEW c \in planned', NEW d \in planned', NEW u \in DOMAIN c.map \cap DOMAIN d.map,
                      c.map[u] = d.map[u], Front(u) # NoUsage
               PROVE  c.map[Front(u)] = d.map[Front(u)]
    BY DEF MapsAgree
  <2>1. CASE c \in planned /\ d \in planned
    BY <2>1 DEF PlanInv, MapsAgree
  <2>2. CASE c \in New /\ d \in New
    BY <1>2, <2>2
  <2>3. CASE c \in New /\ d \in planned
    BY <1>7, <2>3
  <2>4. CASE c \in planned /\ d \in New
    BY <1>7, <2>4
  <2> QED BY <1>2, <2>1, <2>2, <2>3, <2>4
<1> QED BY <1>5, <1>6, <1>8 DEF PlanInv

\* In every reachable state the fields have what they need, and agree on the delivery groups.
THEOREM PlanInvariance == Spec => []PlanInv
<1>1. planned = {} => PlanInv
  BY DEF PlanInv, MadeInObjects, MapsAgree
<1>2. PlanInv /\ [Next]_planned => PlanInv'
  <2> SUFFICES ASSUME PlanInv, [Next]_planned PROVE PlanInv'
    OBVIOUS
  <2>1. CASE PlanRoot
    BY <2>1, PlanKeepsInv DEF PlanRoot, Around
  <2>2. ASSUME NEW f \in planned, NEW object, PlanObject(f, object) PROVE PlanInv'
    BY <2>2, PlanKeepsInv DEF PlanObject, Around
  <2>3. ASSUME NEW f \in planned, NEW object, PlanItem(f, object) PROVE PlanInv'
    BY <2>3, PlanKeepsInv DEF PlanItem, Around
  <2>4. CASE Restart
    BY <2>4 DEF Restart, PlanInv, MadeInObjects, MapsAgree
  <2>5. CASE UNCHANGED planned
    BY <2>5 DEF PlanInv, MadeInObjects, MapsAgree, FieldOK
  <2> QED BY <2>1, <2>2, <2>3, <2>4, <2>5 DEF Next
<1> QED BY <1>1, <1>2, PTL DEF Spec

-----------------------------------------------------------------------------
(* The forest of the delivery groups.                                      *)

\* What is above a group is nested around it.
LEMMA AncestorsAreAround ==
  ASSUME PlanInv, NEW g \in DeliveryGroups, NEW a \in Ancestors(g)
  PROVE  IsStrictPrefix(a.usage, g.usage)
<1> DEFINE S == {h \in DeliveryGroups : IsStrictPrefix(h.usage, g.usage)}
<1>1. \A h \in DeliveryGroups : h.usage \in Usages \ {NoUsage}
  BY DEF DeliveryGroups, DeliveryGroup, PlanInv, FieldOK
<1>2. ASSUME NEW h \in S \cup {g}, NEW p \in DeliveryGroups, IsParent(p, h) PROVE p \in S
  <2>1. p.usage = Front(h.usage)
    BY <1>2 DEF IsParent, DeliveryGroup
  <2>2. h.usage \in Usages \ {NoUsage} /\ p.usage \in Usages /\ g.usage \in Usages
    BY <1>1, <1>2
  <2>3. IsStrictPrefix(p.usage, h.usage)
    BY <2>1, <2>2, FrontIsNext
  <2>4. h = g \/ IsStrictPrefix(h.usage, g.usage)
    OBVIOUS
  <2>5. IsStrictPrefix(p.usage, g.usage)
    BY <2>2, <2>3, <2>4, NestingIsStrict
  <2> QED BY <2>5
<1>3. S \in SUBSET DeliveryGroups
  OBVIOUS
<1>4. a \in S
  <2> HIDE DEF S
  <2> QED BY <1>2, <1>3 DEF Ancestors
<1> QED BY <1>4

\* A usage that is nested around another one has a group above that of the other one.
NestedIsAbove ==
  \A c \in planned : \A u, w \in DOMAIN c.map :
     IsStrictPrefix(w, u) => DeliveryGroup(w, c.map) \in Ancestors(DeliveryGroup(u, c.map))

LEMMA NestedGroups == PlanInv => NestedIsAbove
<1> SUFFICES ASSUME PlanInv, NEW c \in planned, NEW u \in DOMAIN c.map, NEW w \in DOMAIN c.map,
                    IsStrictPrefix(w, u)
             PROVE  DeliveryGroup(w, c.map) \in Ancestors(DeliveryGroup(u, c.map))
  BY DEF NestedIsAbove
<1>1. /\ DOMAIN c.map \subseteq Usages \ {NoUsage}
      /\ \A v \in DOMAIN c.map : Front(v) \in DOMAIN c.map \cup {NoUsage}
  BY DEF PlanInv, FieldOK
<1>2. \A v \in DOMAIN c.map : DeliveryGroup(v, c.map) \in DeliveryGroups
  BY DEF DeliveryGroups
<1> SUFFICES ASSUME NEW S \in SUBSET DeliveryGroups,
                    \A h \in S \cup {DeliveryGroup(u, c.map)} :
                       \A p \in DeliveryGroups : IsParent(p, h) => p \in S
             PROVE  DeliveryGroup(w, c.map) \in S
  BY <1>2 DEF Ancestors
<1> DEFINE X == {v \in DOMAIN c.map : /\ v = u \/ DeliveryGroup(v, c.map) \in S
                                      /\ w = v \/ IsStrictPrefix(w, v)}
<1>3. PICK v \in X : \A x \in X : Len(v) <= Len(x)
  <2>1. X \in SUBSET Usages /\ X # {}
    BY <1>1
  <2> HIDE DEF X
  <2> QED BY <2>1, Shortest
<1>4. CASE w = v
  BY <1>1, <1>4, NestingIsStrict
<1>5. CASE w # v
  <2>1. v \in Usages \ {NoUsage} /\ w \in Usages \ {NoUsage} /\ IsStrictPrefix(w, v)
    BY <1>1, <1>5
  <2>2. /\ w = Front(v) \/ IsStrictPrefix(w, Front(v))
        /\ Len(Front(v)) = Len(v) - 1 /\ Len(v) \in Nat
    BY <2>1, FrontIsNext
  <2>3. Front(v) # NoUsage
    BY <2>1, <2>2, NestingIsStrict
  <2>4. Front(v) \in DOMAIN c.map
    BY <1>1, <2>3
  <2>5. IsParent(DeliveryGroup(Front(v), c.map), DeliveryGroup(v, c.map))
    BY <2>3 DEF IsParent, DeliveryGroup
  <2>6. DeliveryGroup(Front(v), c.map) \in S
    BY <1>2, <2>4, <2>5
  <2>7. Front(v) \in X
    BY <2>2, <2>4, <2>6
  <2> QED BY <1>3, <2>2, <2>7
<1> QED BY <1>4, <1>5

\* Every @defer that is met has a delivery group when it is looked up: no KeyError in
\* get_new_delivery_group_map() and get_delivery_groups().
THEOREM UsagesHaveGroupsHolds == Spec => []UsagesHaveGroups
<1>1. PlanInv => UsagesHaveGroups
  BY DEF PlanInv, FieldOK, UsagesHaveGroups, Outermost
<1> QED BY <1>1, PlanInvariance, PTL

\* The delivery groups of all objects, with the parents they are made with, form a forest
\* (get_new_delivery_group_map()): this is ForestAssumption of WorkQueue.
THEOREM GroupsFormForestHolds == Spec => []GroupsFormForest
<1>1. ASSUME PlanInv PROVE GroupsFormForest
  <2> SUFFICES ASSUME NEW g \in DeliveryGroups
               PROVE  /\ \A p, q : IsParent(p, g) /\ IsParent(q, g) => p = q
                      /\ Front(g.usage) # NoUsage => \E p \in DeliveryGroups : IsParent(p, g)
                      /\ g \notin Ancestors(g)
    BY DEF GroupsFormForest
  <2>1. PICK c \in planned : /\ g.usage \in DOMAIN c.map /\ g.object = c.map[g.usage]
                             /\ g.usage \in Usages
    BY <1>1 DEF DeliveryGroups, DeliveryGroup, PlanInv, FieldOK
  <2>2. ASSUME NEW p, NEW q, IsParent(p, g), IsParent(q, g) PROVE p = q
    <3>1. PICK d \in planned : /\ g.usage \in DOMAIN d.map /\ g.object = d.map[g.usage]
                               /\ Front(g.usage) # NoUsage
                               /\ p = DeliveryGroup(Front(g.usage), d.map)
      BY <2>2 DEF IsParent
    <3>2. PICK e \in planned : /\ g.usage \in DOMAIN e.map /\ g.object = e.map[g.usage]
                               /\ q = DeliveryGroup(Front(g.usage), e.map)
      BY <2>2 DEF IsParent
    <3>3. d.map[Front(g.usage)] = e.map[Front(g.usage)]
      BY <1>1, <3>1, <3>2 DEF PlanInv, MapsAgree
    <3> QED BY <3>1, <3>2, <3>3 DEF DeliveryGroup
  <2>3. ASSUME Front(g.usage) # NoUsage PROVE \E p \in DeliveryGroups : IsParent(p, g)
    <3>1. Front(g.usage) \in DOMAIN c.map
      BY <1>1, <2>1, <2>3 DEF PlanInv, FieldOK
    <3>2. DeliveryGroup(Front(g.usage), c.map) \in DeliveryGroups
      BY <3>1 DEF DeliveryGroups
    <3> QED BY <2>1, <2>3, <3>2 DEF IsParent
  <2>4. g \notin Ancestors(g)
    BY <1>1, <2>1, AncestorsAreAround, NestingIsStrict
  <2> QED BY <2>2, <2>3, <2>4
<1> QED BY <1>1, PlanInvariance, PTL

\* The groups of an execution group are never nested in each other
\* (get_filtered_defer_usage_set()): this is AntichainAssumption of WorkQueue.
THEOREM TasksAreAntichainsHolds == Spec => []TasksAreAntichains
<1>1. ASSUME PlanInv PROVE TasksAreAntichains
  <2> SUFFICES ASSUME NEW c \in planned, NEW g \in GroupsOf(c), NEW h \in GroupsOf(c),
                      g \in Ancestors(h)
               PROVE  FALSE
    BY DEF TasksAreAntichains
  <2>1. /\ c.usages = Outermost(c.met)
        /\ c.met \subseteq DOMAIN c.map \cup {NoUsage}
    BY <1>1 DEF PlanInv, FieldOK
  <2>2. PICK v \in c.usages : g = DeliveryGroup(v, c.map)
    BY DEF GroupsOf
  <2>3. PICK u \in c.usages : h = DeliveryGroup(u, c.map)
    BY DEF GroupsOf
  <2>4. u \in DOMAIN c.map /\ ~ IsStrictPrefix(v, u)
    BY <2>1 DEF Outermost
  <2>5. h \in DeliveryGroups
    BY <2>3, <2>4 DEF DeliveryGroups
  <2>6. g.usage = v /\ h.usage = u
    BY <2>2, <2>3 DEF DeliveryGroup
  <2> QED BY <1>1, <2>4, <2>5, <2>6, AncestorsAreAround
<1> QED BY <1>1, PlanInvariance, PTL

\* A field is planned for the initial result exactly if it is selected outside of all @defer, and
\* otherwise for a group that is, or is above, each of those that select it: a client that has been
\* told of the success of a group lacks none of its fields (build_execution_plan()).
THEOREM NothingComesLateHolds == Spec => []NothingComesLate
<1>1. ASSUME PlanInv PROVE NothingComesLate
  <2> SUFFICES ASSUME NEW c \in planned
               PROVE  /\ (c.usages = {}) = (NoUsage \in c.met)
                      /\ NoUsage \notin c.met =>
                            \A u \in c.met :
                               \/ DeliveryGroup(u, c.map) \in GroupsOf(c)
                               \/ GroupsOf(c) \cap Ancestors(DeliveryGroup(u, c.map)) # {}
    BY DEF NothingComesLate
  <2>1. /\ c.usages = Outermost(c.met) /\ c.met # {}
        /\ c.met \subseteq DOMAIN c.map \cup {NoUsage}
        /\ DOMAIN c.map \subseteq Usages
    BY <1>1 DEF PlanInv, FieldOK
  <2>2. c.met \in SUBSET Usages
    BY <2>1, NoUsageIsEmpty
  <2>3. (c.usages = {}) = (NoUsage \in c.met)
    BY <2>1, <2>2, OutermostIsEmpty
  <2>4. ASSUME NoUsage \notin c.met, NEW u \in c.met
        PROVE  \/ DeliveryGroup(u, c.map) \in GroupsOf(c)
               \/ GroupsOf(c) \cap Ancestors(DeliveryGroup(u, c.map)) # {}
    <3>1. PICK w \in c.usages : w = u \/ IsStrictPrefix(w, u)
      BY <2>1, <2>2, <2>4, OutermostExists
    <3>2. DeliveryGroup(w, c.map) \in GroupsOf(c)
      BY DEF GroupsOf
    <3>3. u \in DOMAIN c.map /\ w \in DOMAIN c.map
      BY <2>1, <2>4 DEF Outermost
    <3>4. IsStrictPrefix(w, u) => DeliveryGroup(w, c.map) \in Ancestors(DeliveryGroup(u, c.map))
      BY <1>1, <3>3, NestedGroups DEF NestedIsAbove
    <3> QED BY <3>1, <3>2, <3>4
  <2> QED BY <2>3, <2>4
<1> QED BY <1>1, PlanInvariance, PTL

-----------------------------------------------------------------------------
(* What an execution group plans.                                          *)

\* New usages are nested in those that were met.
LEMMA NewIsNested ==
  ASSUME NEW met \in SUBSET Usages, NEW new \in SUBSET (Usages \ {NoUsage}),
         \A u \in new : Front(u) \in met \cup new, NEW u \in met \cup new
  PROVE  \E w \in met : w = u \/ IsStrictPrefix(w, u)
<1> DEFINE X == {v \in met \cup new : v = u \/ IsStrictPrefix(v, u)}
<1>1. PICK v \in X : \A x \in X : Len(v) <= Len(x)
  <2>1. X \in SUBSET Usages /\ X # {}
    OBVIOUS
  <2> HIDE DEF X
  <2> QED BY <2>1, Shortest
<1>2. ASSUME v \in new PROVE FALSE
  <2>1. v \in Usages \ {NoUsage} /\ Front(v) \in met \cup new
    BY <1>2
  <2>2. /\ Front(v) \in Usages /\ IsStrictPrefix(Front(v), v)
        /\ Len(Front(v)) = Len(v) - 1 /\ Len(v) \in Nat
    BY <2>1, FrontIsNext
  <2>3. u \in Usages /\ (v = u \/ IsStrictPrefix(v, u))
    BY <1>1
  <2>4. IsStrictPrefix(Front(v), u)
    BY <2>1, <2>2, <2>3, NestingIsStrict
  <2>5. Front(v) \in X
    BY <2>1, <2>4
  <2> QED BY <1>1, <2>2, <2>5
<1> QED BY <1>2

\* A field that is met within the usages of an executor, or a group that is made there, is in its
\* scope.
LEMMA ScopeIsKept ==
  ASSUME PlanInv, PlanInv', planned \subseteq planned', NEW f \in planned, NEW c \in planned',
         f.usages # {}, NEW object, IsExtended(c.map, f.map, f.met, object),
         NEW u \in f.met \cup (DOMAIN c.map \ DOMAIN f.map)
  PROVE  DeliveryGroup(u, c.map) \in Scope(f)'
<1> DEFINE new == DOMAIN c.map \ DOMAIN f.map
<1>1. /\ f.usages = Outermost(f.met) /\ f.met # {} /\ f.met \subseteq DOMAIN f.map \cup {NoUsage}
      /\ DOMAIN f.map \subseteq Usages \ {NoUsage}
  BY DEF PlanInv, FieldOK
<1>2. NoUsage \notin f.met /\ f.met \in SUBSET Usages
  BY <1>1 DEF Outermost
<1>3. /\ DOMAIN f.map \subseteq DOMAIN c.map
      /\ \A v \in DOMAIN f.map : c.map[v] = f.map[v]
      /\ new \in SUBSET (Usages \ {NoUsage})
      /\ \A v \in new : Front(v) \in f.met \cup new
  <2> HIDE DEF new
  <2>1. /\ DOMAIN f.map \subseteq DOMAIN c.map
        /\ \A v \in DOMAIN c.map : c.map[v] = IF v \in DOMAIN f.map THEN f.map[v] ELSE object
        /\ \A v \in DOMAIN c.map \ DOMAIN f.map :
              /\ v \in Usages \ {NoUsage}
              /\ Front(v) \in f.met \cup (DOMAIN c.map \ DOMAIN f.map)
    BY MapOfObject
  <2> QED BY <2>1 DEF new
<1>4. PICK x \in f.met : x = u \/ IsStrictPrefix(x, u)
  <2> HIDE DEF new
  <2>1. u \in f.met \cup new
    BY DEF new
  <2> QED BY <1>2, <1>3, <2>1, NewIsNested
<1>5. PICK w \in f.usages : w = x \/ IsStrictPrefix(w, x)
  BY <1>1, <1>2, OutermostExists
<1>6. w \in DOMAIN f.map /\ w \in DOMAIN c.map /\ u \in DOMAIN c.map
  BY <1>1, <1>2, <1>3 DEF Outermost
<1>7. w = u \/ IsStrictPrefix(w, u)
  <2>1. w \in Usages /\ x \in Usages /\ u \in Usages
    BY <1>1, <1>2, <1>3, <1>6
  <2> QED BY <1>4, <1>5, <2>1, NestingIsStrict
<1>8. DeliveryGroup(w, c.map) \in GroupsOf(f)
  <2>1. DeliveryGroup(w, c.map) = DeliveryGroup(w, f.map)
    BY <1>3, <1>6 DEF DeliveryGroup
  <2> QED BY <2>1 DEF GroupsOf
<1>9. (DeliveryGroup(u, c.map) \in DeliveryGroups)'
  BY <1>6 DEF DeliveryGroups, DeliveryGroup
<1>10. NestedIsAbove'
  BY NestedGroups, PTL
<1>11. IsStrictPrefix(w, u) => (DeliveryGroup(w, c.map) \in Ancestors(DeliveryGroup(u, c.map)))'
  BY <1>6, <1>10 DEF NestedIsAbove, DeliveryGroup
<1> QED BY <1>7, <1>8, <1>9, <1>11 DEF Scope, GroupsOf, DeliveryGroup

\* An execution group only hands over work whose groups are its own or nested in them, and
\* plans nothing for the initial result (collect_execution_groups()): this is TaskWork of WorkQueue.
THEOREM WorkStaysNestedHolds == Spec => WorkStaysNested
<1>1. ASSUME PlanInv, PlanInv', NEW f \in planned, NEW c \in New, PlanObject(f, c.object)
      PROVE  WorkIsNested(f)
  <2>1. /\ planned \subseteq planned'
        /\ \A d \in New : /\ d \in planned'
                          /\ IsExtended(d.map, f.map, f.met, c.object)
                          /\ d.met # {} /\ d.met \subseteq f.met \cup (DOMAIN d.map \ DOMAIN f.map)
                          /\ d.usages = Outermost(d.met)
    BY <1>1 DEF PlanObject, Plan, New
  <2>2. /\ f.usages = Outermost(f.met) /\ f.met \subseteq Usages
        /\ \A d \in New : d.met \in SUBSET Usages
    <3>1. FieldOK(f) /\ \A d \in New : FieldOK(d)
      BY <1>1, <2>1 DEF PlanInv, FieldOK
    <3> QED BY <3>1, NoUsageIsEmpty DEF FieldOK
  <2>3. ASSUME NEW d \in New, d.usages = {} PROVE f.usages = {}
    <3>1. NoUsage \in d.met
      BY <2>1, <2>2, <2>3, OutermostIsEmpty
    <3>2. \A u \in DOMAIN d.map : u # NoUsage
      BY <1>1, <2>1 DEF PlanInv, FieldOK
    <3>3. NoUsage \in f.met
      BY <2>1, <3>1, <3>2
    <3> QED BY <2>2, <3>3 DEF Outermost
  <2>4. ASSUME NEW d \in New, f.usages # {}
        PROVE  /\ GroupsOf(d) \subseteq Scope(f)'
               /\ \A u \in DOMAIN d.map \ DOMAIN f.map : DeliveryGroup(u, d.map) \in Scope(f)'
    <3>1. \A u \in f.met \cup (DOMAIN d.map \ DOMAIN f.map) : DeliveryGroup(u, d.map) \in Scope(f)'
      BY <1>1, <2>1, <2>4, ScopeIsKept
    <3>2. d.usages \subseteq f.met \cup (DOMAIN d.map \ DOMAIN f.map)
      BY <2>1 DEF Outermost
    <3> QED BY <3>1, <3>2 DEF GroupsOf
  <2> QED BY <2>3, <2>4 DEF WorkIsNested
<1>2. PlanInv /\ PlanInv' /\ [Next]_planned
        => [\A f \in planned, c \in New : PlanObject(f, c.object) => WorkIsNested(f)]_planned
  BY <1>1
<1> QED BY <1>2, PlanInvariance, PTL DEF Spec, WorkStaysNested
=============================================================================
