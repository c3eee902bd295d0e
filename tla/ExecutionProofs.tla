-------------------------- MODULE ExecutionProofs --------------------------
(***************************************************************************)
(* The safety of an execution, for any response tree, any resolvers and    *)
(* both modes of execution: the response is well-formed, its errors are    *)
(* final when it is built, what is announced is in the data, the fields of *)
(* a mutation run one after the other, and after an abort no coroutine     *)
(* goes on to execute fields.                                              *)
(*                                                                         *)
(* What comes of a resolver at once is defined by recursion on the tree:   *)
(* the invariant keeps the rule it follows, and a least counterexample     *)
(* shows that a function that follows it exists.  On the way from the root *)
(* to a position that is missing in the data, the first position without a *)
(* value is in the data, hence null or failed, and then its error has been *)
(* reported: a step below it adds neither data nor errors.                 *)
(***************************************************************************)
EXTENDS Execution, TLAPS, WellFoundedInduction

-----------------------------------------------------------------------------
(* The tree of positions.                                                   *)

LEMMA PositionsAreNat == Positions \in SUBSET Nat /\ 0 \in Positions /\ 1..N = Positions \ {0}
BY TreeAssumption DEF Positions

LEMMA ParentIsBefore == \A p \in 1..N : Parent[p] \in Positions /\ Parent[p] < p
BY TreeAssumption

LEMMA SubFacts ==
  ASSUME NEW p \in Positions, NEW c \in Sub(p)
  PROVE  c \in 1..N /\ c \in Positions /\ Parent[c] = p /\ p < c
BY PositionsAreNat, ParentIsBefore DEF Sub

\* A set of natural numbers has a least element.
LEMMA Least ==
  ASSUME NEW S \in SUBSET Nat, S # {}
  PROVE  \E m \in S : \A n \in S : m <= n
<1>1. PICK m \in S : \A n \in S : ~ (<<n, m>> \in OpToRel(<, Nat))
  BY NatLessThanWellFounded, WFMin
<1>2. \A n \in S : ~ (n < m)
  BY <1>1 DEF OpToRel
<1> QED BY <1>2

\* Above[p] is the least set that holds the parents of p and of its elements.
LEMMA AboveIsLeast ==
  ASSUME NEW p \in Positions, NEW S \in SUBSET Positions,
         p # 0 => Parent[p] \in S, \A q \in S \ {0} : Parent[q] \in S
  PROVE  Above[p] \subseteq S
BY DEF Above

LEMMA AboveIsClosed ==
  ASSUME NEW p \in Positions
  PROVE  /\ Above[p] \subseteq Positions
         /\ p # 0 => Parent[p] \in Above[p]
         /\ \A q \in Above[p] \ {0} : Parent[q] \in Above[p]
<1>1. \A q \in Positions \ {0} : Parent[q] \in Positions
  BY PositionsAreNat, ParentIsBefore
<1> QED BY <1>1 DEF Above

LEMMA AboveIsTransitive ==
  ASSUME NEW p \in Positions, NEW a \in Above[p]
  PROVE  Above[a] \subseteq Above[p]
<1>1. a \in Positions /\ Above[p] \in SUBSET Positions
  BY AboveIsClosed
<1>2. (a # 0 => Parent[a] \in Above[p]) /\ \A q \in Above[p] \ {0} : Parent[q] \in Above[p]
  BY AboveIsClosed
<1> QED BY <1>1, <1>2, AboveIsLeast

\* A position comes after those above it.
LEMMA AboveIsBefore ==
  ASSUME NEW p \in Positions, NEW a \in Above[p]
  PROVE  a < p
<1> DEFINE S == {s \in Positions : s < p}
<1>1. S \in SUBSET Positions
  OBVIOUS
<1>2. (p # 0 => Parent[p] \in S) /\ \A q \in S \ {0} : Parent[q] \in S
  BY PositionsAreNat, ParentIsBefore
<1>3. a \in S
  BY <1>1, <1>2, AboveIsLeast
<1> QED BY <1>3

\* Above a position is its parent, and what is above that.
LEMMA AboveParent ==
  ASSUME NEW p \in Positions, p # 0
  PROVE  Above[p] = {Parent[p]} \cup Above[Parent[p]]
<1> DEFINE S == {Parent[p]} \cup Above[Parent[p]]
<1>1. Parent[p] \in Positions
  BY PositionsAreNat, ParentIsBefore
<1>2. S \in SUBSET Positions /\ Parent[p] \in S
  BY <1>1, AboveIsClosed
<1>3. \A q \in S \ {0} : Parent[q] \in S
  BY <1>1, AboveIsClosed
<1>4. Above[p] \subseteq S
  BY <1>2, <1>3, AboveIsLeast
<1>5. S \subseteq Above[p]
  BY AboveIsClosed, AboveIsTransitive
<1> QED BY <1>4, <1>5

\* The root is above every other position.
LEMMA RootIsAbove ==
  ASSUME NEW p \in Positions, p # 0
  PROVE  0 \in Above[p]
<1>1. Above[p] \in SUBSET Nat /\ Above[p] # {}
  BY AboveIsClosed, PositionsAreNat
<1>2. PICK m \in Above[p] : \A n \in Above[p] : m <= n
  BY <1>1, Least
<1>3. ASSUME m # 0 PROVE FALSE
  <2>1. m \in Positions /\ Parent[m] \in Above[p] /\ Parent[m] \in Positions
    BY <1>3, AboveIsClosed
  <2>2. Parent[m] < m
    BY <1>3, <2>1, PositionsAreNat, ParentIsBefore
  <2> QED BY <1>2, <2>1, <2>2, PositionsAreNat
<1> QED BY <1>3

-----------------------------------------------------------------------------
(* What comes of a resolver at once.                                       *)

\* The rule that AtOnce follows, in terms of what comes of the sub-positions.
Outcome(f, p) == IF resolver[p] = "async" THEN "waiting"
                 ELSE Completed(p, Answer(p), [c \in Sub(p) |-> f[c]])

\* AtOnce is defined: it is built from the last position to the first.
LEMMA AtOnceExists == \E f : f = [p \in 1..N |-> Outcome(f, p)]
<1> N \in Nat
  BY TreeAssumption
<1> DEFINE Fn(n) == \E f : f = [p \in (N - n + 1)..N |-> Outcome(f, p)]
           Bad == {n \in 0..N : ~Fn(n)}
<1>1. Fn(0)
  <2>1. [p \in (N - 0 + 1)..N |-> 0] = [p \in (N - 0 + 1)..N |-> Outcome([p_1 \in (N - 0 + 1)..N |-> 0], p)]
    OBVIOUS
  <2> QED BY <2>1
<1>2. ASSUME NEW n \in 0..(N-1), Fn(n) PROVE Fn(n + 1)
  <2>1. PICK f : f = [p \in (N - n + 1)..N |-> Outcome(f, p)]
    BY <1>2
  <2> DEFINE D == (N - (n + 1) + 1)..N
             g == [p \in D |-> IF p = N - n THEN Outcome(f, N - n) ELSE f[p]]
  <2>2. ASSUME NEW p \in D PROVE Outcome(g, p) = Outcome(f, p)
    <3>1. \A c \in Sub(p) : c \in (N - n + 1)..N
      BY SubFacts, PositionsAreNat DEF Sub, Positions
    <3>2. \A c \in Sub(p) : g[c] = f[c]
      BY <3>1
    <3>3. [c \in Sub(p) |-> g[c]] = [c \in Sub(p) |-> f[c]]
      BY <3>2
    <3> HIDE DEF g
    <3> QED BY <3>3 DEF Outcome
  <2>3. \A p \in D : g[p] = Outcome(f, p)
    <3>1. \A p \in D : p # N - n => p \in (N - n + 1)..N
      OBVIOUS
    <3> QED BY <2>1, <3>1
  <2>4. g = [p \in D |-> Outcome(g, p)]
    <3>1. \A p \in D : g[p] = Outcome(g, p)
      BY <2>2, <2>3
    <3> QED BY <3>1
  <2> HIDE DEF g
  <2> QED BY <2>4
<1>3. Bad = {}
  <2> SUFFICES ASSUME Bad # {} PROVE FALSE
    OBVIOUS
  <2>1. PICK m \in Bad : \A n \in Bad : m <= n
    <3>1. Bad \in SUBSET Nat
      OBVIOUS
    <3> HIDE DEF Bad
    <3> QED BY <3>1, Least
  <2>2. m \in 0..N /\ ~Fn(m) /\ m # 0
    BY <1>1
  <2>3. m - 1 \in 0..(N-1) /\ m - 1 \in 0..N /\ ~(m <= m - 1)
    BY <2>2
  <2>4. Fn(m - 1)
    <3>1. m - 1 \notin Bad
      <4> HIDE DEF Bad
      <4> QED BY <2>1, <2>3
    <3> QED BY <2>3, <3>1
  <2>5. m - 1 + 1 = m
    BY <2>2
  <2> HIDE DEF Fn
  <2> QED BY <1>2, <2>2, <2>3, <2>4, <2>5
<1>4. Fn(N)
  BY <1>3
<1>5. N - N + 1 = 1
  OBVIOUS
<1> QED BY <1>4, <1>5

LEMMA AtOnceRuleHolds == AtOnce = [p \in 1..N |-> Outcome(AtOnce, p)]
<1>1. AtOnce = CHOOSE f : f = [p \in 1..N |-> Outcome(f, p)]
  BY DEF AtOnce, Outcome
<1> QED BY <1>1, AtOnceExists

-----------------------------------------------------------------------------
(* The inductive invariant.                                                 *)

\* What comes of each resolver at once follows the rule from beginning to end.
AtOnceRule == become = [p \in 1..N |-> Outcome(become, p)]

Given == /\ signal \in BOOLEAN /\ serial \in BOOLEAN
         /\ resolver \in [1..N -> Answers \cup {"iterator", "async", "abort"}]
         /\ AtOnceRule

\* The sub-positions of p may have been visited.
Reached(p) == state[p] \notin {"idle", "waiting", "null"}

\* A position is visited when the one it belongs to has a value, or had one when it failed.
ReachedDown == \A c \in 1..N : state[c] # "idle" => Reached(Parent[c])

\* The sub-positions of a value are complete.
ValueIsWhole == \A p \in Positions : state[p] = "value" => \A c \in Sub(p) : state[c] \in Done

\* What was complete, or had raised, at once, stays so.
AtOnceIsFinal ==
  \A p \in 1..N : state[p] # "idle" /\ become[p] \in Done \cup {"raised"} => state[p] = become[p]

NonNullIsKept == \A p \in NonNull : state[p] \notin {"null", "failed"}

\* An error is reported for p, or at or above it.
NulledFailed == /\ \A p \in nulled : p \in Positions /\ state[p] = "failed"
                /\ \A p \in Positions : state[p] = "failed" => HasNulled(p)

\* Execution groups are created for positions with a value, and for all of these.
WorkIsReached == /\ \A t \in work : t \in Deferred /\ Reached(t)
                 /\ \A t \in Deferred : state[t] = "value" => t \in work

States == Settled \cup Unfinished \cup {"idle", "drained", "rejected"}

RootStates == {"idle", "gathering", "failing", "value", "failed", "rejected", "cancelled"}

\* The invariant of the positions, without what the caller gets.
CoreInv == /\ Given
           /\ state \in [Positions -> States] /\ state[0] \in RootStates
           /\ ReachedDown /\ ValueIsWhole /\ AtOnceIsFinal /\ NonNullIsKept
           /\ NulledFailed /\ WorkIsReached

-----------------------------------------------------------------------------
(* What comes of a resolver at once, and which positions are visited.      *)

LEMMA GivenKept == ASSUME Given, UNCHANGED given PROVE Given' /\ become' = become
<1>1. signal' = signal /\ serial' = serial /\ resolver' = resolver /\ become' = become
  BY DEF given
<1> QED BY <1>1 DEF Given, AtOnceRule, Outcome, Completed, Raises, Answer

AtOnceStates == Done \cup {"raised", "waiting", "gathering", "iterating"}

LEMMA AtOnceType ==
  ASSUME Given
  PROVE  /\ become \in [1..N -> AtOnceStates]
         /\ \A p \in 1..N : become[p] = Outcome(become, p)
<1>1. \A p \in 1..N : become[p] = Outcome(become, p)
  <2> DEFINE G(p) == Outcome(become, p)
  <2>1. become = [p \in 1..N |-> G(p)]
    BY DEF Given, AtOnceRule
  <2> HIDE DEF G
  <2>2. \A p \in 1..N : become[p] = G(p)
    BY <2>1
  <2> QED BY <2>2 DEF G
<1>2. ASSUME NEW p \in 1..N PROVE Outcome(become, p) \in AtOnceStates
  <2>1. resolver[p] \in Answers \cup {"iterator", "async", "abort"}
    BY DEF Given
  <2>2. CASE resolver[p] = "async"
    BY <2>2 DEF Outcome, AtOnceStates
  <2>3. CASE resolver[p] # "async"
    <3>1. Answer(p) \in {"value", "null", "error", "iterator"}
      BY <2>1, <2>3 DEF Answer, Answers
    <3> QED BY <2>3, <3>1 DEF Outcome, AtOnceStates, Completed, Raises, Done
  <2> QED BY <2>2, <2>3
<1>3. become = [p \in 1..N |-> become[p]]
  BY DEF Given, AtOnceRule
<1> QED BY <1>1, <1>2, <1>3

\* An object or list with a value at once has sub-positions that are complete at once;
\* one that has a value before any await raises, fails, gathers or is complete.
LEMMA AtOnceValue ==
  ASSUME Given, NEW p \in 1..N
  PROVE  /\ become[p] = "value" => /\ Answer(p) = "value"
                                  /\ \A c \in Sub(p) : become[c] \in Done
         /\ Answer(p) = "value" => become[p] \in {"value", "gathering", "raised", "failed"}
         /\ become[p] \in {"null", "failed"} => p \notin NonNull
         /\ resolver[p] = "async" => become[p] = "waiting"
<1>1. become[p] = Outcome(become, p)
  BY AtOnceType
<1>2. \A c \in Sub(p) : become[c] \in AtOnceStates
  BY AtOnceType, PositionsAreNat, SubFacts
<1>3. resolver[p] \in Answers \cup {"iterator", "async", "abort"}
  BY DEF Given
<1> DEFINE f == [c \in Sub(p) |-> become[c]]
<1>4. \A c \in Sub(p) : f[c] = become[c]
  OBVIOUS
<1> HIDE DEF f
<1>5. become[p] = IF resolver[p] = "async" THEN "waiting" ELSE Completed(p, Answer(p), f)
  BY <1>1 DEF Outcome, f
<1>6. Answer(p) = "value" => resolver[p] # "async"
  BY DEF Answer
<1>7. ASSUME become[p] = "value"
      PROVE  Answer(p) = "value" /\ \A c \in Sub(p) : become[c] \in Done
  <2>1. resolver[p] # "async" /\ Completed(p, Answer(p), f) = "value"
    BY <1>5, <1>7
  <2>2. Answer(p) = "value"
    BY <2>1 DEF Completed
  <2>3. \A c \in Sub(p) : f[c] # "raised" /\ f[c] \notin Unfinished
    BY <2>1, <2>2 DEF Completed, Raises
  <2> QED BY <1>2, <1>4, <2>2, <2>3 DEF AtOnceStates, Unfinished, Iterating
<1>8. Answer(p) = "value" => become[p] \in {"value", "gathering", "raised", "failed"}
  BY <1>5, <1>6 DEF Completed
<1>9. become[p] \in {"null", "failed"} => p \notin NonNull
  <2>1. Answer(p) # "failed"
    BY <1>3 DEF Answer, Answers
  <2> QED BY <1>5, <2>1 DEF Completed, Raises
<1> QED BY <1>5, <1>7, <1>8, <1>9

\* What is above a visited position is reached.
LEMMA ReachedAbove ==
  ASSUME CoreInv, NEW p \in Positions, p # 0, state[p] # "idle", NEW a \in Above[p]
  PROVE  Reached(a)
<1> DEFINE S == {s \in Positions : Reached(s)}
<1>1. Parent[p] \in S
  BY PositionsAreNat, ParentIsBefore DEF CoreInv, ReachedDown
<1>2. \A q \in S \ {0} : Parent[q] \in S
  BY PositionsAreNat, ParentIsBefore DEF CoreInv, ReachedDown, Reached
<1>3. Above[p] \subseteq S
  BY <1>1, <1>2, AboveIsLeast
<1> QED BY <1>3

\* A synchronous stretch below p visits the positions V.
Visit(p, V) ==
  /\ V \subseteq 1..N
  /\ \A q \in V : /\ p \in Above[q] /\ p # q
                  /\ state[q] = "idle"
                  /\ \/ Parent[q] = p
                     \/ /\ Parent[q] \in V
                        /\ become[Parent[q]] \in {"value", "gathering", "raised", "failed"}
                  /\ become[q] = "value" => \A c \in Sub(q) : c \in V /\ become[c] \in Done

LEMMA VisitNothing == ASSUME NEW p PROVE Visit(p, {})
BY DEF Visit

LEMMA VisitedFacts ==
  ASSUME CoreInv, NEW p \in Positions, NEW F \in SUBSET Sub(p), \A c \in F : state[c] = "idle"
  PROVE  Visit(p, Visited(F)) /\ Visited(F) \cap Sub(p) = F
<1> DEFINE V == Visited(F)
           Way(q, c) == ({q} \cup Above[q]) \ ({c} \cup Above[c])
<1>1. \A c \in F : c \in 1..N /\ c \in Positions /\ Parent[c] = p /\ p < c
  BY SubFacts
<1>2. V = {q \in Positions : \E c \in F :
             /\ q = c \/ c \in Above[q]
             /\ \A a \in Way(q, c) : ~Stopped(a) /\ Answer(Parent[a]) = "value"}
  BY DEF Visited, Below
<1> HIDE DEF V
<1>3. F \subseteq V
  <2>1. \A c \in F : Way(c, c) = {}
    OBVIOUS
  <2> QED BY <1>1, <1>2, <2>1
<1>4. ASSUME NEW q \in V
      PROVE  /\ q \in Positions \ {0} /\ p \in Above[q] /\ state[q] = "idle"
             /\ q \in F \/ (Parent[q] \in V /\ Parent[q] # p /\ Answer(Parent[q]) = "value")
             /\ Answer(q) = "value" => \A d \in Sub(q) : ~Stopped(d) => d \in V
  <2>1. PICK c \in F : /\ q = c \/ c \in Above[q]
                       /\ \A a \in Way(q, c) : ~Stopped(a) /\ Answer(Parent[a]) = "value"
    BY <1>2
  <2>2. q \in Positions /\ c \in Positions /\ c \in Nat \ {0} /\ p \in Above[c]
    BY <1>1, <1>2, AboveIsClosed, PositionsAreNat
  <2>3. q # 0
    BY <2>1, <2>2, AboveIsBefore, PositionsAreNat
  <2>4. p \in Above[q]
    BY <2>1, <2>2, AboveIsTransitive
  <2>5. state[q] = "idle"
    BY <2>1, <2>2, <2>3, ReachedAbove DEF Reached
  <2>6. ASSUME q \notin F
        PROVE  Parent[q] \in V /\ Parent[q] # p /\ Answer(Parent[q]) = "value"
    <3>1. c \in Above[q]
      BY <2>1, <2>6
    <3>2. q # c /\ q \notin Above[c]
      BY <2>2, <3>1, AboveIsBefore, PositionsAreNat
    <3>3. Answer(Parent[q]) = "value"
      BY <2>1, <3>2
    <3>4. Above[q] = {Parent[q]} \cup Above[Parent[q]] /\ Parent[q] \in Positions
      BY <2>2, <2>3, AboveParent, PositionsAreNat, ParentIsBefore
    <3>5. Parent[q] = c \/ c \in Above[Parent[q]]
      BY <3>1, <3>4
    <3>6. Way(Parent[q], c) \subseteq Way(q, c)
      BY <3>4
    <3>7. Parent[q] \in V
      BY <1>2, <2>1, <3>4, <3>5, <3>6
    <3>8. Parent[q] # p
      BY <1>1, <2>2, <3>4, <3>5, AboveIsBefore, PositionsAreNat
    <3> QED BY <3>3, <3>7, <3>8
  <2>7. ASSUME Answer(q) = "value", NEW d \in Sub(q), ~Stopped(d) PROVE d \in V
    <3>1. d \in 1..N /\ d \in Positions /\ Parent[d] = q /\ d # 0
      BY <2>2, SubFacts, PositionsAreNat
    <3>2. Above[d] = {q} \cup Above[q]
      BY <3>1, AboveParent
    <3>3. Way(d, c) \subseteq {d} \cup Way(q, c)
      BY <3>2
    <3>4. \A a \in Way(d, c) : ~Stopped(a) /\ Answer(Parent[a]) = "value"
      BY <2>1, <2>7, <3>1, <3>3
    <3>5. c \in Above[d]
      BY <2>1, <3>2
    <3> HIDE DEF Way
    <3> QED BY <1>2, <3>1, <3>4, <3>5
  <2> QED BY <2>2, <2>3, <2>4, <2>5, <2>6, <2>7
<1>5. ASSUME NEW q \in V, become[q] = "value" PROVE \A c \in Sub(q) : c \in V /\ become[c] \in Done
  <2>1. q \in 1..N /\ q \in Positions
    BY <1>4, PositionsAreNat
  <2>2. Answer(q) = "value" /\ \A c \in Sub(q) : become[c] \in Done
    BY <1>5, <2>1, AtOnceValue DEF CoreInv
  <2>3. \A c \in Sub(q) : ~Stopped(c)
    BY <2>1, <2>2, SubFacts DEF Stopped, Done
  <2> QED BY <1>4, <2>2, <2>3
<1>6. ASSUME NEW q \in V
      PROVE  \/ Parent[q] = p
             \/ Parent[q] \in V /\ become[Parent[q]] \in {"value", "gathering", "raised", "failed"}
  <2>1. CASE q \in F
    BY <1>1, <2>1
  <2>2. CASE q \notin F
    <3>1. Parent[q] \in V /\ Answer(Parent[q]) = "value"
      BY <1>4, <2>2
    <3>2. Parent[q] \in 1..N
      BY <1>4, <3>1, PositionsAreNat
    <3> QED BY <3>1, <3>2, AtOnceValue DEF CoreInv
  <2> QED BY <2>1, <2>2
<1>7. V \subseteq 1..N
  BY <1>4, PositionsAreNat
<1>8. \A q \in V : p # q
  BY <1>4, AboveIsBefore, PositionsAreNat
<1>9. Visit(p, V)
  BY <1>4, <1>5, <1>6, <1>7, <1>8 DEF Visit
<1>10. V \cap Sub(p) = F
  <2>1. \A q \in V \cap Sub(p) : Parent[q] = p
    BY DEF Sub
  <2> QED BY <1>3, <1>4, <2>1
<1> QED BY <1>9, <1>10 DEF V

-----------------------------------------------------------------------------
(* Steps that complete a position.                                          *)

\* p may come out as r when the positions V are visited.
Comes(p, r, V) ==
  /\ r \in States \ {"idle", "waiting"} /\ (p = 0 => r \in RootStates)
  /\ state[p] \in Unfinished \/ (p = 0 /\ state[0] = "idle")
  /\ r = "null" => state[p] = "waiting" /\ V = {}
  /\ r \in {"null", "failed"} => p \notin NonNull
  /\ r = "value" => \A c \in Sub(p) : \/ c \in V /\ become[c] \in Done
                                      \/ c \notin V /\ state[c] \in Done
  /\ V # {} /\ p \in Lists => state[p] \in {"waiting", "iterating"}

\* What such a step changes.
Changed(p, r, V, D) ==
  /\ \A q \in D : q \in 1..N /\ q \notin V /\ q # p /\ state[q] = "idle" /\ become[q] = "waiting"
  /\ \A q \in D : Parent[q] \in {p} \cup V
  /\ \A q \in D : \E s \in V : Parent[s] = Parent[q] /\ become[s] = "raised"
  /\ state' = [q \in Positions |-> IF q = p THEN r ELSE IF q \in V THEN become[q]
                                  ELSE IF q \in D THEN "drained" ELSE state[q]]
  /\ nulled' = nulled \cup {q \in {p} \cup V : (IF q = p THEN r ELSE become[q]) = "failed"
                                               /\ ~HasNulled(q)}
  /\ work' = work \cup {q \in Deferred \cap ({p} \cup V) :
                          (IF q = p THEN r ELSE become[q]) \in {"value", "gathering"}}

LEMMA StepChanges ==
  ASSUME CoreInv, NEW p \in Positions, NEW r, NEW V, Visit(p, V), Comes(p, r, V), Step(p, r, V)
  PROVE  Changed(p, r, V, Drained(V))
<1> DEFINE new == [q \in {p} \cup V |-> IF q = p THEN r ELSE become[q]]
           D == Drained(V)
<1>1. /\ state' = [q \in Positions |-> IF q \in DOMAIN new THEN new[q]
                                     ELSE IF q \in D THEN "drained" ELSE state[q]]
      /\ nulled' = nulled \cup {q \in DOMAIN new : new[q] = "failed" /\ ~HasNulled(q)}
      /\ work' = work \cup {q \in Deferred \cap DOMAIN new : new[q] \in {"value", "gathering"}}
  BY DEF Step
<1>2. DOMAIN new = {p} \cup V /\ \A q \in {p} \cup V : new[q] = IF q = p THEN r ELSE become[q]
  OBVIOUS
<1> HIDE DEF new
<1>3. state' = [q \in Positions |-> IF q = p THEN r ELSE IF q \in V THEN become[q]
                                    ELSE IF q \in D THEN "drained" ELSE state[q]]
  BY <1>1, <1>2
<1>4. nulled' = nulled \cup {q \in {p} \cup V : (IF q = p THEN r ELSE become[q]) = "failed"
                                                /\ ~HasNulled(q)}
  BY <1>1, <1>2
<1>5. work' = work \cup {q \in Deferred \cap ({p} \cup V) :
                          (IF q = p THEN r ELSE become[q]) \in {"value", "gathering"}}
  BY <1>1, <1>2
<1>6. ASSUME NEW q \in D
      PROVE  /\ q \in 1..N /\ q \notin V /\ state[q] = "idle" /\ become[q] = "waiting" /\ q # p
             /\ Parent[q] \in {p} \cup V
             /\ \E s \in V : Parent[s] = Parent[q] /\ become[s] = "raised"
  <2>1. /\ q \in 1..N /\ q \notin V /\ resolver[q] = "async"
        /\ Parent[q] \in Lists /\ state[Parent[q]] # "iterating"
    BY DEF Drained
  <2>2. PICK s \in V : s \in Sub(Parent[q]) /\ become[s] = "raised"
    BY DEF Drained, RaisedBeside
  <2>3. Parent[s] = Parent[q] /\ s \in 1..N
    BY <2>2 DEF Sub
  <2>4. Parent[q] = p \/ (Parent[q] \in V /\ Parent[q] # p)
    BY <2>2, <2>3 DEF Visit
  <2>5. state[Parent[q]] \in {"idle", "waiting"}
    <3>1. CASE Parent[q] = p
      BY <2>1, <2>2, <3>1 DEF Comes
    <3>2. CASE Parent[q] \in V
      BY <3>2 DEF Visit
    <3> QED BY <2>4, <3>1, <3>2
  <2>6. state[q] = "idle"
    BY <2>1, <2>5 DEF CoreInv, ReachedDown, Reached
  <2>7. q # p
    <3>1. ASSUME q = p PROVE FALSE
      <4>1. Parent[q] # p
        BY <2>1, <3>1, ParentIsBefore, PositionsAreNat
      <4>2. p \in Above[Parent[q]] /\ Parent[q] \in Above[p]
        BY <2>1, <2>4, <3>1, <4>1, AboveIsClosed, PositionsAreNat DEF Visit
      <4> QED BY <4>2, <2>1, AboveIsBefore, AboveIsClosed, PositionsAreNat
    <3> QED BY <3>1
  <2>8. become[q] = "waiting"
    BY <2>1, AtOnceValue DEF CoreInv
  <2> QED BY <2>1, <2>2, <2>3, <2>4, <2>6, <2>7, <2>8
<1> QED BY <1>3, <1>4, <1>5, <1>6 DEF Changed

\* Positions that were complete stay so.
Final == \A q \in Positions : state[q] \in Done => state'[q] = state[q]

LEMMA StepInv ==
  ASSUME CoreInv, NEW p \in Positions, NEW r, NEW V, Visit(p, V), Comes(p, r, V), Step(p, r, V),
         UNCHANGED given
  PROVE  CoreInv' /\ Final
<1> DEFINE D == Drained(V)
<1>1. Changed(p, r, V, D)
  BY StepChanges
<1> HIDE DEF D
<1>2. V \subseteq 1..N /\ V \subseteq Positions /\ p \notin V
  BY PositionsAreNat DEF Visit
<1>3. /\ state'[p] = r
      /\ \A q \in V : state'[q] = become[q]
      /\ \A q \in D : state'[q] = "drained"
      /\ \A q \in Positions : q # p /\ q \notin V /\ q \notin D => state'[q] = state[q]
  BY <1>1, <1>2, PositionsAreNat DEF Changed
<1>4. \A q \in V \cup D : state[q] = "idle" /\ q \in 1..N
  BY <1>1 DEF Changed, Visit
<1>5. p # 0 => become[p] \notin Done \cup {"raised"}
  <2>1. ASSUME p # 0, become[p] \in Done \cup {"raised"} PROVE FALSE
    <3>1. state[p] \in Unfinished /\ state[p] = become[p]
      BY <2>1, PositionsAreNat DEF Comes, CoreInv, AtOnceIsFinal, Unfinished, Iterating
    <3> QED BY <2>1, <3>1 DEF Unfinished, Iterating, Done
  <2> QED BY <2>1
<1>6. Final
  BY <1>3, <1>4 DEF Final, Comes, Done, Unfinished, Iterating
<1>7. Given' /\ become' = become
  BY GivenKept DEF CoreInv
<1>8. state' \in [Positions -> States]
  <2>1. \A q \in Positions : state'[q] \in States
    <3>1. \A q \in V : become[q] \in States
      BY <1>2, AtOnceType DEF CoreInv, AtOnceStates, States, Settled, Done, Unfinished, Iterating
    <3>2. \A q \in Positions : state[q] \in States
      BY DEF CoreInv
    <3>3. r \in States /\ "drained" \in States
      BY DEF Comes, States
    <3> HIDE DEF States
    <3> QED BY <1>3, <3>1, <3>2, <3>3
  <2> QED BY <1>1, <2>1 DEF Changed
<1>15. state'[0] \in RootStates
  <2>1. 0 \notin V /\ 0 \notin D /\ 0 \in Positions
    BY <1>4, PositionsAreNat
  <2> QED BY <1>3, <2>1 DEF Comes, CoreInv
<1>9. ReachedDown'
  <2> SUFFICES ASSUME NEW c \in 1..N, state'[c] # "idle" PROVE Reached(Parent[c])'
    BY DEF ReachedDown
  <2> DEFINE a == Parent[c]
  <2>1. a \in Positions
    BY ParentIsBefore
  <2>2. ASSUME a = p PROVE r # "null"
    <3>1. ASSUME r = "null" PROVE FALSE
      <4>1. c \in Sub(p)
        BY <2>2 DEF Sub
      <4>2. state[c] = "idle" /\ c \notin V
        BY <3>1, <4>1, SubFacts DEF Comes, CoreInv, ReachedDown, Reached
      <4>3. c # p
        BY <2>2, <2>1, ParentIsBefore, PositionsAreNat
      <4>4. c \in D
        BY <1>3, <4>2, <4>3, PositionsAreNat
      <4>5. PICK s \in V : Parent[s] = p
        BY <1>1, <2>2, <4>4 DEF Changed
      <4> QED BY <1>2, <3>1, <4>5 DEF Comes, Sub
    <3> QED BY <3>1
  <2>3. ASSUME a \in V, c \in V \cup D
        PROVE  become[a] \in {"value", "gathering", "raised", "failed"}
    <3>1. CASE c \in V
      BY <1>2, <2>3, <3>1 DEF Visit
    <3>2. CASE c \in D
      <4>1. PICK s \in V : Parent[s] = a
        BY <1>1, <3>2 DEF Changed
      <4> QED BY <1>2, <2>3, <4>1 DEF Visit
    <3> QED BY <2>3, <3>1, <3>2
  <2>4. CASE a = p
    BY <1>3, <2>2, <2>4 DEF Comes, Reached
  <2>5. CASE a \in V
    <3>1. c # p
      <4>1. ASSUME c = p PROVE FALSE
        <5>1. a \in Above[p] /\ p \in Above[a]
          BY <2>5, <4>1, AboveIsClosed, PositionsAreNat DEF Visit
        <5> QED BY <5>1, <2>1, AboveIsBefore, PositionsAreNat
      <4> QED BY <4>1
    <3>2. ASSUME c \notin V \cup D PROVE FALSE
      <4>1. state[c] # "idle"
        BY <1>3, <3>1, <3>2, PositionsAreNat
      <4> QED BY <1>4, <2>5, <4>1 DEF CoreInv, ReachedDown, Reached
    <3> QED BY <1>3, <2>3, <2>5, <3>2 DEF Reached
  <2>6. CASE a # p /\ a \notin V
    <3>1. c \notin V \cup D
      BY <1>1, <2>6 DEF Changed, Visit
    <3>2. state[c] # "idle"
      BY <1>3, <3>1, PositionsAreNat DEF Comes, Unfinished, Iterating
    <3>3. Reached(a)
      BY <3>2 DEF CoreInv, ReachedDown
    <3>4. a \notin D
      BY <1>4, <3>3 DEF Reached
    <3> QED BY <1>3, <2>1, <2>6, <3>3, <3>4 DEF Reached
  <2> QED BY <2>4, <2>5, <2>6
<1>10. ValueIsWhole'
  <2> SUFFICES ASSUME NEW a \in Positions, state'[a] = "value", NEW c \in Sub(a)
               PROVE  state'[c] \in Done
    BY DEF ValueIsWhole
  <2>0. c \in Positions
    BY SubFacts
  <2>1. CASE a = p
    BY <1>3, <1>6, <2>0, <2>1 DEF Comes, Final
  <2>2. CASE a \in V
    BY <1>3, <2>2 DEF Visit
  <2>3. CASE a \notin {p} \cup V
    <3>1. state[a] = "value"
      BY <1>3, <2>3
    <3>2. state[c] \in Done
      BY <3>1 DEF CoreInv, ValueIsWhole
    <3> QED BY <1>6, <2>0, <3>2 DEF Final
  <2> QED BY <2>1, <2>2, <2>3
<1>11. AtOnceIsFinal'
  <2> SUFFICES ASSUME NEW q \in 1..N, state'[q] # "idle", become[q] \in Done \cup {"raised"}
               PROVE  state'[q] = become[q]
    BY <1>7 DEF AtOnceIsFinal
  <2>1. q # p
    BY <1>5, PositionsAreNat
  <2>2. q \notin D
    BY <1>1 DEF Changed, Done
  <2> QED BY <1>3, <2>1, <2>2, PositionsAreNat DEF CoreInv, AtOnceIsFinal
<1>12. NonNullIsKept'
  <2> SUFFICES ASSUME NEW q \in NonNull PROVE state'[q] \notin {"null", "failed"}
    BY DEF NonNullIsKept
  <2>1. q \in 1..N
    BY TreeAssumption
  <2>2. CASE q \in V
    BY <1>3, <2>1, <2>2, AtOnceValue DEF CoreInv
  <2>3. CASE q \notin V
    BY <1>3, <2>1, <2>3, PositionsAreNat DEF CoreInv, NonNullIsKept, Comes
  <2> QED BY <2>2, <2>3
<1>13. NulledFailed'
  <2>1. nulled \subseteq nulled'
    BY <1>1 DEF Changed
  <2>2. \A q \in Positions : HasNulled(q) => HasNulled(q)'
    BY <2>1 DEF HasNulled
  <2>3. ASSUME NEW q \in nulled' PROVE q \in Positions /\ state'[q] = "failed"
    <3>1. CASE q \in nulled
      BY <1>6, <3>1 DEF Final, Done, CoreInv, NulledFailed
    <3>2. CASE q \notin nulled
      BY <1>1, <1>2, <1>3, <3>2 DEF Changed
    <3> QED BY <3>1, <3>2
  <2>4. ASSUME NEW q \in Positions, state'[q] = "failed" PROVE HasNulled(q)'
    <3>1. CASE q \in {p} \cup V
      <4>1. (IF q = p THEN r ELSE become[q]) = "failed"
        BY <1>2, <1>3, <2>4, <3>1
      <4>2. HasNulled(q) \/ q \in nulled'
        BY <1>1, <3>1, <4>1 DEF Changed
      <4> QED BY <2>2, <4>2 DEF HasNulled
    <3>2. CASE q \notin {p} \cup V
      <4>1. state[q] = "failed"
        BY <1>3, <2>4, <3>2
      <4> QED BY <2>2, <4>1 DEF CoreInv, NulledFailed
    <3> QED BY <3>1, <3>2
  <2> QED BY <2>3, <2>4 DEF NulledFailed
<1>14. WorkIsReached'
  <2>1. ASSUME NEW t \in work' PROVE t \in Deferred /\ Reached(t)'
    <3>1. CASE t \in {p} \cup V /\ (IF t = p THEN r ELSE become[t]) \in {"value", "gathering"}
      <4>1. t \in Deferred
        BY <1>1, <2>1 DEF Changed, CoreInv, WorkIsReached
      <4> QED BY <1>2, <1>3, <3>1, <4>1 DEF Reached
    <3>2. CASE t \in work
      <4>1. t \in Deferred /\ Reached(t) /\ t \in Positions
        BY <3>2, TreeAssumption DEF CoreInv, WorkIsReached
      <4>2. t \notin V \cup D
        BY <1>4, <4>1 DEF Reached
      <4>3. CASE t = p
        BY <1>3, <4>1, <4>3 DEF Comes, Reached
      <4>4. CASE t # p
        BY <1>3, <4>1, <4>2, <4>4 DEF Reached
      <4> QED BY <4>3, <4>4
    <3> QED BY <1>1, <3>1, <3>2 DEF Changed
  <2>2. ASSUME NEW t \in Deferred, state'[t] = "value" PROVE t \in work'
    <3>1. t \in Positions
      BY TreeAssumption
    <3>2. CASE t \in {p} \cup V
      BY <1>1, <1>2, <1>3, <2>2, <3>2 DEF Changed
    <3>3. CASE t \notin {p} \cup V
      BY <1>1, <1>3, <2>2, <3>1, <3>3 DEF Changed, CoreInv, WorkIsReached
    <3> QED BY <3>2, <3>3
  <2> QED BY <2>1, <2>2 DEF WorkIsReached
<1> QED BY <1>6, <1>7, <1>8, <1>9, <1>10, <1>11, <1>12, <1>13, <1>14, <1>15 DEF CoreInv

-----------------------------------------------------------------------------
(* The data of the response.                                                *)

\* The first position on the way to p that has no value is in the data.
LEMMA FirstMissing ==
  ASSUME NEW p \in Positions, NEW b \in {p} \cup Above[p], state[b] # "value"
  PROVE  \E a \in {p} \cup Above[p] : state[a] # "value" /\ InData(a)
<1> DEFINE S == {a \in {p} \cup Above[p] : state[a] # "value"}
<1>1. S \in SUBSET Nat /\ S # {}
  BY AboveIsClosed, PositionsAreNat
<1>2. PICK a \in S : \A n \in S : a <= n
  BY <1>1, Least
<1>3. a \in Positions /\ a \in {p} \cup Above[p] /\ state[a] # "value"
  BY AboveIsClosed
<1>4. ASSUME NEW n \in Above[a] PROVE state[n] = "value"
  <2>1. n \in {p} \cup Above[p] /\ n \in Positions
    BY <1>3, AboveIsTransitive, AboveIsClosed
  <2>2. n < a
    BY <1>3, AboveIsBefore
  <2> QED BY <1>2, <1>3, <2>1, <2>2, PositionsAreNat
<1> QED BY <1>3, <1>4 DEF InData

\* When the response is built, what the client reaches is complete.
LEMMA DataIsDone ==
  ASSUME CoreInv, Built, NEW p \in Positions, InData(p)
  PROVE  state[p] \in Done
<1>1. CASE p = 0
  BY <1>1 DEF Built, Done
<1>2. CASE p # 0
  <2>1. Parent[p] \in Above[p] /\ Parent[p] \in Positions /\ p \in Sub(Parent[p])
    BY <1>2, AboveIsClosed, PositionsAreNat DEF Sub
  <2>2. state[Parent[p]] = "value"
    BY <2>1 DEF InData
  <2> QED BY <2>1, <2>2 DEF CoreInv, ValueIsWhole
<1> QED BY <1>1, <1>2

\* An error that is reported at or above p, and not below a null: p itself failed.
LEMMA DataIsNotNulled ==
  ASSUME CoreInv, NEW p \in Positions, InData(p), HasNulled(p)
  PROVE  p \in nulled
<1>1. PICK a \in {p} \cup Above[p] \cup {0} : a \in nulled
  BY DEF HasNulled
<1>2. state[a] = "failed"
  BY <1>1 DEF CoreInv, NulledFailed
<1>3. a \notin Above[p]
  BY <1>2 DEF InData
<1>4. a = p \/ a = 0
  BY <1>3
<1> QED BY <1>1, <1>3, <1>4, RootIsAbove

LEMMA CoreIsSound == ASSUME CoreInv PROVE ResponseIsSound
<1> SUFFICES ASSUME Built, NEW p \in Positions, InData(p)
             PROVE  /\ state[p] \in {"value"} \cup (IF p \in NonNull THEN {} ELSE {"null", "failed"})
                    /\ state[p] = "failed" <=> p \in nulled
  BY DEF ResponseIsSound
<1>1. state[p] \in Done
  BY DataIsDone
<1>2. p \in NonNull => state[p] \notin {"null", "failed"}
  BY DEF CoreInv, NonNullIsKept
<1>3. state[p] = "failed" => p \in nulled
  BY DataIsNotNulled DEF CoreInv, NulledFailed
<1>4. p \in nulled => state[p] = "failed"
  BY DEF CoreInv, NulledFailed
<1> QED BY <1>1, <1>2, <1>3, <1>4 DEF Done

\* When the response is built, a position outside the data is below an error.
LEMMA OutsideIsNulled ==
  ASSUME CoreInv, Built, NEW p \in Positions, state[p] # "idle", ~(InData(p) /\ state[p] = "value"),
         state[p] # "null"
  PROVE  HasNulled(p)
<1>1. PICK a \in {p} \cup Above[p] : state[a] # "value" /\ InData(a)
  BY FirstMissing DEF InData
<1>2. a \in Positions
  BY AboveIsClosed
<1>3. state[a] \in {"null", "failed"}
  BY <1>1, <1>2, DataIsDone DEF Done
<1>4. state[a] # "null"
  <2>1. CASE a = p
    BY <2>1
  <2>2. CASE a # p
    <3>1. a \in Above[p]
      BY <2>2
    <3>2. p # 0
      BY <1>2, <3>1, AboveIsBefore, PositionsAreNat
    <3> QED BY <3>1, <3>2, ReachedAbove DEF Reached
  <2> QED BY <2>1, <2>2
<1>5. a \in nulled
  BY <1>1, <1>2, <1>3, <1>4, DataIsNotNulled DEF CoreInv, NulledFailed
<1> QED BY <1>5 DEF HasNulled

\* What is incomplete then reports no more errors, and nor does anything below it.
LEMMA ErrorsKept ==
  ASSUME CoreInv, Built, NEW p \in Positions, NEW r, NEW V, Visit(p, V), Comes(p, r, V),
         Step(p, r, V)
  PROVE  nulled' = nulled
<1>1. state[p] \in Unfinished
  BY DEF Comes, Built
<1>2. HasNulled(p)
  BY <1>1, OutsideIsNulled DEF Unfinished, Iterating
<1>3. ASSUME NEW q \in V PROVE HasNulled(q)
  <2>1. q \in Positions /\ p \in Above[q]
    BY PositionsAreNat DEF Visit
  <2>2. Above[p] \subseteq Above[q]
    BY <2>1, AboveIsTransitive
  <2> QED BY <1>2, <2>1, <2>2 DEF HasNulled
<1>4. Changed(p, r, V, Drained(V))
  BY StepChanges
<1> QED BY <1>2, <1>3, <1>4 DEF Changed

\* The fragments that the client finds.
Found == {t \in Deferred : InData(t) /\ state[t] = "value"}

LEMMA DeliverableIsFound == ASSUME CoreInv, Built PROVE Deliverable = Found
<1> Deferred \subseteq Positions
  BY TreeAssumption
<1>1. ASSUME NEW t \in work, ~HasNulled(t) PROVE t \in Found
  <2>1. t \in Deferred /\ Reached(t)
    BY DEF CoreInv, WorkIsReached
  <2>2. InData(t) /\ state[t] = "value"
    BY <1>1, <2>1, OutsideIsNulled DEF Reached
  <2> QED BY <2>1, <2>2 DEF Found
<1>2. ASSUME NEW t \in Found PROVE t \in work /\ ~HasNulled(t)
  <2>1. t \in Deferred /\ InData(t) /\ state[t] = "value"
    BY DEF Found
  <2>2. t \notin nulled
    BY <2>1 DEF CoreInv, NulledFailed
  <2> QED BY <2>1, <2>2, DataIsNotNulled DEF CoreInv, WorkIsReached
<1>3. nulled = {} => \A t \in work : ~HasNulled(t)
  BY DEF HasNulled
<1> QED BY <1>1, <1>2, <1>3 DEF Deliverable

\* Once the response is built, the data stays what it is.
LEMMA FoundIsKept ==
  ASSUME CoreInv, Built, CoreInv', Final
  PROVE  Found' = Found
<1> Deferred \subseteq Positions
  BY TreeAssumption
<1>1. ASSUME NEW p \in Positions, InData(p) PROVE InData(p)'
  BY <1>1, AboveIsClosed DEF InData, Final, Done
<1>2. ASSUME NEW p \in Positions, InData(p)', ~InData(p) PROVE FALSE
  <2>1. PICK b \in Above[p] : state[b] # "value"
    BY <1>2 DEF InData
  <2>2. PICK a \in {p} \cup Above[p] : state[a] # "value" /\ InData(a)
    BY <2>1, FirstMissing
  <2>3. a # p /\ a \in Positions
    BY <1>2, <2>2, AboveIsClosed
  <2>4. state'[a] = state[a]
    BY <2>2, <2>3, DataIsDone DEF Final
  <2> QED BY <1>2, <2>2, <2>3, <2>4 DEF InData
<1>3. ASSUME NEW t \in Deferred, InData(t) PROVE state'[t] = state[t]
  BY <1>3, DataIsDone DEF Final
<1> QED BY <1>1, <1>2, <1>3 DEF Found

\* A root field of a serial operation is visited only when those before it are complete.
RootsInOrder ==
  serial => \A c, d \in Sub(0) : c < d /\ state[d] # "idle" => state[c] \in Done

RestInv == /\ aborted \in BOOLEAN
           /\ doomed \subseteq Positions /\ running \subseteq Positions
           /\ background \subseteq Positions /\ sent \subseteq work
           /\ outcome \in {"pending", "result", "aborted", "raised"}
           /\ hook \in {"none", "waiting", "run"}

IInv == CoreInv /\ RootsInOrder /\ RestInv /\ WorkHasParent

-----------------------------------------------------------------------------
(* Steps that only end coroutines.                                          *)

LEMMA EndsInv ==
  ASSUME CoreInv, UNCHANGED <<given, nulled, work>>,
         state' \in [Positions -> States], state'[0] \in RootStates,
         \A q \in Positions : \/ state'[q] = state[q]
                              \/ /\ state[q] \in Unfinished \cup {"drained"}
                                 /\ state'[q] \in {"cancelled", "closing", "failing", "dropped"}
  PROVE  CoreInv' /\ Final /\ (RootsInOrder => RootsInOrder')
         /\ (Built' => Built)
<1>1. Final
  BY DEF Final, Done, Unfinished, Iterating
<1>2. Given' /\ become' = become
  <2>1. given' = given
    OBVIOUS
  <2> QED BY <2>1, GivenKept DEF CoreInv
<1>3. \A q \in Positions : state'[q] = "idle" <=> state[q] = "idle"
  BY DEF Unfinished, Iterating
<1>4. \A q \in Positions : Reached(q) => Reached(q)'
  BY DEF Reached
<1>5. ReachedDown'
  BY <1>3, <1>4, ParentIsBefore, PositionsAreNat DEF CoreInv, ReachedDown
<1>6. ValueIsWhole'
  BY <1>1, SubFacts DEF CoreInv, ValueIsWhole, Final
<1>7. AtOnceIsFinal'
  <2> SUFFICES ASSUME NEW q \in 1..N, state'[q] # "idle", become[q] \in Done \cup {"raised"}
               PROVE  state'[q] = become[q]
    BY <1>2 DEF AtOnceIsFinal
  <2>1. state[q] = become[q]
    BY <1>3, PositionsAreNat DEF CoreInv, AtOnceIsFinal
  <2> QED BY <2>1, PositionsAreNat DEF Unfinished, Iterating, Done
<1>8. NonNullIsKept'
  BY TreeAssumption, PositionsAreNat DEF CoreInv, NonNullIsKept
<1>9. NulledFailed'
  BY <1>1 DEF CoreInv, NulledFailed, Final, Done, HasNulled
<1>10. WorkIsReached'
  BY <1>4, TreeAssumption DEF CoreInv, WorkIsReached
<1>11. RootsInOrder => RootsInOrder'
  BY <1>1, <1>3, SubFacts, PositionsAreNat DEF RootsInOrder, given, Final
<1>12. Built' => Built
  BY PositionsAreNat DEF Built
<1> QED BY <1>1, <1>2, <1>5, <1>6, <1>7, <1>8, <1>9, <1>10, <1>11, <1>12 DEF CoreInv

\* What Interrupted(p) drops is unfinished.
LEMMA HeldIsUnfinished ==
  ASSUME NEW p \in Positions, NEW q \in Holds(p)
  PROVE  state[q] \in Unfinished
<1>1. q \in Positions /\ p \in Above[q]
  BY DEF Holds, Below
<1>2. q # p /\ q \notin Above[p]
  BY <1>1, AboveIsBefore, PositionsAreNat
<1> QED BY <1>2 DEF Holds

LEMMA EndingActions ==
  ASSUME IInv, NEW p \in Positions,
         Interrupted(p) \/ WorkEnds(p) \/ SiblingFails(p) \/ CancelSpreads(p) \/ SourceFails(p)
  PROVE  IInv' /\ nulled' = nulled
<1>1. UNCHANGED <<given, background, nulled, work, aborted, sent, outcome, hook>>
  BY DEF Interrupted, WorkEnds, SiblingFails, CancelSpreads, SourceFails
<1>2. state \in [Positions -> States]
  BY DEF IInv, CoreInv
<1>3. {"cancelled", "closing", "failing", "dropped"} \subseteq States
  BY DEF States, Settled, Unfinished, Iterating
<1>4. /\ state' \in [Positions -> States]
      /\ \A q \in Positions : \/ state'[q] = state[q]
                              \/ /\ state[q] \in Unfinished \cup {"drained"}
                                 /\ state'[q] \in {"cancelled", "closing", "failing", "dropped"}
  <2> HIDE DEF States
  <2>1. CASE Interrupted(p)
    <3>1. state' = [q \in Positions |-> IF q \in {p} \cup Holds(p) THEN "cancelled" ELSE state[q]]
      BY <2>1 DEF Interrupted
    <3>2. state[p] \in Unfinished
      BY <2>1 DEF Interrupted, Unfinished
    <3> QED BY <1>2, <1>3, <3>1, <3>2, HeldIsUnfinished
  <2>2. CASE WorkEnds(p)
    BY <1>2, <1>3, <2>2 DEF WorkEnds
  <2>3. CASE SiblingFails(p) \/ CancelSpreads(p) \/ SourceFails(p)
    BY <1>2, <1>3, <2>3 DEF SiblingFails, CancelSpreads, SourceFails, Unfinished, Iterating
  <2> QED BY <2>1, <2>2, <2>3
<1>8. state'[0] \in RootStates
  <2>1. state[0] \in RootStates
    BY DEF IInv, CoreInv
  <2> QED BY <1>2, <2>1, PositionsAreNat
          DEF Interrupted, WorkEnds, SiblingFails, CancelSpreads, SourceFails, RootStates,
              Holds, Below, Iterating
<1>5. CoreInv' /\ Final /\ RootsInOrder' /\ (Built' => Built)
  BY <1>1, <1>4, <1>8, EndsInv DEF IInv
<1>6. RestInv'
  <2>1. running' \subseteq Positions
    BY DEF Interrupted, WorkEnds, SiblingFails, CancelSpreads, SourceFails, IInv, RestInv
  <2>2. doomed' \subseteq Positions
    BY DEF Interrupted, WorkEnds, SiblingFails, CancelSpreads, SourceFails, IInv, RestInv,
           LiveBelow, Holds, Below
  <2> QED BY <1>1, <2>1, <2>2 DEF IInv, RestInv
<1>7. WorkHasParent'
  BY <1>1, <1>5, FoundIsKept DEF IInv, WorkHasParent, Found
<1> QED BY <1>1, <1>5, <1>6, <1>7 DEF IInv

-----------------------------------------------------------------------------
(* Steps that complete a position.                                          *)

\* A root field is visited by a step of the root only.
LEMMA RootsKept ==
  ASSUME CoreInv, RootsInOrder, NEW p \in Positions, NEW r, NEW V, Visit(p, V), Comes(p, r, V),
         Step(p, r, V), UNCHANGED given, p # 0 \/ V = {}
  PROVE  RootsInOrder'
<1>1. Final
  BY StepInv
<1>2. ASSUME NEW d \in Sub(0), state'[d] # "idle" PROVE state[d] # "idle"
  <2>1. d \in 1..N /\ d \in Positions /\ Parent[d] = 0
    BY PositionsAreNat, SubFacts
  <2>2. d \notin V
    <3>1. ASSUME d \in V PROVE FALSE
      <4>1. p \in Above[d] /\ p # 0
        BY <3>1 DEF Visit
      <4>2. p \in Above[0]
        BY <2>1, <4>1, AboveParent, PositionsAreNat
      <4> QED BY <4>2, AboveIsBefore, PositionsAreNat
    <3> QED BY <3>1
  <2>3. d \notin Drained(V)
    BY <2>1, TreeAssumption DEF Drained
  <2>4. d = p => state[d] # "idle"
    BY <2>1, PositionsAreNat DEF Comes, Unfinished, Iterating
  <2>5. Changed(p, r, V, Drained(V))
    BY StepChanges
  <2> QED BY <1>2, <2>1, <2>2, <2>3, <2>4, <2>5 DEF Changed
<1>3. \A c \in Sub(0) : c \in Positions
  BY PositionsAreNat, SubFacts
<1> QED BY <1>1, <1>2, <1>3 DEF RootsInOrder, given, Final

LEMMA LaunchedPositions ==
  ASSUME NEW V, V \subseteq 1..N
  PROVE  Launched(V) \subseteq Positions
BY PositionsAreNat DEF Launched, Drained

\* What the caller gets after a step that completes a position.
LEMMA Responds ==
  ASSUME IInv, NEW p \in Positions, NEW r, NEW V, Visit(p, V), Comes(p, r, V), Step(p, r, V),
         NEW b \in BOOLEAN, Respond(b), UNCHANGED <<given, doomed>>, running' \subseteq Positions,
         RootsInOrder'
  PROVE  IInv' /\ (Built => nulled' = nulled)
<1>1. CoreInv' /\ Final
  BY StepInv DEF IInv
<1>2. Built => nulled' = nulled
  BY ErrorsKept DEF IInv
<1>3. Changed(p, r, V, Drained(V))
  BY StepChanges DEF IInv
<1>4. work \subseteq work'
  BY <1>3 DEF Changed
<1>5. Deliverable' \subseteq work'
  BY DEF Deliverable
<1>6. sent' = sent \/ (Built' /\ sent' = Deliverable')
  BY DEF Respond, Built
<1>7. sent' \subseteq work'
  BY <1>4, <1>5, <1>6 DEF IInv, RestInv
<1>8. hook' \in {"none", "waiting", "run"}
  BY DEF Respond, IInv, RestInv
<1>9. outcome' \in {"pending", "result", "aborted", "raised"}
  BY DEF Respond, IInv, RestInv
<1>10. aborted' \in BOOLEAN
  BY DEF Step, IInv, RestInv
<1>11. background' \subseteq Positions
  <2>1. Abandoned(V) \subseteq Positions /\ Drained(V) \subseteq Positions /\ Collected(p) \subseteq Positions
    BY PositionsAreNat DEF Abandoned, Drained, Collected, Sub, Visit
  <2>2. background' = background \cup Abandoned(V) \cup Drained(V) \cup Collected(p)
    BY DEF Step
  <2> QED BY <2>1, <2>2 DEF IInv, RestInv
<1>12. RestInv'
  BY <1>7, <1>8, <1>9, <1>10, <1>11 DEF IInv, RestInv
<1>13. WorkHasParent'
  <2> SUFFICES ASSUME Built' PROVE sent' = Found'
    BY DEF WorkHasParent, Found
  <2>1. CASE Built
    <3>1. sent' = sent
      BY <2>1 DEF Respond, Built
    <3>2. sent = Found
      BY <2>1 DEF IInv, WorkHasParent, Found
    <3> QED BY <1>1, <2>1, <3>1, <3>2, FoundIsKept DEF IInv
  <2>2. CASE ~Built
    <3>1. state[0] \in {"idle", "gathering", "failing"}
      <4>1. p = 0
        <5>1. 0 \notin V /\ 0 \notin Drained(V)
          BY PositionsAreNat DEF Visit, Drained
        <5>2. p # 0 => state'[0] = state[0]
          BY <1>3, <5>1, PositionsAreNat DEF Changed
        <5> QED BY <2>2, <5>2 DEF Built
      <4> QED BY <2>2, <4>1 DEF Comes, Unfinished, Built, IInv, CoreInv, RootStates, Iterating
    <3>2. sent' = Deliverable'
      BY <3>1 DEF Respond, Built
    <3>3. (CoreInv /\ Built => Deliverable = Found)'
      BY DeliverableIsFound, PTL
    <3> QED BY <1>1, <3>2, <3>3
  <2> QED BY <2>1, <2>2
<1> QED BY <1>1, <1>2, <1>12, <1>13 DEF IInv

\* How a resolver's answer comes out, with what has come of the sub-positions at once.
LEMMA CompletedFacts ==
  ASSUME CoreInv, NEW p \in Positions, NEW a \in {"value", "null", "error", "iterator"}
  PROVE  LET r == Completed(p, a, become)
         IN /\ r \in {"raised", "failed", "iterating", "gathering", "value", "null"}
            /\ r \in {"raised", "iterating"} => p # 0 \/ r = a \/ a = "iterator"
            /\ r \in {"null", "failed"} => p \notin NonNull
            /\ r = "null" => a = "null"
            /\ r = "value" => a = "value" /\ \A c \in Sub(p) : become[c] \in Done
<1> DEFINE r == Completed(p, a, become)
<1>1. \A c \in Sub(p) : become[c] \in AtOnceStates
  BY AtOnceType, SubFacts DEF CoreInv
<1>2. /\ r \in {"raised", "failed", "iterating", "gathering", "value", "null"}
      /\ r \in {"null", "failed"} => p \notin NonNull
      /\ r = "null" => a = "null"
  BY DEF Completed, Raises
<1>3. r \in {"raised", "iterating"} => p # 0 \/ r = a \/ a = "iterator"
  BY TreeAssumption DEF Completed
<1>4. ASSUME r = "value" PROVE a = "value" /\ \A c \in Sub(p) : become[c] \in Done
  <2>1. a = "value"
    BY <1>4 DEF Completed
  <2>2. \A c \in Sub(p) : become[c] # "raised" /\ become[c] \notin Unfinished
    BY <1>4, <2>1 DEF Completed, Raises
  <2> QED BY <1>1, <2>1, <2>2 DEF AtOnceStates, Unfinished, Iterating
<1> QED BY <1>2, <1>3, <1>4

LEMMA SerialFacts ==
  ASSUME CoreInv, NEW first \in Nat
  PROVE  LET r == SerialResult(first)
         IN /\ r \in {"failed", "gathering", "value", "rejected"}
            /\ r = "value" => /\ SerialFields(first) = From(first)
                              /\ \A c \in From(first) : become[c] \in Done
<1>1. SerialResult(first) \in {"failed", "gathering", "value", "rejected"}
  BY DEF SerialResult
<1>2. ASSUME SerialResult(first) = "value"
      PROVE  /\ SerialFields(first) = From(first)
             /\ \A c \in From(first) : become[c] \in Done
  <2>1. /\ SerialFields(first) = From(first)
        /\ \A c \in From(first) : become[c] # "raised" /\ become[c] \notin Unfinished
    BY <1>2 DEF SerialResult
  <2>2. \A c \in From(first) : become[c] \in AtOnceStates
    BY AtOnceType, SubFacts, PositionsAreNat DEF CoreInv, From
  <2> QED BY <2>1, <2>2 DEF AtOnceStates, Unfinished, Iterating
<1> QED BY <1>1, <1>2

LEMMA StatesHold ==
  {"raised", "failed", "iterating", "closing", "gathering", "value", "null", "rejected",
   "cancelled", "failing"} \subseteq States
BY DEF States, Settled, Done, Unfinished, Iterating

\* The serial reducer visits fields one after the other.
LEMMA SerialInOrder ==
  ASSUME IInv, serial, NEW first \in Nat, UNCHANGED given, NEW r,
         \A c \in Sub(0) : c >= first => state[c] = "idle",
         \A c \in Sub(0) : c < first => state[c] \in Done,
         Step(0, r, Visited(SerialFields(first))), Comes(0, r, Visited(SerialFields(first)))
  PROVE  RootsInOrder'
<1> DEFINE F == SerialFields(first)
           V == Visited(F)
<1>1. F \subseteq From(first) /\ From(first) = {c \in Sub(0) : c >= first}
  BY DEF SerialFields, From
<1>2. 0 \in Positions /\ \A c \in Sub(0) : c \in Positions /\ c \in Nat /\ c # 0
  BY PositionsAreNat, SubFacts
<1>3. Visit(0, V) /\ V \cap Sub(0) = F
  BY <1>1, <1>2, VisitedFacts DEF IInv
<1>4. Final /\ Changed(0, r, V, Drained(V))
  BY <1>2, <1>3, StepInv, StepChanges DEF IInv
<1>5. ASSUME NEW c \in Sub(0), NEW d \in Sub(0), c < d, state'[d] # "idle" PROVE state'[c] \in Done
  <2>1. d \in F \/ state[d] # "idle"
    <3>1. d \notin Drained(V)
      BY TreeAssumption DEF Drained, Sub
    <3> QED BY <1>2, <1>3, <1>4, <1>5, <3>1 DEF Changed
  <2>2. CASE c < first
    BY <1>2, <1>4, <2>2 DEF Final
  <2>3. CASE c >= first
    <3>1. d >= first
      BY <1>2, <1>5, <2>3
    <3>2. d \in F
      BY <2>1, <3>1
    <3>3. ~aborted /\ \A s \in From(first) : s < d => ~Interrupts(s)
      BY <3>2 DEF SerialFields
    <3>4. c \in From(first)
      BY <1>1, <2>3
    <3>5. c \in F
      <4>1. \A s \in From(first) : s < c => ~Interrupts(s)
        BY <1>1, <1>2, <1>5, <3>3
      <4> QED BY <3>3, <3>4, <4>1 DEF SerialFields
    <3>6. become[c] \in Done
      <4>1. ~Interrupts(c)
        BY <1>5, <3>3, <3>4
      <4>2. become[c] \in AtOnceStates
        BY <1>2, AtOnceType, PositionsAreNat DEF IInv, CoreInv
      <4> QED BY <4>1, <4>2 DEF Interrupts, AtOnceStates, Unfinished, Iterating
    <3>7. state'[c] = become[c]
      BY <1>2, <1>3, <1>4, <3>5 DEF Changed
    <3> QED BY <3>6, <3>7
  <2> QED BY <1>2, <2>2, <2>3
<1> QED BY <1>5 DEF RootsInOrder

LEMMA StartInv == ASSUME IInv, Start PROVE IInv' /\ (Built => nulled' = nulled)
<1> 0 \in Positions /\ 0 \notin NonNull /\ 0 \notin Lists
  BY PositionsAreNat, TreeAssumption
<1> DEFINE F == IF serial THEN SerialFields(1) ELSE Executed(0)
           V == Visited(F)
           r == IF serial THEN SerialResult(1) ELSE Completed(0, "value", become)
<1>1. /\ state[0] = "idle" /\ Step(0, r, V) /\ running' = Launched(V)
      /\ Respond(TRUE) /\ UNCHANGED <<given, doomed>>
  BY DEF Start
<1>2. \A c \in Sub(0) : state[c] = "idle" /\ c \in Nat /\ c >= 1
  BY <1>1, SubFacts DEF IInv, CoreInv, ReachedDown, Reached
<1>3. F \subseteq Sub(0)
  BY DEF SerialFields, From, Executed
<1>4. Visit(0, V) /\ V \cap Sub(0) = F
  BY <1>2, <1>3, VisitedFacts DEF IInv
<1>5. Comes(0, r, V)
  <2>1. CASE serial
    <3>1. /\ r \in {"failed", "gathering", "value", "rejected"}
          /\ r = "value" => F = From(1) /\ \A c \in From(1) : become[c] \in Done
      BY <2>1, SerialFacts DEF IInv
    <3>2. From(1) = Sub(0)
      BY <1>2 DEF From
    <3>3. r = "value" => \A c \in Sub(0) : c \in V /\ become[c] \in Done
      BY <1>4, <3>1, <3>2
    <3> HIDE DEF V, F, r
    <3> QED BY <1>1, <3>1, <3>3, StatesHold DEF Comes, RootStates
  <2>2. CASE ~serial
    <3> DEFINE rc == Completed(0, "value", become)
    <3>1. /\ rc \in {"failed", "gathering", "value"}
          /\ rc = "value" => \A c \in Sub(0) : become[c] \in Done
      BY CompletedFacts DEF IInv
    <3>2. (\A c \in Sub(0) : become[c] \in Done) => F = Sub(0)
      BY <2>2, SubFacts DEF Executed, Stopped, Done
    <3>3. r = rc
      BY <2>2
    <3>4. r = "value" => \A c \in Sub(0) : c \in V /\ become[c] \in Done
      BY <1>4, <3>1, <3>2, <3>3
    <3> HIDE DEF V, F, r, rc
    <3> QED BY <1>1, <3>1, <3>3, <3>4, StatesHold DEF Comes, RootStates
  <2> QED BY <2>1, <2>2
<1>6. RootsInOrder'
  <2>1. CASE serial
    <3>1. SerialFields(1) = F
      BY <2>1
    <3>2. /\ \A c \in Sub(0) : c >= 1 => state[c] = "idle"
          /\ \A c \in Sub(0) : c < 1 => state[c] \in Done
      BY <1>2
    <3> HIDE DEF F, r
    <3> QED BY <1>1, <1>5, <2>1, <3>1, <3>2, SerialInOrder
  <2>2. CASE ~serial
    BY <1>1, <2>2 DEF RootsInOrder, given
  <2> QED BY <2>1, <2>2
<1>7. running' \subseteq Positions
  BY <1>1, <1>4, LaunchedPositions DEF Visit
<1> HIDE DEF V, F, r
<1> QED BY <1>1, <1>4, <1>5, <1>6, <1>7, Responds

LEMMA SerialNextInv == ASSUME IInv, SerialNext PROVE IInv' /\ (Built => nulled' = nulled)
<1> 0 \in Positions /\ 0 \notin NonNull /\ 0 \notin Lists
  BY PositionsAreNat, TreeAssumption
<1>1. PICK last \in Sub(0) :
        /\ state[last] # "idle" /\ \A d \in Sub(0) : d > last => state[d] = "idle"
        /\ \E V \in {Visited(SerialFields(last + 1))} :
             Step(0, SerialResult(last + 1), V) /\ running' = running \cup Launched(V)
  BY DEF SerialNext
<1> DEFINE first == last + 1
           F == SerialFields(first)
           V == Visited(F)
           r == SerialResult(first)
<1>2. /\ serial /\ state[0] = "gathering" /\ \A c \in Sub(0) : state[c] \in Done \cup {"idle"}
      /\ Step(0, r, V) /\ running' = running \cup Launched(V)
      /\ Respond(FALSE) /\ UNCHANGED <<given, doomed>>
  BY <1>1 DEF SerialNext
<1>3. first \in Nat /\ \A c \in Sub(0) : c \in Nat
  BY SubFacts
<1>4. \A c \in Sub(0) : c >= first => state[c] = "idle"
  BY <1>1, <1>3
<1>5. ASSUME NEW c \in Sub(0), c < first PROVE state[c] \in Done
  <2>1. c = last \/ c < last
    BY <1>3, <1>5
  <2> QED BY <1>1, <1>2, <2>1 DEF IInv, RootsInOrder
<1>6. F \subseteq From(first) /\ From(first) = {c \in Sub(0) : c >= first}
  BY DEF SerialFields, From
<1>7. Visit(0, V) /\ V \cap Sub(0) = F
  BY <1>4, <1>6, VisitedFacts DEF IInv
<1>8. Comes(0, r, V)
  <2>1. /\ r \in {"failed", "gathering", "value", "rejected"}
        /\ r = "value" => F = From(first) /\ \A c \in From(first) : become[c] \in Done
    BY <1>3, SerialFacts DEF IInv
  <2>2. ASSUME r = "value", NEW c \in Sub(0)
        PROVE  (c \in V /\ become[c] \in Done) \/ (c \notin V /\ state[c] \in Done)
    <3>1. CASE c >= first
      BY <1>6, <1>7, <2>1, <2>2, <3>1
    <3>2. CASE c < first
      <4>1. c \notin F
        BY <1>3, <1>6, <3>2
      <4> QED BY <1>5, <1>7, <3>2, <4>1
    <3> QED BY <1>3, <3>1, <3>2
  <2> HIDE DEF V, F, r
  <2> QED BY <1>2, <2>1, <2>2, StatesHold DEF Comes, RootStates, Unfinished
<1>9. RootsInOrder'
  <2> HIDE DEF r, first
  <2> QED BY <1>2, <1>3, <1>4, <1>5, <1>8, SerialInOrder
<1>10. running' \subseteq Positions
  BY <1>2, <1>7, LaunchedPositions DEF Visit, IInv, RestInv
<1> HIDE DEF V, F, r
<1> QED BY <1>2, <1>7, <1>8, <1>9, <1>10, Responds

\* The step of a coroutine that completes a position, or goes on with it.
LEMMA CoroutineStep ==
  ASSUME IInv, NEW p \in Positions, NEW r, NEW V, Visit(p, V), Comes(p, r, V), Step(p, r, V),
         p # 0 \/ V = {}, Respond(FALSE), UNCHANGED <<given, doomed>>,
         running' \subseteq running \cup Launched(V)
  PROVE  IInv' /\ (Built => nulled' = nulled)
<1>1. RootsInOrder'
  BY RootsKept DEF IInv
<1>2. running' \subseteq Positions
  BY LaunchedPositions DEF Visit, IInv, RestInv
<1> QED BY <1>1, <1>2, Responds

LEMMA ResolvedInv ==
  ASSUME IInv, NEW p \in Positions, Resolved(p)
  PROVE  IInv' /\ (Built => nulled' = nulled)
<1>1. PICK a \in Arriving(p) :
        \E V \in {IF a = "value" THEN Visited(Executed(p)) ELSE {}} :
          /\ Step(p, Completed(p, a, become), V)
          /\ running' = (IF a = "iterator" THEN running ELSE running \ {p}) \cup Launched(V)
  BY DEF Resolved
<1> DEFINE V == IF a = "value" THEN Visited(Executed(p)) ELSE {}
           r == Completed(p, a, become)
<1>2. /\ Step(p, r, V) /\ running' \subseteq running \cup Launched(V)
      /\ state[p] = "waiting" /\ Respond(FALSE) /\ UNCHANGED <<given, doomed>>
  BY <1>1 DEF Resolved
<1>3. p # 0
  BY <1>2 DEF IInv, CoreInv, RootStates
<1>4. a \in {"value", "null", "error", "iterator"}
  BY DEF Arriving, Returned, Answers
<1>5. \A c \in Sub(p) : state[c] = "idle"
  BY <1>2, SubFacts DEF IInv, CoreInv, ReachedDown, Reached
<1>6. /\ Visit(p, V)
      /\ a = "value" => V \cap Sub(p) = Executed(p)
      /\ a # "value" => V = {}
  <2>1. Executed(p) \subseteq Sub(p)
    BY DEF Executed
  <2> QED BY <1>5, <2>1, VisitedFacts, VisitNothing DEF IInv
<1>7. /\ r \in {"raised", "failed", "iterating", "gathering", "value", "null"}
      /\ r \in {"null", "failed"} => p \notin NonNull
      /\ r = "null" => a = "null"
      /\ r = "value" => a = "value" /\ \A c \in Sub(p) : become[c] \in Done
  BY <1>4, CompletedFacts DEF IInv
<1>8. r = "value" => \A c \in Sub(p) : c \in V /\ become[c] \in Done
  <2>1. (\A c \in Sub(p) : become[c] \in Done) => Executed(p) = Sub(p)
    BY SubFacts DEF Executed, Stopped, Done
  <2> QED BY <1>6, <1>7, <2>1
<1>9. Comes(p, r, V)
  <2> HIDE DEF V, r
  <2> QED BY <1>2, <1>3, <1>6, <1>7, <1>8, StatesHold DEF Comes, Unfinished
<1> HIDE DEF V, r
<1> QED BY <1>2, <1>3, <1>6, <1>9, CoroutineStep

LEMMA NextItemInv ==
  ASSUME IInv, NEW p \in Positions, NextItem(p)
  PROVE  IInv' /\ (Built => nulled' = nulled)
<1>1. PICK c \in Sub(p) :
        /\ state[c] = "idle"
        /\ \E V \in {Visited({c})} :
             /\ Step(p, IF become[c] = "raised" THEN "closing" ELSE "iterating", V)
             /\ running' = running \cup Launched(V)
  BY DEF NextItem
<1> DEFINE V == Visited({c})
           r == IF become[c] = "raised" THEN "closing" ELSE "iterating"
<1>2. /\ Step(p, r, V) /\ running' = running \cup Launched(V)
      /\ state[p] = "iterating" /\ Respond(FALSE) /\ UNCHANGED <<given, doomed>>
  BY <1>1 DEF NextItem
<1>3. p # 0
  BY <1>2 DEF IInv, CoreInv, RootStates
<1>4. Visit(p, V)
  <2>1. {c} \in SUBSET Sub(p) /\ \A d \in {c} : state[d] = "idle"
    BY <1>1
  <2> QED BY <2>1, VisitedFacts DEF IInv
<1>5. Comes(p, r, V)
  <2> HIDE DEF V
  <2> QED BY <1>2, <1>3, StatesHold DEF Comes, Unfinished, Iterating
<1> HIDE DEF V, r
<1> QED BY <1>2, <1>3, <1>4, <1>5, CoroutineStep

LEMMA EndOfPositionInv ==
  ASSUME IInv, NEW p \in Positions,
         NoMoreItems(p) \/ SourceClosed(p) \/ Collect(p) \/ Fails(p)
  PROVE  IInv' /\ (Built => nulled' = nulled)
<1>1. /\ Respond(FALSE) /\ UNCHANGED <<given, doomed>>
      /\ running' \subseteq running
      /\ state[p] \in Unfinished
  BY DEF NoMoreItems, SourceClosed, Collect, Fails, Unfinished, Iterating
<1>2. ASSUME NEW r \in {"raised", "failed", "iterating", "gathering", "value", "cancelled"},
             Step(p, r, {}), p = 0 => r \in RootStates, r = "failed" => p \notin NonNull,
             r = "value" => \A c \in Sub(p) : state[c] \in Done
      PROVE  IInv' /\ (Built => nulled' = nulled)
  <2>1. Comes(p, r, {})
    BY <1>1, <1>2, StatesHold DEF Comes
  <2> QED BY <1>1, <1>2, <2>1, VisitNothing, CoroutineStep
<1>3. CASE NoMoreItems(p)
  <2> DEFINE r == Completed(p, "value", become)
  <2>1. Step(p, r, {}) /\ p # 0 /\ \A c \in Sub(p) : state[c] # "idle"
    BY <1>3 DEF NoMoreItems, IInv, CoreInv, RootStates
  <2>2. /\ r \in {"raised", "failed", "iterating", "gathering", "value"}
        /\ r = "failed" => p \notin NonNull
        /\ r = "value" => \A c \in Sub(p) : become[c] \in Done
    BY CompletedFacts DEF IInv
  <2>3. r = "value" => \A c \in Sub(p) : state[c] \in Done
    BY <2>1, <2>2, SubFacts DEF IInv, CoreInv, AtOnceIsFinal
  <2> HIDE DEF r
  <2> QED BY <1>2, <2>1, <2>2, <2>3
<1>4. CASE SourceClosed(p) \/ (Fails(p) /\ Step(p, Completed(p, "error", become), {}))
  <2> DEFINE r == Completed(p, "error", become)
  <2>1. Step(p, r, {})
    BY <1>4 DEF SourceClosed
  <2>2. r \in {"raised", "failed"} /\ (r = "failed" => p \notin NonNull) /\ (p = 0 => r = "failed")
    BY TreeAssumption DEF Completed, Raises
  <2> HIDE DEF r
  <2> QED BY <1>2, <2>1, <2>2 DEF RootStates
<1>5. CASE Collect(p)
  <2>1. (\A c \in Sub(p) : state[c] \in Done) /\ \E r \in {"cancelled", "value"} : Step(p, r, {})
    BY <1>5 DEF Collect
  <2> QED BY <1>2, <2>1 DEF RootStates
<1>6. CASE Fails(p) /\ Step(p, "cancelled", {})
  BY <1>2, <1>6 DEF RootStates
<1>7. Fails(p) => Step(p, "cancelled", {}) \/ Step(p, Completed(p, "error", become), {})
  BY DEF Fails
<1> QED BY <1>3, <1>4, <1>5, <1>6, <1>7

-----------------------------------------------------------------------------
(* The theorems.                                                            *)

LEMMA NextInv == ASSUME IInv, [Next]_vars PROVE IInv' /\ (Built => nulled' = nulled)
<1>1. ASSUME UNCHANGED <<given, state, nulled, work, sent, doomed, running, background>>,
             aborted' \in BOOLEAN, outcome' \in {"pending", "result", "aborted", "raised"},
             hook' \in {"none", "waiting", "run"}
      PROVE  IInv' /\ (Built => nulled' = nulled)
  <2>1. given' = given /\ state' = state /\ nulled' = nulled /\ work' = work
    BY <1>1
  <2>2. CoreInv'
    BY <2>1, GivenKept
       DEF IInv, CoreInv, ReachedDown, Reached, ValueIsWhole, AtOnceIsFinal, NonNullIsKept,
           NulledFailed, HasNulled, WorkIsReached
  <2>3. RootsInOrder'
    BY <2>1 DEF IInv, RootsInOrder, given
  <2>4. WorkHasParent' /\ RestInv'
    BY <1>1 DEF IInv, WorkHasParent, Built, InData, RestInv
  <2> QED BY <2>1, <2>2, <2>3, <2>4 DEF IInv
<1>2. CASE Start \/ SerialNext
  BY <1>2, StartInv, SerialNextInv
<1>3. CASE StartAborted
  <2> 0 \in Positions
    BY PositionsAreNat
  <2>1. /\ state[0] = "idle" /\ state' = [state EXCEPT ![0] = "rejected"]
        /\ UNCHANGED <<given, nulled, work, sent, doomed, running, background, aborted>>
        /\ hook' = "run" /\ outcome' = "raised"
    BY <1>3 DEF StartAborted
  <2>2. Given' /\ become' = become
    BY <2>1, GivenKept DEF IInv, CoreInv
  <2>3. state \in [Positions -> States] /\ "rejected" \in States
    BY StatesHold DEF IInv, CoreInv
  <2>4. state' \in [Positions -> States] /\ state'[0] = "rejected"
        /\ \A q \in Positions : q # 0 => state'[q] = state[q]
    BY <2>1, <2>3
  <2>5. CoreInv'
    <3>1. ReachedDown'
      BY <2>4, ParentIsBefore, PositionsAreNat DEF IInv, CoreInv, ReachedDown, Reached
    <3>2. ValueIsWhole'
      BY <2>4, SubFacts, PositionsAreNat DEF IInv, CoreInv, ValueIsWhole
    <3>3. AtOnceIsFinal' /\ NonNullIsKept'
      BY <2>2, <2>4, PositionsAreNat, TreeAssumption DEF IInv, CoreInv, AtOnceIsFinal, NonNullIsKept
    <3>4. NulledFailed'
      BY <2>1, <2>4 DEF IInv, CoreInv, NulledFailed, HasNulled
    <3>5. WorkIsReached'
      BY <2>1, <2>4, TreeAssumption DEF IInv, CoreInv, WorkIsReached, Reached
    <3> QED BY <2>2, <2>4, <3>1, <3>2, <3>3, <3>4, <3>5 DEF CoreInv, RootStates
  <2>6. RootsInOrder'
    BY <2>1, <2>4, SubFacts, PositionsAreNat DEF IInv, RootsInOrder, given
  <2>7. RestInv' /\ WorkHasParent'
    BY <2>1, <2>4 DEF IInv, RestInv, WorkHasParent, Built
  <2> QED BY <2>1, <2>5, <2>6, <2>7 DEF IInv
<1>4. CASE Deliver \/ RunHook \/ Abort \/ UNCHANGED vars
  BY <1>1, <1>4 DEF Deliver, RunHook, Abort, vars, IInv, RestInv
<1>5. ASSUME NEW p \in Positions, Coroutine(p) \/ Resolver(p) \/ Source(p)
      PROVE  IInv' /\ (Built => nulled' = nulled)
  BY <1>5, EndingActions, ResolvedInv, NextItemInv, EndOfPositionInv DEF Coroutine, Resolver, Source
<1> QED BY <1>2, <1>3, <1>4, <1>5 DEF Next, Progress

LEMMA InitInv == Init => IInv
<1> SUFFICES ASSUME Init PROVE IInv
  OBVIOUS
<1>1. Given
  BY AtOnceRuleHolds DEF Init, Given, AtOnceRule
<1>2. state = [p \in Positions |-> "idle"] /\ nulled = {} /\ work = {} /\ sent = {}
  BY DEF Init
<1>3. CoreInv
  BY <1>1, <1>2, PositionsAreNat, ParentIsBefore, TreeAssumption
     DEF CoreInv, States, RootStates, ReachedDown, Reached, ValueIsWhole, AtOnceIsFinal,
         NonNullIsKept, NulledFailed, WorkIsReached
<1>4. RootsInOrder
  BY <1>2, SubFacts, PositionsAreNat DEF RootsInOrder
<1>5. RestInv /\ WorkHasParent
  BY <1>2, PositionsAreNat DEF Init, RestInv, WorkHasParent, Built
<1> QED BY <1>3, <1>4, <1>5 DEF IInv

LEMMA ExecutionInvariance == Spec => []IInv
BY NextInv, InitInv, PTL DEF Spec

\* The variables keep their types, for any response tree and any resolvers.
THEOREM TypeCorrect == Spec => []TypeOK
<1>1. IInv => TypeOK
  <2> SUFFICES ASSUME IInv PROVE TypeOK
    OBVIOUS
  <2>1. become \in [1..N -> Done \cup {"raised", "waiting", "gathering", "iterating"}]
    BY AtOnceType DEF IInv, CoreInv, AtOnceStates
  <2>2. nulled \subseteq Positions /\ work \subseteq Deferred
    BY DEF IInv, CoreInv, NulledFailed, WorkIsReached
  <2> QED BY <2>1, <2>2 DEF TypeOK, IInv, CoreInv, Given, RestInv, States
<1> QED BY <1>1, ExecutionInvariance, PTL

\* The response is well-formed, whatever resolvers answer, raise and when: every
\* position in the data is complete, none with a non-null type is null, and those
\* null for an error are those reported (complete_value, handle_field_error).
THEOREM ResponseIsSoundHolds == Spec => []ResponseIsSound
<1>1. IInv => ResponseIsSound
  BY CoreIsSound DEF IInv
<1> QED BY <1>1, ExecutionInvariance, PTL

\* The deferred fragments announced with the initial result are those whose position
\* the client finds in the data (get_incremental_work).
THEOREM WorkHasParentHolds == Spec => []WorkHasParent
<1>1. IInv => WorkHasParent
  BY DEF IInv
<1> QED BY <1>1, ExecutionInvariance, PTL

\* A root field of a mutation, or anything below it, is only executed when those
\* before it are complete (execute_fields_serially).
THEOREM SerialOrderHolds == Spec => []SerialOrder
<1>1. ASSUME IInv PROVE SerialOrder
  <2> SUFFICES ASSUME serial, NEW c \in Sub(0), NEW d \in Sub(0), c < d,
                      NEW q \in {d} \cup Below(d), state[q] # "idle"
               PROVE  Complete(c)
    BY DEF SerialOrder
  <2>1. d \in Positions /\ d # 0
    BY SubFacts, PositionsAreNat
  <2>2. state[d] # "idle"
    <3>1. CASE q = d
      BY <3>1
    <3>2. CASE q \in Below(d)
      <4>1. q \in Positions /\ d \in Above[q]
        BY <3>2 DEF Below
      <4>2. q # 0
        BY <2>1, <4>1, AboveIsBefore, PositionsAreNat
      <4> QED BY <1>1, <4>1, <4>2, ReachedAbove DEF IInv, Reached
    <3> QED BY <3>1, <3>2
  <2>3. state[c] \in Done
    BY <1>1, <2>2 DEF IInv, RootsInOrder
  <2>4. ASSUME NEW b \in Below(c), \A a \in Above[b] \ {0} : state[a] = "value"
        PROVE  state[b] \in Done
    <3>1. b \in Positions /\ c \in Above[b] /\ c \in Positions \ {0}
      BY SubFacts, PositionsAreNat DEF Below
    <3>2. b # 0
      BY <3>1, AboveIsBefore, PositionsAreNat
    <3>3. /\ Parent[b] \in Above[b] /\ Parent[b] \in Positions /\ b \in Sub(Parent[b])
          /\ Above[b] = {Parent[b]} \cup Above[Parent[b]]
      BY <3>1, <3>2, AboveIsClosed, AboveParent, PositionsAreNat DEF Sub
    <3>4. Parent[b] # 0
      BY <3>1, <3>3, AboveIsBefore, PositionsAreNat
    <3>5. state[Parent[b]] = "value"
      BY <2>4, <3>3, <3>4
    <3> QED BY <1>1, <3>3, <3>5 DEF IInv, CoreInv, ValueIsWhole
  <2> QED BY <2>3, <2>4 DEF Complete
<1> QED BY <1>1, ExecutionInvariance, PTL

\* The list of errors is final when the response is built, although siblings of a nulled
\* position are still running (CollectedErrors, settle_in_background).
THEOREM ErrorsAreFinalHolds == Spec => ErrorsAreFinal
<1>1. IInv /\ [Next]_vars => [Built => nulled' = nulled]_vars
  BY NextInv
<1> QED BY <1>1, ExecutionInvariance, PTL DEF Spec, ErrorsAreFinal

-----------------------------------------------------------------------------
(* After an abort.                                                          *)

\* Every position has a state, whatever is visited, drained or completed.
StateTotal == state = [p \in Positions |-> state[p]]

\* A step that completes p and visits V touches these positions, and nothing else but
\* items that are drained; and it drains none when it visits none.
LEMMA StepTouches ==
  ASSUME StateTotal, NEW p \in Positions, NEW r, NEW V \in SUBSET Positions, Step(p, r, V)
  PROVE  /\ StateTotal'
         /\ V = {} => \A q \in Positions \ {p} : state'[q] = state[q]
<1>1. PICK new : /\ DOMAIN new = {p} \cup V
                 /\ state' = [q \in Positions |-> IF q \in DOMAIN new THEN new[q]
                                                  ELSE IF q \in Drained(V) THEN "drained"
                                                  ELSE state[q]]
  BY DEF Step
<1>2. StateTotal'
  BY <1>1 DEF StateTotal
<1>3. ASSUME V = {}, NEW q \in Positions \ {p} PROVE state'[q] = state[q]
  <2>1. Drained(V) = {}
    BY <1>3 DEF Drained, RaisedBeside
  <2> QED BY <1>1, <1>3, <2>1
<1> QED BY <1>2, <1>3

LEMMA VisitedPositions ==
  ASSUME NEW F
  PROVE  Visited(F) \in SUBSET Positions /\ Visited({}) = {}
BY DEF Visited

LEMMA InitTotal == Init => StateTotal
BY DEF Init, StateTotal

\* No step after an abort executes a position that was idle, but the root.
NoCall == aborted => \A p \in Positions : state[p] = "idle" => state'[p] = "idle" \/ p = 0

LEMMA StepTotal == StateTotal /\ [Next]_vars => StateTotal' /\ NoCall
<1> SUFFICES ASSUME StateTotal, [Next]_vars PROVE StateTotal' /\ NoCall
  OBVIOUS
<1> 0 \in Positions
  BY TreeAssumption DEF Positions
<1> DEFINE Goal == StateTotal' /\ NoCall
<1>1. CASE UNCHANGED state
  BY <1>1 DEF StateTotal, NoCall
<1>2. ASSUME NEW p \in Positions, NEW s, p = 0 \/ state[p] # "idle",
             state' = [state EXCEPT ![p] = s]
      PROVE  Goal
  BY <1>2 DEF StateTotal, NoCall
<1>3. ASSUME NEW p \in Positions, NEW r, NEW V \in SUBSET Positions, Step(p, r, V),
             p = 0 \/ state[p] # "idle", aborted => V = {}
      PROVE  Goal
  BY <1>3, StepTouches DEF NoCall
<1>4. CASE Start
  BY <1>3, <1>4, VisitedPositions DEF Start
<1>5. CASE StartAborted
  BY <1>2, <1>5 DEF StartAborted
<1>6. CASE SerialNext
  <2>1. PICK last \in Sub(0) :
          \E V \in {Visited(SerialFields(last + 1))} : Step(0, SerialResult(last + 1), V)
    BY <1>6 DEF SerialNext
  <2> DEFINE V == Visited(SerialFields(last + 1))
  <2>2. Step(0, SerialResult(last + 1), V) /\ V \in SUBSET Positions
    BY <2>1, VisitedPositions
  <2>3. aborted => V = {}
    BY VisitedPositions DEF SerialFields
  <2> HIDE DEF V
  <2> QED BY <1>3, <2>2, <2>3
<1>7. CASE Deliver \/ RunHook \/ Abort
  BY <1>1, <1>7 DEF Deliver, RunHook, Abort
<1>8. ASSUME NEW p \in Positions, Resolved(p) PROVE Goal
  <2>1. PICK a \in Arriving(p), V \in SUBSET Positions :
          /\ V = IF a = "value" THEN Visited(Executed(p)) ELSE {}
          /\ Step(p, Completed(p, a, become), V)
    BY <1>8, VisitedPositions DEF Resolved
  <2>2. aborted => V = {}
    BY <2>1 DEF Arriving
  <2>3. state[p] # "idle"
    BY <1>8 DEF Resolved
  <2> QED BY <1>3, <2>1, <2>2, <2>3
<1>9. ASSUME NEW p \in Positions,
             WorkEnds(p) \/ SiblingFails(p) \/ CancelSpreads(p) \/ SourceFails(p)
      PROVE  Goal
  BY <1>2, <1>9 DEF WorkEnds, SiblingFails, CancelSpreads, SourceFails
<1>10. ASSUME NEW p \in Positions, Collect(p) \/ Fails(p) \/ NoMoreItems(p) \/ SourceClosed(p)
       PROVE  Goal
  <2>1. state[p] # "idle" /\ \E r : Step(p, r, {})
    BY <1>10 DEF Collect, Fails, NoMoreItems, SourceClosed
  <2> QED BY <1>3, <2>1
<1>11. ASSUME NEW p \in Positions, NextItem(p) PROVE Goal
  <2>1. PICK V \in SUBSET Positions : \E r : Step(p, r, V)
    BY <1>11, VisitedPositions DEF NextItem
  <2>2. state[p] # "idle" /\ ~aborted
    BY <1>11 DEF NextItem
  <2> QED BY <1>3, <2>1, <2>2
<1>12. ASSUME NEW p \in Positions, Interrupted(p) PROVE Goal
  <2>1. \A q \in {p} \cup Holds(p) : state[q] # "idle"
    <3>1. state[p] # "idle"
      BY <1>12 DEF Interrupted, Iterating
    <3> QED BY <3>1, HeldIsUnfinished DEF Unfinished, Iterating
  <2> QED BY <1>12, <2>1 DEF Interrupted, StateTotal, NoCall
<1> QED BY <1>1, <1>4, <1>5, <1>6, <1>7, <1>8, <1>9, <1>10, <1>11, <1>12
        DEF Next, Progress, Coroutine, Resolver, Source, vars

\* Once the signal has been triggered, no coroutine goes on to execute fields: a late
\* answer is discarded (with_abort_signal, execute_fields_serially).
THEOREM NoCallAfterAbortHolds == Spec => NoCallAfterAbort
<1>1. StateTotal /\ [Next]_vars => [NoCall]_vars
  BY StepTotal
<1>2. StateTotal /\ [Next]_vars => StateTotal'
  BY StepTotal
<1> QED BY <1>1, <1>2, InitTotal, PTL DEF Spec, NoCallAfterAbort, NoCall
=============================================================================
