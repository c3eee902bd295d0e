------------------------- MODULE WorkQueueOrderProofs -------------------------
(***************************************************************************)
(* Groups are announced from the outside in, and what is reported as       *)
(* successful is complete, for every forest of groups, every assignment of *)
(* tasks to groups, and any number of streams.                             *)
(***************************************************************************)
EXTENDS WorkQueueProofs

-----------------------------------------------------------------------------
(* The forest.                                                              *)

LEMMA ParentIsAncestor ==
  ASSUME NEW g \in Groups, Parent[g] \in Groups
  PROVE  Parent[g] \in Ancestors[g]
BY DEF Ancestors

\* Whatever contains the parent of g, and parents with their children, contains the
\* ancestors of g.
LEMMA AncestorsWithin ==
  ASSUME NEW g \in Groups, NEW S \in SUBSET Groups,
         Parent[g] \in Groups => Parent[g] \in S,
         \A h \in S : Parent[h] \in Groups => Parent[h] \in S
  PROVE  Ancestors[g] \subseteq S
BY DEF Ancestors

LEMMA AncestorsAreGroups ==
  ASSUME NEW g \in Groups
  PROVE  /\ Ancestors[g] \subseteq Groups
         /\ \A h \in Ancestors[g] : Parent[h] \in Groups => Parent[h] \in Ancestors[g]
BY DEF Ancestors

LEMMA AncestorsOfParent ==
  ASSUME NEW g \in Groups, Parent[g] \in Groups
  PROVE  Ancestors[g] = {Parent[g]} \cup Ancestors[Parent[g]]
<1> DEFINE p == Parent[g]
           S == {p} \cup Ancestors[p]
<1>1. \A h \in S : Parent[h] \in Groups => Parent[h] \in S
  BY ParentIsAncestor, AncestorsAreGroups
<1>2. Ancestors[g] \subseteq S
  <2>1. S \in SUBSET Groups /\ p \in S
    BY AncestorsAreGroups
  <2> HIDE DEF S
  <2> QED BY <1>1, <2>1, AncestorsWithin
<1>3. p \in Ancestors[g] /\ Ancestors[p] \subseteq Ancestors[g]
  <2>1. p \in Ancestors[g]
    BY ParentIsAncestor
  <2>2. \A h \in Ancestors[g] : Parent[h] \in Groups => Parent[h] \in Ancestors[g]
    BY AncestorsAreGroups
  <2>3. Ancestors[g] \in SUBSET Groups
    BY AncestorsAreGroups
  <2> QED BY <2>1, <2>2, <2>3, AncestorsWithin
<1> QED BY <1>2, <1>3

LEMMA AncestorsOfRoot ==
  ASSUME NEW g \in Groups, Parent[g] \notin Groups
  PROVE  Ancestors[g] = {}
<1> DEFINE none == {}
<1>1. none \in SUBSET Groups /\ \A h \in none : Parent[h] \in Groups => Parent[h] \in none
  OBVIOUS
<1> HIDE DEF none
<1>2. Ancestors[g] \subseteq none
  BY <1>1, AncestorsWithin
<1> QED BY <1>2 DEF none

LEMMA AncestorsAreTransitive ==
  ASSUME NEW g \in Groups, NEW h \in Ancestors[g]
  PROVE  Ancestors[h] \subseteq Ancestors[g]
BY AncestorsAreGroups, AncestorsWithin

-----------------------------------------------------------------------------
(* What a recursion over the child groups reaches.                          *)

Linked(gr) == \A p \in Groups : \A c \in gr.children[p] : Parent[c] = p

\* If the ancestors of the groups of S, and all that is reached from there, belong to C,
\* then so do the ancestors of what is reached.
LEMMA ReachedWithin ==
  ASSUME NEW gr \in Graph, Linked(gr), NEW U \in SUBSET Groups, NEW S \in SUBSET Groups,
         NEW C, \A s \in S : Ancestors[s] \subseteq C, Reached(gr, U, S) \subseteq C
  PROVE  \A h \in Reached(gr, U, S) : Ancestors[h] \subseteq C
<1> DEFINE E == Reached(gr, U, S)
           R == {h \in E : Ancestors[h] \subseteq C}
<1>1. S \cap U \subseteq E
  BY DEF Reached
<1>2. \A r \in E : gr.children[r] \cap U \subseteq E
  BY DEF Reached
<1>3. E \subseteq U
  BY DEF Reached
<1>4. S \cap U \subseteq R
  BY <1>1
<1>5. ASSUME NEW r \in R, NEW c \in gr.children[r] \cap U PROVE c \in R
  <2>1. c \in E /\ r \in E /\ r \in Groups /\ c \in Groups
    BY <1>2, <1>3, <1>5
  <2>2. Parent[c] = r
    BY <1>5, <2>1 DEF Linked
  <2>3. Ancestors[c] = {r} \cup Ancestors[r]
    BY <2>1, <2>2, AncestorsOfParent
  <2> QED BY <2>1, <2>3
<1>6. R \in SUBSET U
  BY <1>3
<1>7. E \subseteq R
  <2> HIDE DEF R
  <2> QED BY <1>4, <1>5, <1>6 DEF Reached
<1> QED BY <1>7

\* What is reached from S is in S, or below it.
LEMMA ReachedBelow ==
  ASSUME NEW gr \in Graph, Linked(gr), NEW U \in SUBSET Groups, NEW S \in SUBSET Groups
  PROVE  \A h \in Reached(gr, U, S) : h \in U /\ (h \in S \/ S \cap Ancestors[h] # {})
<1> DEFINE E == Reached(gr, U, S)
           R == {h \in U : h \in S \/ S \cap Ancestors[h] # {}}
<1>1. S \cap U \subseteq R
  OBVIOUS
<1>2. ASSUME NEW r \in R, NEW c \in gr.children[r] \cap U PROVE c \in R
  <2>1. Parent[c] = r /\ r \in Groups /\ c \in Groups
    BY <1>2 DEF Linked
  <2>2. Ancestors[c] = {r} \cup Ancestors[r]
    BY <2>1, AncestorsOfParent
  <2> QED BY <2>2
<1>3. R \in SUBSET U
  OBVIOUS
<1>4. E \subseteq R
  <2> HIDE DEF R
  <2> QED BY <1>1, <1>2, <1>3 DEF Reached
<1> QED BY <1>4

\* What is promoted stays, is in S or below a group that is pruned, and inherits from both.
LEMMA PromotedWithin ==
  ASSUME NEW gr \in Graph, Linked(gr), NEW S \in SUBSET Groups,
         NEW C, \A s \in S : Ancestors[s] \subseteq C, Empty(gr, S) \subseteq C
  PROVE  \A g \in Promoted(gr, S) : g \in gr.nodes \ Empty(gr, S) /\ Ancestors[g] \subseteq C
<1> DEFINE U == {g \in gr.nodes : gr.pending[g] = 0}
<1>1. U \in SUBSET Groups
  BY DEF Graph
<1>2. Empty(gr, S) = Reached(gr, U, S) /\ Empty(gr, S) \subseteq U
  BY DEF Empty, Reached
<1>3. \A e \in Empty(gr, S) : Ancestors[e] \subseteq C
  BY <1>1, <1>2, ReachedWithin
<1> SUFFICES ASSUME NEW g \in Promoted(gr, S)
             PROVE  g \in gr.nodes \ Empty(gr, S) /\ Ancestors[g] \subseteq C
  OBVIOUS
<1>4. g \in gr.nodes /\ gr.pending[g] # 0 /\ (g \in S \/ \E e \in Empty(gr, S) : g \in gr.children[e])
  BY DEF Promoted
<1>5. g \notin Empty(gr, S)
  BY <1>2, <1>4
<1>6. ASSUME NEW e \in Empty(gr, S), g \in gr.children[e] PROVE Ancestors[g] \subseteq C
  <2>1. e \in Groups /\ g \in Groups /\ Parent[g] = e
    BY <1>1, <1>2, <1>4, <1>6 DEF Linked, Graph
  <2>2. Ancestors[g] = {e} \cup Ancestors[e]
    BY <2>1, AncestorsOfParent
  <2> QED BY <1>3, <2>2
<1> QED BY <1>4, <1>5, <1>6

-----------------------------------------------------------------------------
(* The invariant.                                                           *)

\* The outcome of a task has been handled: it does not produce any work any more.
Handled(t) == Settled(comp, t) /\ \A i \in DOMAIN channel : channel[i].node # t

Cleared(g) == \A t \in Tasks : comp[t] # "none" /\ g \in GroupsOf[t] => Handled(t)

MadeIsClosed == \A g \in made : Ancestors[g] \subseteq made

\* The groups that are announced, or reported as successful.
Reported == rootGroups \cup (succeeded \cap Groups)

AncestorsAreCleared ==
  \A g \in Reported : g \in made /\ \A a \in Ancestors[g] : Cleared(a)

OrderInv == /\ MadeIsClosed
            /\ Linked(graph)
            /\ RootsAreOutermost
            /\ AncestorsAreCleared
            /\ SuccessIsComplete

SInv == IInv /\ OrderInv

\* What is valued or delivered has been handled.
LEMMA DeliveredIsHandled ==
  ASSUME IInv
  PROVE  \A t \in Tasks : t \in valued \cup delivered => Handled(t)
BY DEF IInv, GraphIsConsistent, OutcomesAreUnique, Handled, Settled

HandledStays == \A t \in Tasks : Handled(t) => Handled(t)'

\* A step that leaves the groups alone.
LEMMA QuietOrder ==
  ASSUME SInv, HandledStays,
         UNCHANGED <<graph, rootGroups, made, delivered>>,
         succeeded' \cap Groups = succeeded \cap Groups,
         \A t \in Tasks : comp'[t] = "none" <=> comp[t] = "none"
  PROVE  OrderInv'
<1> USE DEF SInv, OrderInv
<1>1. \A g : Cleared(g) => Cleared(g)'
  BY DEF Cleared, HandledStays
<1>2. Reported' = Reported
  BY DEF Reported
<1>3. AncestorsAreCleared'
  BY <1>1, <1>2 DEF AncestorsAreCleared
<1>4. MadeIsClosed' /\ Linked(graph)' /\ RootsAreOutermost'
  BY DEF MadeIsClosed, Linked, RootsAreOutermost
<1>5. SuccessIsComplete'
  BY DEF SuccessIsComplete
<1> QED BY <1>3, <1>4, <1>5

-----------------------------------------------------------------------------
(* What has been handled stays so.                                          *)

LEMMA TailStays ==
  ASSUME NEW ch \in Seq(GraphEvents), ch # <<>>, NEW t,
         \A i \in DOMAIN ch : ch[i].node # t
  PROVE  \A i \in DOMAIN Tail(ch) : Tail(ch)[i].node # t
<1>1. \A i \in DOMAIN Tail(ch) : i + 1 \in DOMAIN ch /\ Tail(ch)[i] = ch[i + 1]
  OBVIOUS
<1> QED BY <1>1

LEMMA AppendStays ==
  ASSUME NEW ch \in Seq(GraphEvents), NEW e \in GraphEvents, NEW t,
         e.node # t, \A i \in DOMAIN ch : ch[i].node # t
  PROVE  \A i \in DOMAIN Append(ch, e) : Append(ch, e)[i].node # t
<1>1. \A i \in DOMAIN Append(ch, e) :
         (i \in DOMAIN ch /\ Append(ch, e)[i] = ch[i]) \/ Append(ch, e)[i] = e
  OBVIOUS
<1> QED BY <1>1

\* Starting other tasks pushes no outcome of t.
LEMMA StartStays ==
  ASSUME NEW T \in SUBSET Tasks, NEW c, NEW ch \in Seq(GraphEvents), StartTasks(T, c, ch),
         NEW t \in Tasks \ T, Settled(c, t), \A i \in DOMAIN ch : ch[i].node # t
  PROVE  Handled(t)'
<1>1. PICK answer \in [T -> {"ok", "err", "running"}] :
        /\ comp' = [u \in Tasks |-> IF u \in T THEN answer[u] ELSE c[u]]
        /\ \E order \in Orders({u \in T : answer[u] # "running"}) :
              channel' = IF stopped THEN ch
                         ELSE ch \o [i \in DOMAIN order |->
                                      [kind |-> answer[order[i]], node |-> order[i]]]
  BY DEF StartTasks
<1> DEFINE S == {u \in T : answer[u] # "running"}
<1>2. PICK order \in Orders(S) :
        channel' = IF stopped THEN ch
                   ELSE ch \o [i \in DOMAIN order |->
                                [kind |-> answer[order[i]], node |-> order[i]]]
  BY <1>1
<1>3. Settled(comp', t)
  BY <1>1 DEF Settled
<1> DEFINE more == [i \in DOMAIN order |-> [kind |-> answer[order[i]], node |-> order[i]]]
<1>4. IsFiniteSet(S)
  BY TasksAreFinite
<1>5. Cardinality(S) \in Nat /\ DOMAIN order = 1..Cardinality(S)
      /\ \A i \in DOMAIN order : order[i] \in S
  BY <1>4, OrdersAreSequences
<1>6. more \in Seq(GraphEvents)
  <2> DEFINE n == Cardinality(S)
  <2>1. \A i \in 1..n : [kind |-> answer[order[i]], node |-> order[i]] \in GraphEvents
    BY <1>5 DEF GraphEvents
  <2>2. n \in Nat /\ DOMAIN order = 1..n
    BY <1>5
  <2> HIDE DEF S, n
  <2>3. more \in [1..n -> GraphEvents]
    BY <2>1, <2>2
  <2> QED BY <2>2, <2>3
<1>7. \A i \in DOMAIN more : more[i].node # t
  BY <1>5
<1> HIDE DEF more
<1>8. \A i \in DOMAIN (ch \o more) : (i \in DOMAIN ch /\ (ch \o more)[i] = ch[i])
                                     \/ \E j \in DOMAIN more : (ch \o more)[i] = more[j]
  BY <1>6
<1>9. \A i \in DOMAIN channel' : channel'[i].node # t
  BY <1>2, <1>7, <1>8 DEF more
<1> QED BY <1>3, <1>9 DEF Handled, Settled

\* Nothing is produced, or taken back, by a start.
LEMMA StartedExist ==
  ASSUME NEW T \in SUBSET Tasks, NEW c, NEW ch, StartTasks(T, c, ch), \A u \in T : c[u] # "none"
  PROVE  Existing' = {u \in Tasks : c[u] # "none"}
BY DEF StartTasks, Existing

-----------------------------------------------------------------------------
(* The steps that leave the groups alone.                                   *)

\* Steps that settle nothing, and take an event or push one that is no outcome.
LEMMA ChannelStays ==
  ASSUME IInv, \A t \in Tasks : Settled(comp, t) => Settled(comp', t),
         \/ channel' = channel
         \/ channel # <<>> /\ channel' = Tail(channel)
         \/ \E e \in GraphEvents : e.node \notin Tasks /\ channel' = Append(channel, e)
  PROVE  HandledStays
<1>1. channel \in Seq(GraphEvents)
  BY DEF IInv, TypeOK
<1> SUFFICES ASSUME NEW t \in Tasks, Handled(t)
             PROVE  \A i \in DOMAIN channel' : channel'[i].node # t
  BY DEF HandledStays, Handled, Settled
<1> QED BY <1>1, TailStays, AppendStays DEF Handled

LEMMA SettleTaskOrder == ASSUME SInv, NEW t \in Tasks, SettleTask(t) PROVE OrderInv'
<1>1. comp \in [Tasks -> CompStates] /\ channel \in Seq(GraphEvents)
  BY DEF SInv, IInv, TypeOK
<1>2. ~ Settled(comp, t)
  BY DEF SettleTask, Settled
<1>3. /\ \A u \in Tasks \ {t} : comp'[u] = comp[u]
      /\ \A u \in Tasks : comp'[u] = "none" <=> comp[u] = "none"
      /\ channel' = channel \/ \E e \in GraphEvents : e.node = t /\ channel' = Append(channel, e)
  BY <1>1, EventsAreTyped DEF SettleTask, Push
<1>4. HandledStays
  <2> SUFFICES ASSUME NEW u \in Tasks, Handled(u) PROVE Handled(u)'
    BY DEF HandledStays
  <2>1. u # t
    BY <1>2 DEF Handled
  <2> QED BY <1>1, <1>3, <2>1, AppendStays DEF Handled, Settled
<1> QED BY <1>3, <1>4, QuietOrder DEF SettleTask, graphVars, history

LEMMA PrimeEarlyOrder == ASSUME SInv, NEW t \in Tasks, PrimeEarly(t) PROVE OrderInv'
<1>1. /\ \A u \in Tasks : Settled(comp, u) => Settled(comp', u)
      /\ \A u \in Tasks : comp'[u] = "none" <=> comp[u] = "none"
      /\ channel' = channel
  BY DEF PrimeEarly, loopVars, SInv, IInv, TypeOK, Settled
<1> QED BY <1>1, ChannelStays, QuietOrder DEF SInv, PrimeEarly, graphVars, history

LEMMA PumpOrder ==
  ASSUME SInv, NEW s \in Streams,
         PumpItems(s) \/ PumpSuccess(s) \/ PumpFailure(s) \/ PumpCancelled(s)
  PROVE  OrderInv'
<1>1. UNCHANGED <<graph, rootGroups, made, delivered, succeeded, comp>>
  BY DEF PumpItems, PumpSuccess, PumpFailure, PumpCancelled, graphVars, history
<1>2. \/ channel' = channel
      \/ \E e \in GraphEvents : e.node \notin Tasks /\ channel' = Append(channel, e)
  BY EventsAreTyped, DisjointAssumption
     DEF PumpItems, PumpSuccess, PumpFailure, PumpCancelled, Push, loopVars
<1>3. HandledStays
  BY <1>1, <1>2, ChannelStays DEF SInv
<1> QED BY <1>1, <1>3, QuietOrder

LEMMA LoopOrder == ASSUME SInv, Wake \/ EndBatch \/ Resume \/ UNCHANGED vars PROVE OrderInv'
<1>1. UNCHANGED <<graph, rootGroups, made, delivered, succeeded, comp, channel>>
  BY DEF Wake, EndBatch, Resume, vars, graphVars, asyncVars, loopVars, history
<1>2. HandledStays
  BY <1>1, ChannelStays DEF SInv
<1> QED BY <1>1, <1>2, QuietOrder

LEMMA CancelOrder == ASSUME SInv, CancelWork PROVE OrderInv'
<1>1. /\ UNCHANGED <<graph, rootGroups, made, delivered, succeeded>>
      /\ channel' = Append(channel, STOP)
      /\ comp' = [t \in Tasks |-> IF t \in CancelledTasks /\ comp[t] \in {"idle", "early", "running"}
                                  THEN "aborted" ELSE comp[t]]
  BY DEF CancelWork, WakeUp, graphVars, history
<1>2. /\ \A t \in Tasks : Settled(comp, t) => Settled(comp', t)
      /\ \A t \in Tasks : comp'[t] = "none" <=> comp[t] = "none"
  BY <1>1 DEF Settled
<1>3. STOP \in GraphEvents /\ STOP.node \notin Tasks
  BY EventsAreTyped, DisjointAssumption
<1>4. HandledStays
  BY <1>1, <1>2, <1>3, ChannelStays DEF SInv
<1> QED BY <1>1, <1>2, <1>4, QuietOrder

LEMMA StreamEndOrder ==
  ASSUME SInv, NEW s \in Streams, HandleStreamSuccess(s) \/ HandleStreamFailure(s)
  PROVE  OrderInv'
<1>1. /\ UNCHANGED <<graph, rootGroups, made, delivered, comp>>
      /\ channel # <<>> /\ channel' = Tail(channel)
      /\ succeeded' = succeeded \/ succeeded' = succeeded \cup {s}
  BY DEF HandleStreamSuccess, HandleStreamFailure, Handling, asyncVars
<1>2. succeeded' \cap Groups = succeeded \cap Groups
  BY <1>1, DisjointAssumption
<1>3. HandledStays
  BY <1>1, ChannelStays DEF SInv
<1> QED BY <1>1, <1>2, <1>3, QuietOrder

LEMMA StartEventsOrder == ASSUME SInv, StartEvents PROVE OrderInv'
<1> DEFINE T == RootTasks \ taskNodes
<1>1. /\ UNCHANGED <<graph, rootGroups, made, delivered, succeeded>>
      /\ StartTasks(T, comp, channel)
  BY DEF StartEvents, history
<1>2. /\ graph \in Graph /\ comp \in [Tasks -> CompStates] /\ channel \in Seq(GraphEvents)
      /\ Kept(graph, comp, taskNodes)
      /\ \A g \in rootGroups : g \in graph.nodes
  BY FromInv DEF SInv, IInv, TypeOK, OrderInv, RootsAreOutermost
<1>3. T \in SUBSET Tasks /\ \A t \in T : ~ Begun(comp, t)
  BY <1>2 DEF RootTasks, Kept, Graph
<1>4. HandledStays
  <2> SUFFICES ASSUME NEW t \in Tasks, Handled(t) PROVE Handled(t)'
    BY DEF HandledStays
  <2>1. Settled(comp, t) /\ (\A i \in DOMAIN channel : channel[i].node # t) /\ t \in Tasks \ T
    BY <1>3 DEF Handled, Settled, Begun
  <2> HIDE DEF T
  <2> QED BY <1>1, <1>2, <1>3, <2>1, StartStays
<1>5. \A t \in Tasks : comp'[t] = "none" <=> comp[t] = "none"
  <2>1. PICK answer \in [T -> {"ok", "err", "running"}] :
          /\ \A t \in T : answer[t] \in Answers(comp[t])
          /\ comp' = [t \in Tasks |-> IF t \in T THEN answer[t] ELSE comp[t]]
    BY <1>1 DEF StartTasks
  <2>2. \A t \in T : comp[t] # "none"
    BY <1>2, FromInv DEF SInv, RootTasks, Sound, Entered, Existing
  <2> QED BY <2>1, <2>2
<1> QED BY <1>1, <1>4, <1>5, QuietOrder

-----------------------------------------------------------------------------
(* The failure of a task.                                                   *)

\* A root group that has not failed stays: nothing above it is in the graph.
LEMMA HandleTaskFailureOrder ==
  ASSUME SInv, NEW t \in Tasks, HandleTaskFailure(t)
  PROVE  OrderInv'
<1> DEFINE hit  == GroupsOf[t] \cap graph.nodes
           gone == Subtree(graph, hit)
<1>1. /\ graph' = Remove(graph, gone)
      /\ rootGroups' = rootGroups \ hit
      /\ channel # <<>> /\ channel' = Tail(channel)
      /\ UNCHANGED <<comp, made, succeeded, delivered>>
  BY DEF HandleTaskFailure, asyncVars, Handling
<1>2. /\ graph \in Graph /\ graph.nodes \in SUBSET Groups /\ hit \in SUBSET Groups
      /\ Linked(graph) /\ MadeIsClosed /\ RootsAreOutermost /\ AncestorsAreCleared
      /\ SuccessIsComplete /\ IInv
  BY DEF SInv, IInv, OrderInv, TypeOK, Graph
<1>3. \A h \in gone : h \in hit \/ hit \cap Ancestors[h] # {}
  BY <1>2, ReachedBelow DEF Subtree
<1>4. ASSUME NEW g \in rootGroups' PROVE g \in graph'.nodes /\ graph'.nodes \cap Ancestors[g] = {}
  <2>1. g \in rootGroups /\ g \in graph.nodes /\ graph.nodes \cap Ancestors[g] = {} /\ g \notin hit
    BY <1>1, <1>2, <1>4 DEF RootsAreOutermost
  <2>2. hit \subseteq graph.nodes
    OBVIOUS
  <2> HIDE DEF hit
  <2>3. g \notin gone
    BY <1>3, <2>1, <2>2
  <2>4. graph'.nodes = graph.nodes \ gone
    BY <1>1 DEF Remove
  <2> QED BY <2>1, <2>3, <2>4
<1>5. RootsAreOutermost'
  BY <1>4 DEF RootsAreOutermost
<1>6. Linked(graph)'
  BY <1>1, <1>2 DEF Linked, Remove
<1>7. HandledStays
  BY <1>1, <1>2, ChannelStays
<1>8. \A g : Cleared(g) => Cleared(g)'
  BY <1>1, <1>7 DEF Cleared, HandledStays
<1>9. AncestorsAreCleared'
  <2>1. Reported' \subseteq Reported
    BY <1>1 DEF Reported
  <2> QED BY <1>1, <1>2, <1>8, <2>1 DEF AncestorsAreCleared
<1>10. MadeIsClosed' /\ SuccessIsComplete'
  BY <1>1, <1>2 DEF MadeIsClosed, SuccessIsComplete
<1> QED BY <1>5, <1>6, <1>9, <1>10 DEF OrderInv

-----------------------------------------------------------------------------
(* New work.                                                                *)

LEMMA IntegrateLinked ==
  ASSUME NEW gr \in Graph, NEW work \in Work, Linked(gr)
  PROVE  Linked(Integrate(gr, work))
BY DEF Linked, Integrate, Work, Graph

\* An outcome that is still ahead may add to the group g, or to a group above it.
Unclear(g) == \E a \in {g} \cup Ancestors[g] : ~ Cleared(a)

\* New groups, and the groups of new tasks, are new or such groups, or at the top.
WorkHangs(work) ==
  /\ \A g \in work.groups : \/ Parent[g] = NoGroup
                            \/ Parent[g] \in work.groups
                            \/ Parent[g] \in made /\ Unclear(Parent[g])
  /\ \A u \in work.tasks : \A g \in GroupsOf[u] \cap made : Unclear(g)

\* The groups of new work hang below the groups made before; a new task that belongs to one
\* of those has been produced by a task whose outcome is being handled, in that group or
\* above it.
LEMMA WorkBelow ==
  ASSUME SInv, NEW work,
         work \in RootWork \/ \E t \in Existing : ~ Handled(t) /\ work \in TaskWork(t)
  PROVE  WorkHangs(work)
<1> USE DEF WorkHangs, Unclear
<1>1. CASE work \in RootWork
  <2>1. /\ \A g \in work.groups : Parent[g] \in work.groups \cup {NoGroup}
        /\ \A u \in work.tasks : GroupsOf[u] \subseteq work.groups \cup {NoGroup}
        /\ work.groups \cap made = {}
    BY <1>1 DEF RootWork, WorkIn
  <2>2. NoGroup \notin made
    BY DisjointAssumption DEF SInv, IInv, TypeOK
  <2> QED BY <2>1, <2>2, DisjointAssumption
<1>2. ASSUME NEW t \in Existing, ~ Handled(t), work \in TaskWork(t)
      PROVE  WorkHangs(work)
  <2> DEFINE scope == {g \in made : g \in GroupsOf[t] \/ GroupsOf[t] \cap Ancestors[g] # {}}
  <2>1. /\ \A g \in work.groups : Parent[g] \in work.groups \cup scope
        /\ \A u \in work.tasks : GroupsOf[u] \subseteq work.groups \cup scope
        /\ work.groups \cap made = {}
    BY <1>2 DEF TaskWork, WorkIn
  <2>2. \A a \in GroupsOf[t] : ~ Cleared(a)
    BY <1>2 DEF Cleared, Existing
  <2>3. \A g \in scope : \E a \in {g} \cup Ancestors[g] : ~ Cleared(a)
    BY <2>2
  <2>4. scope \subseteq made
    OBVIOUS
  <2> HIDE DEF scope
  <2> QED BY <2>1, <2>3, <2>4
<1> QED BY <1>1, <1>2

\* What follows for the groups that have been reported.
LEMMA WorkOrder ==
  ASSUME SInv, NEW work \in Work, work.groups \cap made = {}, HandledStays,
         WorkHangs(work), Existing' = Existing \cup work.tasks, made' = made \cup work.groups
  PROVE  /\ MadeIsClosed'
         /\ \A g \in made : work.groups \cap Ancestors[g] = {}
         /\ \A g \in made : ~ Unclear(g) => \A a \in {g} \cup Ancestors[g] : Cleared(a)'
         /\ \A g \in Reported : \A a \in Ancestors[g] : Cleared(a)'
         /\ \A g \in succeeded \cap Groups : \A u \in Existing' :
               g \in GroupsOf[u] => u \in delivered
<1>1. /\ made \subseteq Groups /\ work.groups \subseteq Groups /\ made' \in SUBSET Groups
      /\ rootGroups \subseteq Groups
  BY DEF SInv, IInv, TypeOK, Work
<1>2. /\ MadeIsClosed /\ AncestorsAreCleared /\ SuccessIsComplete /\ IInv
  BY DEF SInv, OrderInv
<1>3. MadeIsClosed'
  <2>1. \A h \in made' : Parent[h] \in Groups => Parent[h] \in made'
    BY <1>1, <1>2, ParentIsAncestor, DisjointAssumption DEF MadeIsClosed, WorkHangs
  <2>2. \A g \in made' : Ancestors[g] \subseteq made'
    BY <1>1, <2>1, AncestorsWithin
  <2> QED BY <2>2 DEF MadeIsClosed
<1>4. \A g \in made : work.groups \cap Ancestors[g] = {}
  BY <1>2 DEF MadeIsClosed
<1>a. \A g \in Groups : ~ Unclear(g) => \A a \in Ancestors[g] : a \in Groups /\ ~ Unclear(a)
  BY AncestorsAreGroups, AncestorsAreTransitive DEF Unclear
<1>b. ASSUME NEW a \in made, ~ Unclear(a) PROVE Cleared(a)'
  <2>1. \A u \in work.tasks : a \notin GroupsOf[u]
    BY <1>b DEF WorkHangs
  <2>2. \A u \in Tasks : comp'[u] # "none" /\ a \in GroupsOf[u] => comp[u] # "none"
    BY <2>1 DEF Existing
  <2>3. Cleared(a)
    BY <1>b DEF Unclear
  <2> QED BY <2>2, <2>3 DEF Cleared, HandledStays
<1>5. ASSUME NEW g \in made, ~ Unclear(g), NEW a \in {g} \cup Ancestors[g] PROVE Cleared(a)'
  <2>1. a \in made /\ ~ Unclear(a)
    BY <1>1, <1>2, <1>a, <1>5 DEF MadeIsClosed
  <2> QED BY <1>b, <2>1
<1>c. ASSUME NEW g \in Reported, NEW a \in Ancestors[g] PROVE Cleared(a)'
  <2>1. g \in made /\ a \in made /\ g \in Groups /\ a \in Groups
    BY <1>1, <1>2, <1>c DEF AncestorsAreCleared, MadeIsClosed
  <2>2. ~ Unclear(a)
    BY <1>2, <1>c, <2>1, AncestorsAreTransitive DEF AncestorsAreCleared, Unclear
  <2> QED BY <1>b, <2>1, <2>2
<1>6. ASSUME NEW g \in succeeded \cap Groups, NEW u \in Existing', g \in GroupsOf[u]
      PROVE  u \in delivered
  <2>1. g \in made /\ \A a \in Ancestors[g] : Cleared(a)
    BY <1>2 DEF AncestorsAreCleared, Reported
  <2>2. \A v \in Tasks : g \in GroupsOf[v] /\ comp[v] # "none" => v \in delivered
    BY <1>2 DEF SuccessIsComplete
  <2>3. Cleared(g)
    BY <1>2, <2>2, DeliveredIsHandled DEF Cleared
  <2>4. u \notin work.tasks
    BY <1>6, <2>1, <2>3 DEF WorkHangs, Unclear
  <2> QED BY <1>6, <2>2, <2>4 DEF Existing
<1> QED BY <1>3, <1>4, <1>5, <1>c, <1>6

\* A group without pending tasks has no outcome ahead.
LEMMA EmptyIsCleared ==
  ASSUME IInv', NEW gr, NEW groups, Sound(gr, groups, Existing', valued', delivered'),
         NEW g \in gr.nodes, gr.pending[g] = 0
  PROVE  Cleared(g)'
<1>1. /\ g \in Groups /\ gr.tasks[g] \subseteq Tasks
  BY DEF Sound, Graph
<1>2. gr.tasks[g] \subseteq valued'
  <2>1. Cardinality(gr.tasks[g] \ valued') = 0
    BY DEF Sound, Counted
  <2>2. IsFiniteSet(gr.tasks[g] \ valued')
    BY <1>1, TasksAreFinite
  <2>3. gr.tasks[g] \ valued' = {}
    BY <2>1, <2>2, FS_EmptySet
  <2> QED BY <2>3
<1>3. \A u \in Tasks : comp'[u] # "none" /\ g \in GroupsOf[u] => u \in valued' \cup delivered'
  BY <1>2 DEF Sound, Entered, Existing
<1>4. \A u \in Tasks : u \in valued' \cup delivered' => Handled(u)'
  BY DEF IInv, GraphIsConsistent, OutcomesAreUnique, Handled, Settled
<1> QED BY <1>3, <1>4 DEF Cleared

\* The outcome being handled is not handled yet.
LEMMA HeadIsUnhandled ==
  ASSUME IInv, NEW kind, NEW t \in Tasks, Handling(kind, t)
  PROVE  t \in Existing /\ ~ Handled(t)
<1>1. channel \in Seq(GraphEvents) /\ channel # <<>> /\ Head(channel).node = t
  BY DEF Handling, IInv, TypeOK
<1>2. 1 \in DOMAIN channel /\ channel[1].node = t
  BY <1>1
<1>3. Settled(comp, t)
  BY HandlingTail
<1> QED BY <1>2, <1>3 DEF Handled, Settled, Existing

\* Pruning a graph with new groups, or with less than before, from the groups S on: the
\* groups that become roots are outermost, and what is above them is cleared.
LEMMA PruneOrder ==
  ASSUME IInv', NEW gr, Linked(gr), NEW S \in SUBSET Groups, NEW groups,
         Sound(gr, groups, Existing', valued', delivered'),
         \A s \in S : /\ Ancestors[s] \cap gr.nodes = {}
                      /\ \A a \in Ancestors[s] : Cleared(a)'
  PROVE  /\ Linked(Prune(gr, S))
         /\ Prune(gr, S).nodes = gr.nodes \ Empty(gr, S)
         /\ \A g \in Promoted(gr, S) : /\ g \in gr.nodes \ Empty(gr, S)
                                       /\ Ancestors[g] \cap (gr.nodes \ Empty(gr, S)) = {}
                                       /\ \A a \in Ancestors[g] : Cleared(a)'
         /\ \A e \in Empty(gr, S) : /\ e \in S \/ S \cap Ancestors[e] # {}
                                    /\ \A a \in {e} \cup Ancestors[e] : Cleared(a)'
<1>1. gr \in Graph /\ gr.nodes \subseteq Groups
  BY DEF Sound, Graph
<1> DEFINE U == {g \in gr.nodes : gr.pending[g] = 0}
           E == Empty(gr, S)
<1>2. U \in SUBSET Groups /\ E = Reached(gr, U, S) /\ E \subseteq U
  BY <1>1 DEF Empty, Reached
<1>3. \A e \in E : e \in S \/ S \cap Ancestors[e] # {}
  BY <1>1, <1>2, ReachedBelow
<1>4. Linked(Prune(gr, S)) /\ Prune(gr, S).nodes = gr.nodes \ E
  BY DEF Prune, Remove, Linked
<1> DEFINE Gone == Groups \ (gr.nodes \ E)
           Clear == {g \in Groups : Cleared(g)'}
<1>5. \A s \in S : Ancestors[s] \subseteq Gone /\ Ancestors[s] \subseteq Clear
  BY AncestorsAreGroups
<1>6. E \subseteq Gone
  BY <1>2
<1>7. E \subseteq Clear
  BY <1>2, EmptyIsCleared
<1>a. \A e \in E : Ancestors[e] \subseteq Clear
  <2> HIDE DEF U, E, Clear
  <2> QED BY <1>1, <1>2, <1>5, <1>7, ReachedWithin
<1> HIDE DEF E, Gone, Clear
<1>8. \A g \in Promoted(gr, S) : /\ g \in gr.nodes \ E
                                 /\ Ancestors[g] \subseteq Gone /\ Ancestors[g] \subseteq Clear
  BY <1>1, <1>5, <1>6, <1>7, PromotedWithin DEF E
<1> QED BY <1>3, <1>4, <1>7, <1>8, <1>a DEF E, Gone, Clear

-----------------------------------------------------------------------------
(* Handlers that take in new work. *)

\* What a handler does that takes in new work: it finishes the groups fin, leaves the graph gr,
\* prunes it from the groups of Openings on, and starts the tasks T.
TakesIn(work) ==
  /\ work \in Work /\ work.groups \cap made = {} /\ work.tasks \cap Existing = {}
  /\ WorkHangs(work)
  /\ made' = made \cup work.groups /\ Existing' = Existing \cup work.tasks
  /\ HandledStays

ChildrenWith(work, g) == graph.children[g] \cup {c \in work.groups : Parent[c] = g}
Openings(work, fin) == {g \in work.groups : Parent[g] = NoGroup}
                         \cup UNION {ChildrenWith(work, f) : f \in fin}

Starts(work, T) ==
  /\ T \in SUBSET Existing' /\ \A u \in T : ~ Begun(Produced(work), u) /\ Begun(comp', u)
  /\ \A u \in Tasks \ T : comp'[u] = Produced(work)[u]
  /\ \A u \in T : GroupsOf[u] \cap rootGroups' # {}

Grows(work, fin, gr, T) ==
  /\ TakesIn(work) /\ Starts(work, T)
  /\ fin \subseteq rootGroups /\ \A f \in fin : \A u \in Existing' : f \in GroupsOf[u] => u \in delivered'
  /\ delivered \subseteq delivered' /\ valued \cup delivered \subseteq valued' \cup delivered'
  /\ succeeded' \cap Groups = (succeeded \cap Groups) \cup fin
  /\ Sound(gr, made', Existing', valued', delivered') /\ Linked(gr)
  /\ gr.nodes = (graph.nodes \cup work.groups) \ fin
  /\ \A g \in gr.nodes : gr.children[g] = ChildrenWith(work, g)
  /\ \A g \in rootGroups \ fin : /\ graph.pending[g] # 0 => gr.pending[g] # 0
                                 /\ gr.tasks[g] \subseteq graph.tasks[g] \cup T
  /\ \A g \in Promoted(gr, Openings(work, fin)) : gr.tasks[g] \subseteq taskNodes \cup T
  /\ graph' = Prune(gr, Openings(work, fin))
  /\ rootGroups' = (rootGroups \ fin) \cup Promoted(gr, Openings(work, fin))

\* The groups that are opened, and what is pruned and promoted from there.
LEMMA GrowsFacts ==
  ASSUME SInv, IInv', NEW work, NEW fin, NEW gr, NEW T, Grows(work, fin, gr, T)
  PROVE  LET S == Openings(work, fin)
         IN  /\ MadeIsClosed' /\ S \in SUBSET Groups
             /\ \A g \in made : work.groups \cap Ancestors[g] = {}
             /\ \A g \in made : ~ Unclear(g) => \A a \in {g} \cup Ancestors[g] : Cleared(a)'
             /\ \A g \in succeeded \cap Groups : \A u \in Existing' :
                   g \in GroupsOf[u] => u \in delivered
             /\ \A f \in fin : /\ f \in graph.nodes /\ f \in made /\ graph.nodes \cap Ancestors[f] = {}
                               /\ \A a \in {f} \cup Ancestors[f] : Cleared(a)'
             /\ \A c \in S : \/ c \in work.groups /\ Ancestors[c] = {}
                            \/ \E f \in fin : Ancestors[c] = {f} \cup Ancestors[f]
             /\ Linked(graph)' /\ graph'.nodes = gr.nodes \ Empty(gr, S)
             /\ \A g \in Promoted(gr, S) : /\ g \in gr.nodes \ Empty(gr, S)
                                           /\ Ancestors[g] \cap (gr.nodes \ Empty(gr, S)) = {}
                                           /\ \A a \in Ancestors[g] : Cleared(a)'
             /\ \A e \in Empty(gr, S) : /\ e \in S \/ S \cap Ancestors[e] # {}
                                        /\ \A a \in {e} \cup Ancestors[e] : Cleared(a)'
<1> DEFINE S == Openings(work, fin)
<1>1. /\ IInv /\ Linked(graph) /\ RootsAreOutermost /\ AncestorsAreCleared
      /\ graph \in Graph /\ graph.nodes \subseteq made /\ made \subseteq Groups
      /\ rootGroups \subseteq Groups
  BY FromInv DEF SInv, IInv, OrderInv, TypeOK, Sound
<1>2. /\ work \in Work /\ work.groups \subseteq Groups /\ TakesIn(work)
      /\ fin \subseteq rootGroups /\ gr \in Graph /\ Linked(gr)
      /\ Sound(gr, made', Existing', valued', delivered')
      /\ gr.nodes = (graph.nodes \cup work.groups) \ fin
      /\ graph' = Prune(gr, S)
  BY DEF Grows, TakesIn, Work, Sound
<1>3. /\ MadeIsClosed'
      /\ \A g \in made : work.groups \cap Ancestors[g] = {}
      /\ \A g \in made : ~ Unclear(g) => \A a \in {g} \cup Ancestors[g] : Cleared(a)'
      /\ \A g \in Reported : \A a \in Ancestors[g] : Cleared(a)'
      /\ \A g \in succeeded \cap Groups : \A u \in Existing' : g \in GroupsOf[u] => u \in delivered
  BY <1>2, WorkOrder DEF TakesIn
<1>4. ASSUME NEW f \in fin
      PROVE  /\ f \in graph.nodes /\ f \in made /\ f \in Groups /\ graph.nodes \cap Ancestors[f] = {}
             /\ \A a \in {f} \cup Ancestors[f] : Cleared(a)'
  <2>1. f \in rootGroups /\ f \in Reported
    BY <1>2 DEF Reported
  <2>2. \A u \in Existing' : f \in GroupsOf[u] => u \in delivered'
    BY DEF Grows
  <2>3. Cleared(f)'
    <3>1. \A u \in Tasks : u \in valued' \cup delivered' => Handled(u)'
      BY DEF IInv, GraphIsConsistent, OutcomesAreUnique, Handled, Settled
    <3> QED BY <2>2, <3>1 DEF Cleared, Existing
  <2> QED BY <1>1, <1>3, <2>1, <2>3 DEF RootsAreOutermost, AncestorsAreCleared
<1>5. ASSUME NEW c \in S
      PROVE  /\ c \in Groups
             /\ \/ c \in work.groups /\ Ancestors[c] = {}
                \/ \E f \in fin : Ancestors[c] = {f} \cup Ancestors[f]
  <2>1. CASE c \in work.groups /\ Parent[c] = NoGroup
    BY <1>2, <2>1, AncestorsOfRoot, DisjointAssumption
  <2>2. ASSUME NEW f \in fin, c \in ChildrenWith(work, f)
        PROVE  c \in Groups /\ Ancestors[c] = {f} \cup Ancestors[f]
    <3>1. c \in Groups /\ Parent[c] = f /\ f \in Groups
      BY <1>1, <1>2, <1>4, <2>2 DEF ChildrenWith, Linked, Graph
    <3> QED BY <3>1, AncestorsOfParent
  <2> QED BY <2>1, <2>2 DEF Openings
<1>6. S \in SUBSET Groups
  BY <1>5
<1>7. ASSUME NEW c \in S
      PROVE  Ancestors[c] \cap gr.nodes = {} /\ \A a \in Ancestors[c] : Cleared(a)'
  <2>1. CASE Ancestors[c] = {}
    BY <2>1
  <2>2. ASSUME NEW f \in fin, Ancestors[c] = {f} \cup Ancestors[f]
        PROVE  Ancestors[c] \cap gr.nodes = {} /\ \A a \in Ancestors[c] : Cleared(a)'
    BY <1>2, <1>3, <1>4, <2>2
  <2> QED BY <1>5, <2>1, <2>2
<1> HIDE DEF S
<1>8. /\ Linked(Prune(gr, S)) /\ Prune(gr, S).nodes = gr.nodes \ Empty(gr, S)
      /\ \A g \in Promoted(gr, S) : /\ g \in gr.nodes \ Empty(gr, S)
                                    /\ Ancestors[g] \cap (gr.nodes \ Empty(gr, S)) = {}
                                    /\ \A a \in Ancestors[g] : Cleared(a)'
      /\ \A e \in Empty(gr, S) : /\ e \in S \/ S \cap Ancestors[e] # {}
                                 /\ \A a \in {e} \cup Ancestors[e] : Cleared(a)'
  <2>1. Sound(gr, made', Existing', valued', delivered') /\ Linked(gr)
    BY <1>2
  <2>2. \A c \in S : Ancestors[c] \cap gr.nodes = {} /\ \A a \in Ancestors[c] : Cleared(a)'
    BY <1>7
  <2> QED BY <1>6, <2>1, <2>2, PruneOrder
<1> QED BY <1>2, <1>3, <1>4, <1>5, <1>6, <1>8 DEF S

\* What becomes a root is outermost, what was a root stays so, and nothing is added to what
\* has been reported.
LEMMA GrowsOrder ==
  ASSUME SInv, IInv', NEW work, NEW fin, NEW gr, NEW T, Grows(work, fin, gr, T)
  PROVE  OrderInv'
<1> DEFINE S == Openings(work, fin)
<1>1. /\ RootsAreOutermost /\ AncestorsAreCleared /\ SuccessIsComplete /\ graph.nodes \subseteq made
      /\ made \subseteq Groups /\ rootGroups \subseteq Groups
  BY FromInv DEF SInv, OrderInv, IInv, TypeOK, Sound
<1>2. /\ rootGroups' = (rootGroups \ fin) \cup Promoted(gr, S)
      /\ gr.nodes = (graph.nodes \cup work.groups) \ fin
      /\ made' = made \cup work.groups /\ work.groups \cap made = {}
      /\ succeeded' \cap Groups = (succeeded \cap Groups) \cup fin /\ fin \subseteq rootGroups
      /\ \A f \in fin : \A u \in Existing' : f \in GroupsOf[u] => u \in delivered'
      /\ delivered \subseteq delivered'
  BY DEF Grows, TakesIn
<1>3. /\ MadeIsClosed' /\ S \in SUBSET Groups
      /\ \A g \in made : work.groups \cap Ancestors[g] = {}
      /\ \A g \in made : ~ Unclear(g) => \A a \in {g} \cup Ancestors[g] : Cleared(a)'
      /\ \A g \in succeeded \cap Groups : \A u \in Existing' : g \in GroupsOf[u] => u \in delivered
      /\ \A f \in fin : /\ f \in graph.nodes /\ f \in made /\ graph.nodes \cap Ancestors[f] = {}
                        /\ \A a \in {f} \cup Ancestors[f] : Cleared(a)'
      /\ \A c \in S : \/ c \in work.groups /\ Ancestors[c] = {}
                     \/ \E f \in fin : Ancestors[c] = {f} \cup Ancestors[f]
      /\ Linked(graph)' /\ graph'.nodes = gr.nodes \ Empty(gr, S)
      /\ \A g \in Promoted(gr, S) : /\ g \in gr.nodes \ Empty(gr, S)
                                    /\ Ancestors[g] \cap (gr.nodes \ Empty(gr, S)) = {}
                                    /\ \A a \in Ancestors[g] : Cleared(a)'
      /\ \A e \in Empty(gr, S) : /\ e \in S \/ S \cap Ancestors[e] # {}
                                 /\ \A a \in {e} \cup Ancestors[e] : Cleared(a)'
  BY GrowsFacts
<1> HIDE DEF S
<1>4. ASSUME NEW g \in rootGroups, g \notin fin
      PROVE  g \in graph'.nodes /\ graph'.nodes \cap Ancestors[g] = {}
  <2>1. g \in graph.nodes /\ graph.nodes \cap Ancestors[g] = {} /\ g \in made /\ g \in Groups
    BY <1>1 DEF RootsAreOutermost
  <2>2. work.groups \cap Ancestors[g] = {}
    BY <1>3, <2>1
  <2>3. ASSUME NEW c \in S, c = g \/ c \in Ancestors[g] PROVE c \in work.groups
    <3>1. CASE Ancestors[c] = {}
      BY <1>3, <1>4, <3>1
    <3>2. ASSUME NEW f \in fin, Ancestors[c] = {f} \cup Ancestors[f] PROVE FALSE
      <4>1. f \in Ancestors[g]
        BY <2>1, <2>3, <3>2, AncestorsAreTransitive
      <4> QED BY <1>3, <2>1, <4>1
    <3> QED BY <1>3, <3>1, <3>2
  <2>4. \A c \in S : c # g /\ c \notin Ancestors[g]
    BY <1>2, <2>1, <2>2, <2>3
  <2>5. g \notin Empty(gr, S)
    BY <1>3, <2>4
  <2> QED BY <1>2, <1>3, <1>4, <2>1, <2>2, <2>5
<1>5. RootsAreOutermost'
  BY <1>2, <1>3, <1>4 DEF RootsAreOutermost
<1>6. AncestorsAreCleared'
  <2>1. Reported' = (Reported \ fin) \cup fin \cup Promoted(gr, S) \/ Reported' \subseteq Reported \cup Promoted(gr, S)
    BY <1>2 DEF Reported
  <2>2. ASSUME NEW g \in Reported PROVE g \in made' /\ \A a \in Ancestors[g] : Cleared(a)'
    <3>1. g \in made /\ g \in Groups /\ \A a \in Ancestors[g] : Cleared(a)
      BY <1>1, <2>2 DEF AncestorsAreCleared
    <3>2. ASSUME NEW a \in Ancestors[g] PROVE Cleared(a)'
      <4>1. a \in Groups /\ a \in made /\ Ancestors[a] \subseteq Ancestors[g]
        BY <3>1, AncestorsAreGroups, AncestorsAreTransitive DEF SInv, OrderInv, MadeIsClosed
      <4>2. ~ Unclear(a)
        BY <3>1, <4>1 DEF Unclear
      <4> QED BY <1>3, <4>1, <4>2
    <3> QED BY <1>2, <3>1, <3>2
  <2>3. \A g \in Promoted(gr, S) : g \in made'
    BY <1>1, <1>2, <1>3
  <2>4. Reported' \subseteq Reported \cup Promoted(gr, S)
    BY <1>2 DEF Reported
  <2> QED BY <1>3, <2>2, <2>3, <2>4 DEF AncestorsAreCleared
<1>7. SuccessIsComplete'
  <2>1. \A g \in succeeded' \cap Groups : \A u \in Existing' : g \in GroupsOf[u] => u \in delivered'
    BY <1>2, <1>3
  <2> QED BY <2>1 DEF SuccessIsComplete, Existing
<1> QED BY <1>3, <1>5, <1>6, <1>7 DEF OrderInv

\* Taking in new work while the tasks T are started, none of which has been before.
LEMMA WorkIsTakenIn ==
  ASSUME SInv, NEW kind, NEW node, Handling(kind, node), NEW work,
         work \in RootWork \/ (node \in Tasks /\ work \in TaskWork(node)),
         NEW T \in SUBSET (Existing \cup work.tasks), \A u \in T : ~ Begun(Produced(work), u),
         StartTasks(T, Produced(work), Tail(channel)), made' = made \cup work.groups
  PROVE  /\ TakesIn(work)
         /\ T \in SUBSET Existing' /\ \A u \in T : Begun(comp', u)
         /\ \A u \in Tasks \ T : comp'[u] = Produced(work)[u]
<1> DEFINE produced == Existing \cup work.tasks
<1>1. /\ IInv /\ channel \in Seq(GraphEvents) /\ channel # <<>>
      /\ Tail(channel) \in Seq(GraphEvents)
  BY HandlingTail DEF SInv
<1>2. /\ work \in Work /\ work.groups \cap made = {} /\ work.tasks \cap Existing = {}
  BY <1>1, NewWork
<1>3. produced \subseteq Tasks
  BY <1>2 DEF Existing, Work
<1>4. /\ \A u \in Tasks : Settled(comp, u) => Settled(Produced(work), u)
      /\ \A u \in Tasks : Produced(work)[u] # "none" <=> u \in produced
  BY <1>1, <1>2, ProducedIsIdle
<1>5. T \in SUBSET Tasks
  BY <1>3
<1>6. HandledStays
  <2> SUFFICES ASSUME NEW u \in Tasks, Handled(u) PROVE Handled(u)'
    BY DEF HandledStays
  <2>1. Settled(Produced(work), u) /\ u \in Tasks \ T
    BY <1>4 DEF Handled, Settled, Begun
  <2>2. \A i \in DOMAIN Tail(channel) : Tail(channel)[i].node # u
    BY <1>1, TailStays DEF Handled
  <2> QED BY <1>1, <1>5, <2>1, <2>2, StartStays
<1>7. Existing' = produced
  <2>1. \A u \in T : Produced(work)[u] # "none"
    BY <1>4, <1>5
  <2>2. Existing' = {u \in Tasks : Produced(work)[u] # "none"}
    BY <1>5, <2>1, StartedExist
  <2> QED BY <1>3, <1>4, <2>2
<1>8. WorkHangs(work)
  <2>1. node \in Tasks => node \in Existing /\ ~ Handled(node)
    BY <1>1, HeadIsUnhandled
  <2> QED BY <2>1, WorkBelow
<1>9. /\ \A u \in T : Begun(comp', u)
      /\ \A u \in Tasks \ T : comp'[u] = Produced(work)[u]
  BY <1>5 DEF StartTasks, Begun
<1> QED BY <1>2, <1>6, <1>7, <1>8, <1>9 DEF TakesIn

\* The work of stream items is new at the top.
LEMMA ItemsGrow ==
  ASSUME SInv, IInv', NEW s \in Streams, NEW work \in RootWork, TakeItems(s, work),
         Handling("items", s)
  PROVE  LET gr       == Integrate(graph, work)
             promoted == Promoted(gr, {g \in work.groups : Parent[g] = NoGroup})
         IN  Grows(work, {}, gr, (UNION {gr.tasks[g] : g \in promoted}) \ taskNodes)
<1> DEFINE gr1      == Integrate(graph, work)
           top      == {g \in work.groups : Parent[g] = NoGroup}
           promoted == Promoted(gr1, top)
           starting == (UNION {gr1.tasks[g] : g \in promoted}) \ taskNodes
<1>2. /\ graph' = Prune(gr1, top)
      /\ rootGroups' = rootGroups \cup promoted
      /\ StartTasks(starting, Produced(work), Tail(channel))
      /\ made' = made \cup work.groups
      /\ succeeded' = succeeded \/ succeeded' = succeeded \cup {s}
      /\ UNCHANGED <<valued, delivered>>
  BY DEF TakeItems
<1>3. /\ IInv /\ Linked(graph) /\ RootsAreOutermost
      /\ graph \in Graph /\ made \subseteq Groups /\ rootGroups \subseteq graph.nodes
  BY DEF SInv, IInv, OrderInv, TypeOK, RootsAreOutermost
<1>4. /\ work \in Work /\ work.groups \cap made = {} /\ work.groups \subseteq Groups
      /\ Sound(gr1, made', Existing \cup work.tasks, valued', delivered')
      /\ Kept(gr1, Produced(work), taskNodes)
      /\ gr1 \in Graph
  BY <1>2, <1>3, WorkIsIntegrated, NewWork DEF Work, Sound
<1>5. /\ gr1.nodes = graph.nodes \cup work.groups
      /\ Linked(gr1) /\ promoted \subseteq gr1.nodes
      /\ \A g \in gr1.nodes : gr1.children[g] = ChildrenWith(work, g)
  <2>1. gr1.nodes \subseteq Groups
    BY <1>4 DEF Graph
  <2>2. \A g \in Groups : g \in graph.nodes \cup work.groups
           => gr1.children[g] = graph.children[g] \cup {c \in work.groups : Parent[c] = g}
    BY DEF Integrate
  <2>3. gr1.nodes = graph.nodes \cup work.groups /\ Linked(gr1) /\ promoted \subseteq gr1.nodes
    BY <1>3, <1>4, IntegrateLinked DEF Integrate, Promoted
  <2> HIDE DEF gr1
  <2> QED BY <2>1, <2>2, <2>3 DEF ChildrenWith
<1>6. starting \in SUBSET (Existing \cup work.tasks) /\ \A u \in starting : ~ Begun(Produced(work), u)
  <2> HIDE DEF gr1, promoted
  <2> QED BY <1>4, <1>5 DEF Kept, Graph, Sound, Entered
<1>7. /\ TakesIn(work)
      /\ starting \in SUBSET Existing' /\ \A u \in starting : Begun(comp', u)
      /\ \A u \in Tasks \ starting : comp'[u] = Produced(work)[u]
  <2> HIDE DEF starting
  <2> QED BY <1>2, <1>6, WorkIsTakenIn
<1>8. Starts(work, starting)
  <2>1. ASSUME NEW u \in starting PROVE GroupsOf[u] \cap rootGroups' # {}
    <3> HIDE DEF gr1, promoted
    <3>1. PICK g \in promoted : u \in gr1.tasks[g]
      OBVIOUS
    <3>2. g \in GroupsOf[u]
      BY <1>4, <1>5, <3>1 DEF Sound, Entered
    <3> QED BY <1>2, <3>1, <3>2
  <2> HIDE DEF starting
  <2> QED BY <1>6, <1>7, <2>1 DEF Starts
<1>9. Sound(gr1, made', Existing', valued', delivered')
  BY <1>4, <1>7 DEF TakesIn
<1>10. ASSUME NEW g \in rootGroups
       PROVE  /\ graph.pending[g] # 0 => gr1.pending[g] # 0
              /\ gr1.tasks[g] \subseteq graph.tasks[g]
  <2>1. g \in graph.nodes /\ g \in Groups /\ g \in made
    BY <1>3, FromInv DEF Graph, Sound
  <2>2. \A u \in work.tasks : g \notin GroupsOf[u]
    <3>1. \A u \in work.tasks : GroupsOf[u] \subseteq work.groups \cup {NoGroup}
      BY DEF RootWork, WorkIn
    <3> QED BY <1>4, <2>1, <3>1, DisjointAssumption
  <2>3. TasksOf(work.tasks, g) = {}
    BY <2>2 DEF TasksOf
  <2>4. Cardinality(TasksOf(work.tasks, g)) = 0
    BY <2>3, FS_EmptySet
  <2>5. /\ gr1.pending[g] = graph.pending[g] + Cardinality(TasksOf(work.tasks, g))
        /\ gr1.tasks[g] = graph.tasks[g] \cup TasksOf(work.tasks, g)
    BY <2>1 DEF Integrate
  <2> HIDE DEF gr1
  <2> QED BY <1>3, <2>1, <2>3, <2>4, <2>5 DEF Graph
<1>11. top = Openings(work, {})
  BY DEF Openings
<1>12. \A g \in promoted : gr1.tasks[g] \subseteq taskNodes \cup starting
  OBVIOUS
<1>13. succeeded' \cap Groups = succeeded \cap Groups
  BY <1>2, DisjointAssumption
<1> HIDE DEF gr1, starting, top
<1>14. /\ graph' = Prune(gr1, Openings(work, {}))
       /\ promoted = Promoted(gr1, Openings(work, {}))
  BY <1>2, <1>11
<1> HIDE DEF promoted
<1>15. Grows(work, {}, gr1, starting)
  BY <1>2, <1>5, <1>7, <1>8, <1>9, <1>10, <1>12, <1>13, <1>14 DEF Grows
<1> QED BY <1>15 DEF gr1, starting, promoted, top

\* A success: the finished groups have no outcome ahead, and what hangs below them takes
\* their place.
SuccessBelow(t, work) ==
  UNION {SuccessGraph(t, work).children[g] : g \in SuccessFinished(t, work)}
SuccessStarts(t, work) ==
  AtOnce(work, SuccessGraph(t, work))
    \cup ((UNION {SuccessRest(t, work).tasks[g] :
                    g \in Promoted(SuccessRest(t, work), SuccessBelow(t, work))})
            \ (SuccessNodes(t, work) \ SuccessDone(t, work)))

LEMMA SuccessGrows ==
  ASSUME SInv, IInv', NEW t \in Tasks, NEW work \in TaskWork(t), Succeed(t, work),
         Handling("ok", t)
  PROVE  /\ Grows(work, SuccessFinished(t, work), SuccessRest(t, work), SuccessStarts(t, work))
         /\ Openings(work, SuccessFinished(t, work)) = SuccessBelow(t, work)
<1> DEFINE gr1      == SuccessGraph(t, work)
           atOnce   == AtOnce(work, gr1)
           nodes1   == SuccessNodes(t, work)
           valued1  == SuccessValued(t)
           finished == SuccessFinished(t, work)
           done     == SuccessDone(t, work)
           below    == SuccessBelow(t, work)
           gr2      == SuccessRest(t, work)
           promoted == Promoted(gr2, below)
           starting == SuccessStarts(t, work)
           produced == Existing \cup work.tasks
<1>2. /\ graph' = Prune(gr2, below)
      /\ rootGroups' = (rootGroups \ finished) \cup promoted
      /\ StartTasks(starting, Produced(work), Tail(channel))
      /\ made' = made \cup work.groups
      /\ succeeded' = succeeded \cup finished
      /\ delivered' = delivered \cup (done \cap valued1)
      /\ valued' = valued1 \ done
  BY DEF Succeed, SuccessGraph, SuccessNodes, SuccessValued, SuccessFinished, SuccessDone,
         SuccessRest, SuccessBelow, SuccessStarts
<1>3. /\ IInv /\ Linked(graph) /\ RootsAreOutermost
      /\ graph \in Graph /\ made \subseteq Groups /\ rootGroups \subseteq Groups
      /\ graph.nodes \subseteq made /\ rootGroups \subseteq graph.nodes
  BY FromInv DEF SInv, IInv, OrderInv, TypeOK, Sound, RootsAreOutermost
<1>5. /\ AtOnce(work, gr1) \subseteq work.tasks
      /\ Kept(gr1, Produced(work), taskNodes)
      /\ Sound(gr1, made \cup work.groups, produced, valued1, delivered)
      /\ finished \subseteq gr1.nodes
      /\ \A g \in finished : gr1.tasks[g] \subseteq done
      /\ done \subseteq valued1
      /\ Sound(gr2, made \cup work.groups, produced, valued1 \ done, delivered \cup done)
      /\ gr2.nodes = gr1.nodes \ finished
      /\ \A g \in gr2.nodes : gr2.tasks[g] = gr1.tasks[g] \ done
  BY <1>3, SuccessGraphs
<1>6. /\ work \in Work /\ work.groups \cap made = {} /\ work.tasks \cap Existing = {}
      /\ work.groups \subseteq Groups /\ work.tasks \subseteq Tasks
  BY <1>3, NewWork DEF Work
<1> DEFINE gr0 == Integrate(graph, work)
<1>a. /\ gr0.nodes = graph.nodes \cup work.groups
      /\ \A g \in Groups : g \in gr0.nodes =>
            /\ gr0.children[g] = ChildrenWith(work, g)
            /\ gr0.tasks[g] = graph.tasks[g] \cup TasksOf(work.tasks, g)
            /\ gr0.pending[g] = graph.pending[g] + Cardinality(TasksOf(work.tasks, g))
  BY DEF Integrate, ChildrenWith
<1>b. /\ gr1.nodes = gr0.nodes /\ gr1.children = gr0.children /\ gr1.tasks = gr0.tasks
      /\ \A g \in Groups \ GroupsOf[t] : gr1.pending[g] = gr0.pending[g]
  BY DEF SuccessGraph, CountSuccess, Integrate
<1>c. /\ \A g \in Groups \ finished : gr2.children[g] = gr1.children[g]
                                      /\ gr2.pending[g] = gr1.pending[g]
      /\ \A g \in Groups : gr2.children[g] \subseteq gr1.children[g]
  BY DEF SuccessRest, Forget, Remove
<1>d. /\ finished \subseteq rootGroups
      /\ \A g \in GroupsOf[t] \cap gr1.nodes \cap rootGroups : g \notin finished => gr1.pending[g] # 0
      /\ \A g \in finished : gr1.pending[g] = 0
  BY DEF SuccessFinished, Finished
<1>e. gr2 \in Graph /\ gr1 \in Graph /\ gr1.nodes \subseteq Groups
  BY <1>5 DEF Sound, Graph
<1>f. Linked(gr0)
  BY <1>3, <1>6, IntegrateLinked
<1> HIDE DEF gr0
<1>7. gr1.nodes = graph.nodes \cup work.groups /\ Linked(gr1)
  <2> HIDE DEF gr1
  <2> QED BY <1>a, <1>b, <1>f DEF Linked
<1>8. Linked(gr2)
  <2> HIDE DEF gr1, gr2, finished
  <2> QED BY <1>7, <1>c DEF Linked
<1>9. promoted \subseteq gr2.nodes
  BY DEF Promoted
<1>g. /\ nodes1 = taskNodes \cup atOnce
      /\ starting = atOnce \cup ((UNION {gr2.tasks[g] : g \in promoted}) \ (nodes1 \ done))
  BY DEF SuccessNodes, SuccessStarts
<1>h. below = UNION {gr1.children[g] : g \in finished}
  BY DEF SuccessBelow
<1>i. atOnce = {u \in work.tasks : GroupsOf[u] \cap gr1.nodes \cap rootGroups # {}}
  BY DEF AtOnce
<1> HIDE DEF gr1, valued1, finished, done, gr2, nodes1, below, promoted, starting, atOnce
<1>10. /\ starting \in SUBSET produced
       /\ \A u \in starting : ~ Begun(Produced(work), u)
  <2>1. \A u \in work.tasks : ~ Begun(Produced(work), u)
    BY <1>3, <1>6, ProducedIsIdle
  <2>2. ASSUME NEW u \in atOnce PROVE u \in produced /\ ~ Begun(Produced(work), u)
    BY <1>i, <2>1, <2>2
  <2>4. ASSUME NEW g \in promoted, NEW u \in gr2.tasks[g], u \notin nodes1 \ done
        PROVE  u \in produced /\ ~ Begun(Produced(work), u)
    <3>1. g \in gr1.nodes /\ u \in gr1.tasks[g] /\ u \notin done
      BY <1>5, <1>9, <2>4
    <3>2. u \notin taskNodes
      BY <1>g, <2>4, <3>1
    <3>3. u \in produced
      BY <1>5, <3>1 DEF Sound, Entered
    <3> HIDE DEF produced
    <3> QED BY <1>5, <3>1, <3>2, <3>3 DEF Kept
  <2> HIDE DEF produced
  <2> QED BY <1>g, <2>2, <2>4
<1>11. /\ TakesIn(work)
       /\ starting \in SUBSET Existing' /\ \A u \in starting : Begun(comp', u)
       /\ \A u \in Tasks \ starting : comp'[u] = Produced(work)[u]
  BY <1>2, <1>10, WorkIsTakenIn
<1>12. Existing' = produced
  BY <1>11 DEF TakesIn
<1> HIDE DEF produced
<1>13. delivered' = delivered \cup done /\ valued' = valued1 \ done
  BY <1>2, <1>5
<1>14. Sound(gr2, made', Existing', valued', delivered')
  BY <1>2, <1>5, <1>12, <1>13
<1>15. ASSUME NEW f \in finished, NEW u \in Existing', f \in GroupsOf[u]
       PROVE  u \in delivered'
  BY <1>5, <1>12, <1>13, <1>15 DEF Sound, Entered
<1>16. Starts(work, starting)
  <2>1. ASSUME NEW u \in starting PROVE GroupsOf[u] \cap rootGroups' # {}
    <3>1. CASE u \in atOnce
      <4>1. PICK g \in GroupsOf[u] : g \in gr1.nodes /\ g \in rootGroups /\ u \in work.tasks
        BY <1>i, <3>1
      <4>2. u \notin delivered' \/ g \notin finished
        <5>1. u \in Existing' /\ u \notin Existing
          BY <1>6, <1>11, <4>1 DEF TakesIn
        <5>2. valued1 \subseteq Existing \/ t \notin Existing
          BY <1>3, FromInv DEF valued1, SuccessValued
        <5>3. t \in Existing
          BY <1>3, HeadIsUnhandled
        <5> QED BY <1>3, <1>5, <1>13, <5>1, <5>2, <5>3, FromInv
      <4>3. g \notin finished
        BY <1>11, <1>15, <4>1, <4>2
      <4> QED BY <1>2, <4>1, <4>3
    <3>2. ASSUME NEW g \in promoted, u \in gr2.tasks[g] PROVE GroupsOf[u] \cap rootGroups' # {}
      <4>1. g \in GroupsOf[u]
        BY <1>9, <1>14, <3>2 DEF Sound, Entered
      <4> QED BY <1>2, <3>2, <4>1
    <3> QED BY <1>g, <3>1, <3>2
  <2>2. \A u \in starting : ~ Begun(Produced(work), u)
    BY <1>10
  <2> QED BY <1>11, <2>1, <2>2 DEF Starts
<1>17. ASSUME NEW g \in rootGroups, g \notin finished
       PROVE  /\ graph.pending[g] # 0 => gr2.pending[g] # 0
              /\ gr2.tasks[g] \subseteq graph.tasks[g] \cup starting
  <2>1. g \in graph.nodes /\ g \in Groups /\ g \in gr1.nodes /\ g \in gr2.nodes
    BY <1>3, <1>5, <1>7, <1>17
  <2>2. graph.pending[g] # 0 => gr2.pending[g] # 0
    <3>1. CASE g \in GroupsOf[t]
      BY <1>17, <1>c, <1>d, <2>1, <3>1
    <3>2. CASE g \notin GroupsOf[t]
      <4>1. gr2.pending[g] = graph.pending[g] + Cardinality(TasksOf(work.tasks, g))
        BY <1>7, <1>17, <1>a, <1>b, <1>c, <2>1, <3>2
      <4>2. Cardinality(TasksOf(work.tasks, g)) \in Nat /\ graph.pending[g] \in Nat
        BY <1>3, <1>6, <2>1, TasksAreFinite DEF TasksOf, Graph
      <4> QED BY <4>1, <4>2
    <3> QED BY <3>1, <3>2
  <2>3. gr2.tasks[g] \subseteq graph.tasks[g] \cup TasksOf(work.tasks, g)
    BY <1>5, <1>7, <1>a, <1>b, <2>1
  <2>4. TasksOf(work.tasks, g) \subseteq atOnce
    BY <1>17, <1>i, <2>1 DEF TasksOf
  <2> QED BY <1>g, <2>2, <2>3, <2>4
<1>18. Openings(work, finished) = below
  <2>1. {g \in work.groups : Parent[g] = NoGroup} = {}
    <3>1. \A g \in work.groups : Parent[g] \in work.groups \cup made
      BY DEF TaskWork, WorkIn
    <3> QED BY <1>3, <1>6, <3>1, DisjointAssumption
  <2>2. \A f \in finished : ChildrenWith(work, f) = gr1.children[f]
    BY <1>3, <1>5, <1>7, <1>a, <1>b, <1>d
  <2> QED BY <1>h, <2>1, <2>2 DEF Openings
<1>19. \A g \in promoted : gr2.tasks[g] \subseteq taskNodes \cup starting
  BY <1>g
<1>20. \A g \in gr2.nodes : gr2.children[g] = ChildrenWith(work, g)
  BY <1>5, <1>7, <1>a, <1>b, <1>c, <1>e
<1>21. /\ \A f \in finished : \A u \in Existing' : f \in GroupsOf[u] => u \in delivered'
       /\ delivered \subseteq delivered'
       /\ valued \cup delivered \subseteq valued' \cup delivered'
       /\ succeeded' \cap Groups = (succeeded \cap Groups) \cup finished
  <2>1. valued \subseteq valued1
    BY DEF valued1, SuccessValued
  <2>2. finished \subseteq Groups
    BY <1>3, <1>d
  <2> QED BY <1>2, <1>13, <1>15, <2>1, <2>2
<1>22. Grows(work, finished, gr2, starting)
  <2>1. gr2.nodes = (graph.nodes \cup work.groups) \ finished
    BY <1>5, <1>7
  <2> QED BY <1>2, <1>8, <1>11, <1>14, <1>16, <1>17, <1>18, <1>19, <1>20, <1>21, <1>d, <2>1
          DEF Grows, promoted
<1> QED BY <1>18, <1>22 DEF finished, gr2, starting, below

-----------------------------------------------------------------------------
(* The invariant is inductive.                                              *)

LEMMA InitOrder == Init => OrderInv
<1> SUFFICES ASSUME Init PROVE OrderInv
  OBVIOUS
<1>1. PICK work \in [groups : SUBSET Groups, tasks : SUBSET Tasks, streams : SUBSET Streams] :
         /\ \A g \in work.groups : Parent[g] \in work.groups \cup {NoGroup}
         /\ graph = Prune(Integrate(EmptyGraph, work), {g \in work.groups : Parent[g] = NoGroup})
         /\ rootGroups = Promoted(Integrate(EmptyGraph, work),
                                  {g \in work.groups : Parent[g] = NoGroup})
         /\ comp = [t \in Tasks |-> IF t \in work.tasks THEN "idle" ELSE "none"]
         /\ made = work.groups
         /\ succeeded = {}
  BY DEF Init
<1> DEFINE gr  == Integrate(EmptyGraph, work)
           top == {g \in work.groups : Parent[g] = NoGroup}
<1>2. work \in Work /\ work.groups \subseteq Groups /\ work.tasks \subseteq Tasks
  BY DEF Work
<1>3. EmptyGraph \in Graph /\ Linked(EmptyGraph) /\ Sound(EmptyGraph, {}, {}, {}, {})
  BY DEF EmptyGraph, Graph, Linked, Sound, Bare, Entered, Counted
<1>4. Sound(gr, work.groups, work.tasks, {}, {})
  <2>1. Sound(gr, {} \cup work.groups, {} \cup work.tasks, {}, {})
    BY <1>2, <1>3, IntegrateSound
  <2>2. {} \cup work.groups = work.groups /\ {} \cup work.tasks = work.tasks
    OBVIOUS
  <2> QED BY <2>1, <2>2
<1>5. Linked(gr)
  BY <1>2, <1>3, IntegrateLinked
<1> HIDE DEF gr
<1>6. gr \in Graph /\ gr.nodes \subseteq work.groups
  BY <1>4 DEF Sound
<1> DEFINE E     == Empty(gr, top)
           Gone  == Groups \ (gr.nodes \ E)
           Clear == {g \in Groups : Cleared(g)}
<1>7. E \subseteq Gone /\ E \subseteq Groups /\ \A e \in E : e \in gr.nodes /\ gr.pending[e] = 0
  <2>1. \A e \in E : e \in gr.nodes /\ gr.pending[e] = 0
    BY DEF Empty, Reached
  <2> HIDE DEF E
  <2> QED BY <1>2, <1>6, <2>1
<1>8. ASSUME NEW e \in E PROVE Cleared(e)
  <2>1. Cardinality(gr.tasks[e] \ {}) = 0
    BY <1>4, <1>7 DEF Sound, Counted
  <2>2. IsFiniteSet(gr.tasks[e] \ {})
    BY <1>6, <1>7, TasksAreFinite DEF Graph
  <2>3. gr.tasks[e] \ {} = {}
    BY <2>1, <2>2, FS_EmptySet
  <2>4. \A t \in work.tasks : e \notin GroupsOf[t]
    BY <1>4, <1>7, <2>3 DEF Sound, Entered
  <2> QED BY <1>1, <2>4 DEF Cleared
<1>9. \A g \in top : Ancestors[g] = {}
  BY <1>2, AncestorsOfRoot, DisjointAssumption
<1>10. top \in SUBSET Groups /\ E \subseteq Clear
  BY <1>2, <1>7, <1>8
<1> HIDE DEF top, Gone, Clear, E
<1>11. \A g \in rootGroups : /\ g \in gr.nodes \ E
                             /\ Ancestors[g] \subseteq Gone /\ Ancestors[g] \subseteq Clear
  BY <1>1, <1>5, <1>6, <1>7, <1>9, <1>10, PromotedWithin DEF gr, top, E
<1>12. graph = Remove(gr, E)
  BY <1>1 DEF Prune, gr, top, E
<1>13. graph.nodes = gr.nodes \ E /\ Linked(graph)
  BY <1>5, <1>12 DEF Remove, Linked
<1>14. MadeIsClosed
  BY <1>1, <1>2, DisjointAssumption, AncestorsWithin DEF MadeIsClosed
<1>15. RootsAreOutermost
  BY <1>11, <1>13 DEF RootsAreOutermost, Gone
<1>16. AncestorsAreCleared
  <2>1. Reported = rootGroups
    BY <1>1 DEF Reported
  <2> QED BY <1>1, <1>6, <1>11, <2>1 DEF AncestorsAreCleared, Clear
<1>17. SuccessIsComplete
  BY <1>1 DEF SuccessIsComplete
<1> QED BY <1>13, <1>14, <1>15, <1>16, <1>17 DEF OrderInv

LEMMA NextOrder == ASSUME SInv, [Next]_vars PROVE SInv'
<1>1. IInv /\ IInv'
  BY NextInv DEF SInv
<1> SUFFICES OrderInv'
  BY <1>1 DEF SInv
<1>2. CASE UNCHANGED vars \/ Wake \/ EndBatch \/ Resume
  BY <1>2, LoopOrder
<1>3. CASE Cancel
  BY <1>3, CancelOrder DEF Cancel
<1>4. CASE StartEvents
  BY <1>4, StartEventsOrder
<1>5. ASSUME NEW t \in Tasks, HandleTaskSuccess(t) \/ HandleTaskFailure(t) PROVE OrderInv'
  <2>1. CASE HandleTaskSuccess(t)
    <3>1. PICK work \in TaskWork(t) : Succeed(t, work) /\ Handling("ok", t)
      BY <2>1 DEF HandleTaskSuccess
    <3> QED BY <1>1, <3>1, SuccessGrows, GrowsOrder
  <2> QED BY <1>5, <2>1, HandleTaskFailureOrder
<1>6. ASSUME NEW s \in Streams, HandleStreamItems(s) PROVE OrderInv'
  <2>1. PICK work \in RootWork : TakeItems(s, work) /\ Handling("items", s)
    BY <1>6 DEF HandleStreamItems
  <2> QED BY <1>1, <2>1, ItemsGrow, GrowsOrder
<1>7. ASSUME NEW s \in Streams, HandleStreamSuccess(s) \/ HandleStreamFailure(s) PROVE OrderInv'
  BY <1>7, StreamEndOrder
<1>8. ASSUME NEW t \in Tasks, PrimeEarly(t) \/ SettleTask(t) PROVE OrderInv'
  BY <1>8, PrimeEarlyOrder, SettleTaskOrder
<1>9. ASSUME NEW s \in Streams,
             PumpItems(s) \/ PumpSuccess(s) \/ PumpFailure(s) \/ PumpCancelled(s)
      PROVE  OrderInv'
  BY <1>9, PumpOrder
<1> QED BY <1>2, <1>3, <1>4, <1>5, <1>6, <1>7, <1>8, <1>9 DEF Next, Deliver, HandleGraphEvent

-----------------------------------------------------------------------------
(* The theorems.                                                            *)

THEOREM OrderInvariance == Spec => []SInv
<1>1. Init => SInv
  BY InitInv, InitOrder DEF SInv
<1>2. SInv /\ [Next]_vars => SInv'
  BY NextOrder
<1> QED BY <1>1, <1>2, PTL DEF Spec

\* No root group is nested in another one, or in any group that still has a node: a group is
\* announced when everything above it is finished or was empty, and not before
\* (_prune_empty_groups, _finish_group_success).
THEOREM RootsAreOutermostHolds == Spec => []RootsAreOutermost
<1>1. SInv => RootsAreOutermost
  BY DEF SInv, OrderInv
<1> QED BY <1>1, OrderInvariance, PTL

\* A group that has been reported as successful lacks no value: no task is added to it later
\* by a task of a group above it, and what it shares with other groups has been reported
\* (_finish_group_success).
THEOREM SuccessIsCompleteHolds == Spec => []SuccessIsComplete
<1>1. SInv => SuccessIsComplete
  BY DEF SInv, OrderInv
<1> QED BY <1>1, OrderInvariance, PTL
=============================================================================
