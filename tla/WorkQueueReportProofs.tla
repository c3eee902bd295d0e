----------------------- MODULE WorkQueueReportProofs -----------------------
(***************************************************************************)
(* What the work queue reports, and what it has left behind when it stops: *)
(* nothing is reported twice, nothing announced is stuck or lost, and a    *)
(* cancellation reaches everything that is alive, for every forest of      *)
(* groups, every assignment of tasks to groups, and any number of streams. *)
(***************************************************************************)
EXTENDS WorkQueueOrderProofs

-----------------------------------------------------------------------------
(* The invariant: what holds of the groups.                                 *)

Running == phase # "closed"

\* A group is announced once and reported on once, and has no node after that.
GroupsAreBooked ==
  /\ rootGroups \subseteq announced
  /\ announced \cap Groups \subseteq made
  /\ announced \cap Groups \subseteq rootGroups \cup succeeded \cup failed
  /\ (succeeded \cup failed) \cap Groups \subseteq made
  /\ graph.nodes \cap announced \subseteq rootGroups
  /\ graph.nodes \cap (succeeded \cup failed) = {}

\* A delivered task is forgotten.
NeverTwice ==
  /\ valued \cap delivered = {}
  /\ \A g \in graph.nodes : graph.tasks[g] \cap delivered = {}

\* What has been started is delivered, or waits for a root group, or has lost a group.
StartedForRoot ==
  \A t \in Tasks : Begun(comp, t) /\ t \notin delivered =>
     \E g \in GroupsOf[t] : g \in rootGroups \/ Doomed(g)

\* A node is linked to the node of its parent, and hangs there unless it is a root or lost.
BackLinked == \A g \in graph.nodes : Parent[g] \in graph.nodes => g \in graph.children[Parent[g]]
NodesHang  == \A g \in graph.nodes : g \in rootGroups \/ Doomed(g) \/ Parent[g] \in graph.nodes

\* A group without a node is lost, or gets no more tasks.
GoneIsCleared ==
  \A g \in made : g \notin graph.nodes =>
     Doomed(g) \/ \A a \in {g} \cup Ancestors[g] : Cleared(a)

\* A root group has something left to do, and all of it has been started.
RootsRun ==
  \A g \in rootGroups : /\ graph.pending[g] # 0
                        /\ Running /\ phase # "new" => \A t \in graph.tasks[g] : Begun(comp, t)

\* The outcome of a task has been counted, unless none of its groups has a node.
OutcomesAreUsed ==
  ~ stopped => \A t \in Tasks : Handled(t) /\ t \notin valued \cup delivered
                                  => GroupsOf[t] \cap graph.nodes = {}

TaskNodesBegun == Running => \A t \in taskNodes : Begun(comp, t)

\* Before the first iteration nothing has happened yet.
NewStarts ==
  phase = "new" => /\ taskNodes = {} /\ batch = <<>> /\ channel = <<>>
                   /\ \A s \in Streams : pump[s] = "off"
                   /\ \A t \in Tasks : ~ Begun(comp, t)

GroupInv == /\ GroupsAreBooked /\ NeverTwice /\ StartedForRoot
            /\ BackLinked /\ NodesHang /\ GoneIsCleared
            /\ RootsRun /\ OutcomesAreUsed /\ TaskNodesBegun

(* The invariant: what holds of the streams, and of the loop.               *)

\* A stream is announced once and reported on once; one that has been found by a task
\* waits there for the task to be delivered.
StreamsAreBooked ==
  /\ rootStreams \subseteq announced
  /\ announced \cap Streams \subseteq rootStreams \cup succeeded \cup failed
  /\ (succeeded \cup failed) \cap Streams \subseteq announced \ rootStreams
  /\ \A s \in Streams : s \in announced => queue[s] # "none"
  /\ \A u \in Tasks : \A s \in childStreams[u] : s \notin announced /\ queue[s] # "none"
  /\ \A u, v \in Tasks : u # v => childStreams[u] \cap childStreams[v] = {}
  /\ \A s \in Streams : pump[s] # "off" => s \in announced

\* Each pump has at most one event in the channel, the one it is waiting for or has ended with.
PumpsAreServed ==
  /\ \A s \in Streams : queue[s] # "aborted"
  /\ \A s \in Streams :
        pump[s] \in {"handing", "cancelled"} \/ (pump[s] = "iterating" /\ queue[s] = "open")
          => s \in rootStreams
  /\ \A i \in DOMAIN channel : LET e == channel[i] IN
        /\ e.kind # "stop"
        /\ e.kind = "items" => pump[e.node] = "handing"
        /\ e.kind \in {"end", "fail"} => pump[e.node] = "done"
        /\ e.kind = "fail" => e.node \in rootStreams
  /\ \A i, j \in DOMAIN channel : channel[i].node = channel[j].node => i = j

StreamServed(s) ==
  \/ phase = "new" /\ pump[s] = "off"
  \/ pump[s] = "iterating"
  \/ pump[s] = "handing" /\ InChannel({"items"}, s)
  \/ pump[s] = "done" /\ InChannel({"end", "fail"}, s)
  \/ pump[s] = "cancelled" /\ Early

StreamsAreServed == ~ stopped => \A s \in rootStreams : StreamServed(s)

\* The loop is not stopped before its work is done.
LoopRuns ==
  /\ phase # "crashed"
  /\ \A t \in Tasks : comp[t] # "aborted"
  /\ stopped => rootGroups = {} /\ rootStreams = {} /\ phase \in {"yielded", "ended"}
  /\ \A i \in DOMAIN batch : batch[i].kind = "termination" => stopped

StreamInv == /\ StreamsAreBooked /\ NewStarts
             /\ Running => PumpsAreServed /\ StreamsAreServed /\ LoopRuns
             /\ ~ Running => stopped
             /\ CancelReachesLiveWork

RInv == SInv /\ GroupInv /\ StreamInv

-----------------------------------------------------------------------------
(* The forest, and what hangs in it.                                        *)

\* A set of natural numbers has a least element.
LEMMA LeastNumber ==
  ASSUME NEW S \in SUBSET Nat, S # {}
  PROVE  \E m \in S : \A n \in S : m <= n
<1>1. PICK m \in S : \A n \in S : ~ (<<n, m>> \in OpToRel(<, Nat))
  BY NatLessThanWellFounded, WFMin
<1>2. \A n \in S : ~ (n < m)
  BY <1>1 DEF OpToRel
<1> QED BY <1>2

\* In a forest no set of groups contains the parent of each of its members.
LEMMA NoEndlessAscent ==
  ASSUME NEW X \in SUBSET Groups, \A g \in X : Parent[g] \in X
  PROVE  X = {}
<1> SUFFICES ASSUME X # {} PROVE FALSE
  OBVIOUS
<1> DEFINE H == {Cardinality(Ancestors[g]) : g \in X}
<1>1. \A g \in Groups : IsFiniteSet(Ancestors[g]) /\ Cardinality(Ancestors[g]) \in Nat
  BY AncestorsAreGroups, GroupsAreFinite
<1>2. H \in SUBSET Nat /\ H # {}
  BY <1>1
<1>3. PICK n \in H : \A m \in H : n <= m
  <2> HIDE DEF H
  <2> QED BY <1>2, LeastNumber
<1>4. PICK g \in X : n = Cardinality(Ancestors[g])
  BY DEF H
<1>5. /\ Parent[g] \in X /\ Parent[g] \in Groups
      /\ Ancestors[g] = Ancestors[Parent[g]] \cup {Parent[g]}
      /\ Parent[g] \notin Ancestors[Parent[g]]
  BY AncestorsOfParent, ForestAssumption
<1>6. Cardinality(Ancestors[g]) = Cardinality(Ancestors[Parent[g]]) + 1
  <2> DEFINE A == Ancestors[Parent[g]]
  <2>1. IsFiniteSet(A) /\ Parent[g] \notin A
    BY <1>1, <1>5
  <2> HIDE DEF A
  <2>2. Cardinality(A \cup {Parent[g]}) = Cardinality(A) + 1
    BY <2>1, FS_AddElement
  <2> QED BY <1>5, <2>2 DEF A
<1>7. n <= Cardinality(Ancestors[Parent[g]])
  BY <1>3, <1>5
<1> HIDE DEF H
<1> QED BY <1>1, <1>4, <1>5, <1>6, <1>7

\* A group below a lost one is lost.
LEMMA DoomSpreads ==
  ASSUME NEW g \in Groups, Parent[g] \in Groups, Doomed(Parent[g])
  PROVE  Doomed(g)
BY AncestorsOfParent DEF Doomed

\* A node that is not lost hangs below a root group ...
LEMMA AliveIsReached ==
  ASSUME IInv, BackLinked, NodesHang, NEW g \in graph.nodes, ~ Doomed(g)
  PROVE  g \in Subtree(graph, rootGroups)
<1> DEFINE sub == Subtree(graph, rootGroups)
           X == {h \in graph.nodes : ~ Doomed(h) /\ h \notin sub}
<1>1. graph \in Graph /\ graph.nodes \subseteq Groups /\ rootGroups \subseteq Groups
  BY DEF IInv, TypeOK, Graph
<1>2. /\ rootGroups \cap graph.nodes \subseteq sub
      /\ \A r \in sub : graph.children[r] \cap graph.nodes \subseteq sub
  BY DEF Subtree, Reached
<1>3. ASSUME NEW h \in X PROVE Parent[h] \in X
  <2>1. h \in Groups /\ h \in graph.nodes /\ h \notin rootGroups /\ ~ Doomed(h) /\ h \notin sub
    BY <1>1, <1>2
  <2>2. Parent[h] \in graph.nodes /\ h \in graph.children[Parent[h]]
    BY <2>1 DEF NodesHang, BackLinked
  <2>3. ~ Doomed(Parent[h])
    BY <1>1, <2>1, <2>2, DoomSpreads
  <2>4. Parent[h] \notin sub
    BY <1>2, <2>1, <2>2
  <2> QED BY <2>2, <2>3, <2>4
<1>4. X = {}
  <2> X \in SUBSET Groups
    BY <1>1
  <2> HIDE DEF X
  <2> QED BY <1>3, NoEndlessAscent
<1> QED BY <1>4

\* ... and there is none without root groups.
LEMMA NoRootsNoLife ==
  ASSUME IInv, NodesHang, rootGroups = {}, NEW g \in graph.nodes
  PROVE  Doomed(g)
<1> DEFINE X == {h \in graph.nodes : ~ Doomed(h)}
<1>1. graph.nodes \subseteq Groups
  BY DEF IInv, TypeOK, Graph
<1>2. ASSUME NEW h \in X PROVE Parent[h] \in X
  BY <1>1, DoomSpreads DEF NodesHang
<1>3. X = {}
  <2> X \in SUBSET Groups
    BY <1>1
  <2> HIDE DEF X
  <2> QED BY <1>2, NoEndlessAscent
<1> QED BY <1>3

\* What is opened, or hangs below what is pruned, is pruned or promoted.
LEMMA OpenedIsPromoted ==
  ASSUME NEW gr, NEW S, NEW c \in gr.nodes, c \in S \/ \E e \in Empty(gr, S) : c \in gr.children[e]
  PROVE  c \in Empty(gr, S) \/ c \in Promoted(gr, S)
<1> DEFINE U == {g \in gr.nodes : gr.pending[g] = 0}
<1>1. /\ S \cap U \subseteq Empty(gr, S)
      /\ \A e \in Empty(gr, S) : gr.children[e] \cap U \subseteq Empty(gr, S)
  BY DEF Empty, Reached
<1>2. CASE c \in U
  BY <1>1, <1>2
<1>3. CASE c \notin U
  BY <1>3 DEF Promoted
<1> QED BY <1>2, <1>3

\* What is promoted is opened, or below what is opened.
LEMMA PromotedBelow ==
  ASSUME NEW gr \in Graph, Linked(gr), NEW S \in SUBSET Groups, NEW g \in Promoted(gr, S)
  PROVE  /\ g \in gr.nodes /\ g \in Groups /\ gr.pending[g] # 0 /\ g \notin Empty(gr, S)
         /\ g \in S \/ S \cap Ancestors[g] # {}
<1> DEFINE U == {h \in gr.nodes : gr.pending[h] = 0}
<1>1. U \in SUBSET Groups /\ Empty(gr, S) = Reached(gr, U, S) /\ Empty(gr, S) \subseteq U
      /\ gr.nodes \subseteq Groups
  BY DEF Graph, Empty, Reached
<1>2. g \in gr.nodes /\ gr.pending[g] # 0 /\ (g \in S \/ \E e \in Empty(gr, S) : g \in gr.children[e])
  BY DEF Promoted
<1>3. ASSUME NEW e \in Empty(gr, S), g \in gr.children[e] PROVE S \cap Ancestors[g] # {}
  <2>1. e \in S \/ S \cap Ancestors[e] # {}
    BY <1>1, ReachedBelow
  <2>2. Ancestors[g] = {e} \cup Ancestors[e]
    BY <1>1, <1>2, <1>3, AncestorsOfParent DEF Linked
  <2> QED BY <2>1, <2>2
<1> QED BY <1>1, <1>2, <1>3

\* Starting tasks: events stay where they are in the channel, and behind them there are
\* outcomes of started tasks only - all there are, unless the queue has been stopped.
LEMMA StartPushes ==
  ASSUME NEW T \in SUBSET Tasks, NEW c, NEW ch \in Seq(GraphEvents), StartTasks(T, c, ch)
  PROVE  /\ channel' \in Seq(GraphEvents)
         /\ \A i \in DOMAIN ch : i \in DOMAIN channel' /\ channel'[i] = ch[i]
         /\ \A i \in DOMAIN channel' : \/ i \in DOMAIN ch
                                       \/ channel'[i].node \in T /\ channel'[i].kind \in {"ok", "err"}
         /\ \A i \in DOMAIN channel' : \A j \in DOMAIN channel' :
               i \notin DOMAIN ch /\ j \notin DOMAIN ch /\ channel'[i].node = channel'[j].node => i = j
         /\ ~ stopped => \A t \in T : comp'[t] = "running" \/ \E i \in DOMAIN channel' : channel'[i].node = t
         /\ \A t \in T : Begun(comp', t)
         /\ \A t \in Tasks \ T : comp'[t] = c[t]
<1>1. PICK answer \in [T -> {"ok", "err", "running"}] :
        /\ comp' = [t \in Tasks |-> IF t \in T THEN answer[t] ELSE c[t]]
        /\ \E order \in Orders({t \in T : answer[t] # "running"}) :
              channel' = IF stopped THEN ch
                         ELSE ch \o [i \in DOMAIN order |->
                                      [kind |-> answer[order[i]], node |-> order[i]]]
  BY DEF StartTasks
<1> DEFINE S == {t \in T : answer[t] # "running"}
<1>2. PICK order \in Orders(S) :
        channel' = IF stopped THEN ch
                   ELSE ch \o [i \in DOMAIN order |->
                                [kind |-> answer[order[i]], node |-> order[i]]]
  BY <1>1
<1> DEFINE more == [i \in DOMAIN order |-> [kind |-> answer[order[i]], node |-> order[i]]]
           n == Cardinality(S)
<1>3. /\ \A t \in T : Begun(comp', t)
      /\ \A t \in Tasks \ T : comp'[t] = c[t]
      /\ \A t \in T : comp'[t] = "running" \/ t \in S
  BY <1>1 DEF Begun
<1>4. /\ n \in Nat /\ DOMAIN order = 1..n
      /\ \A i \in 1..n : order[i] \in S
      /\ \A i, j \in 1..n : order[i] = order[j] => i = j
      /\ \A t \in S : \E i \in 1..n : order[i] = t
  <2>1. IsFiniteSet(S)
    BY TasksAreFinite
  <2> HIDE DEF S
  <2>2. \A t \in S : \E i \in DOMAIN order : order[i] = t
    BY DEF Orders
  <2> QED BY <2>1, <2>2, OrdersAreSequences
<1>5. /\ more \in Seq(GraphEvents) /\ Len(more) = n
      /\ \A i \in 1..n : more[i].node = order[i] /\ more[i].kind \in {"ok", "err"}
  <2>1. \A i \in 1..n : [kind |-> answer[order[i]], node |-> order[i]] \in GraphEvents
    BY <1>4 DEF GraphEvents
  <2>2. \A i \in 1..n : answer[order[i]] \in {"ok", "err"}
    BY <1>4
  <2> HIDE DEF S, n
  <2>3. more \in [1..n -> GraphEvents]
    BY <1>4, <2>1
  <2>4. more \in Seq(GraphEvents) /\ Len(more) = n
    BY <1>4, <2>3
  <2> QED BY <1>4, <2>2, <2>4
<1>6. CASE stopped
  <2>1. channel' = ch
    BY <1>2, <1>6
  <2> QED BY <1>3, <1>6, <2>1
<1>7. CASE ~ stopped
  <2>1. channel' = ch \o more
    BY <1>2, <1>7
  <2> HIDE DEF more, n
  <2>2. /\ ch \o more \in Seq(GraphEvents) /\ Len(ch) \in Nat
        /\ DOMAIN ch = 1..Len(ch) /\ DOMAIN (ch \o more) = 1..(Len(ch) + n)
        /\ \A i \in 1..Len(ch) : (ch \o more)[i] = ch[i]
        /\ \A i \in 1..n : (ch \o more)[Len(ch) + i] = more[i]
    BY <1>4, <1>5
  <2>3. ASSUME NEW i \in DOMAIN channel', i \notin DOMAIN ch
        PROVE  /\ i - Len(ch) \in 1..n
               /\ channel'[i].node = order[i - Len(ch)] /\ channel'[i].kind \in {"ok", "err"}
    <3>1. i - Len(ch) \in 1..n /\ i = Len(ch) + (i - Len(ch))
      BY <1>4, <2>1, <2>2, <2>3
    <3>2. channel'[i] = more[i - Len(ch)]
      BY <2>1, <2>2, <3>1
    <3> QED BY <1>5, <3>1, <3>2
  <2>4. ASSUME NEW t \in S PROVE \E i \in DOMAIN channel' : channel'[i].node = t
    <3>1. PICK k \in 1..n : order[k] = t
      BY <1>4
    <3>2. Len(ch) + k \in DOMAIN channel' /\ channel'[Len(ch) + k] = more[k]
      BY <1>4, <2>1, <2>2
    <3> QED BY <1>5, <3>1, <3>2
  <2>5. \A i \in DOMAIN ch : i \in DOMAIN channel' /\ channel'[i] = ch[i]
    BY <1>4, <2>1, <2>2
  <2>6. ASSUME NEW i \in DOMAIN channel', NEW j \in DOMAIN channel',
               i \notin DOMAIN ch, j \notin DOMAIN ch, channel'[i].node = channel'[j].node
        PROVE  i = j
    <3>1. i - Len(ch) = j - Len(ch)
      BY <1>4, <2>3, <2>6
    <3>2. i \in Int /\ j \in Int /\ Len(ch) \in Int
      BY <2>1, <2>2
    <3> QED BY <3>1, <3>2
  <2>7. \A i \in DOMAIN channel' : \/ i \in DOMAIN ch
                                   \/ channel'[i].node \in T /\ channel'[i].kind \in {"ok", "err"}
    BY <1>4, <2>3
  <2> HIDE DEF S
  <2> QED BY <1>3, <2>1, <2>2, <2>4, <2>5, <2>6, <2>7
<1> QED BY <1>6, <1>7

-----------------------------------------------------------------------------
(* The groups: steps that leave them alone.                                 *)

LEMMA GroupTypes ==
  ASSUME IInv
  PROVE  /\ graph \in Graph /\ graph.nodes \subseteq Groups /\ graph.nodes \subseteq made
         /\ made \subseteq Groups /\ rootGroups \subseteq Groups
         /\ \A t \in Tasks : GroupsOf[t] \subseteq Groups
         /\ taskNodes \subseteq Tasks
         /\ \A g \in Groups : graph.tasks[g] \subseteq Tasks /\ Ancestors[g] \subseteq Groups
BY ShapeAssumption, AncestorsAreGroups DEF IInv, TypeOK, Graph, GraphIsConsistent, NodesAreMade

\* Whether a group is lost depends on the failed groups only.
LEMMA DoomGrows ==
  ASSUME failed \cap Groups \subseteq failed', NEW g \in Groups, Doomed(g)
  PROVE  Doomed(g)'
BY AncestorsAreGroups DEF Doomed

\* An outcome that has been handled after an event is taken was handled before, or is the
\* one that is taken.
LEMMA BeforeTail ==
  ASSUME NEW ch \in Seq(GraphEvents), ch # <<>>, NEW u, Head(ch).node # u,
         \A i \in DOMAIN Tail(ch) : Tail(ch)[i].node # u
  PROVE  \A i \in DOMAIN ch : ch[i].node # u
<1> SUFFICES ASSUME NEW i \in DOMAIN ch PROVE ch[i].node # u
  OBVIOUS
<1>1. CASE i = 1
  BY <1>1
<1>2. CASE i # 1
  <2>1. i - 1 \in DOMAIN Tail(ch) /\ Tail(ch)[i - 1] = ch[i]
    BY <1>2
  <2> QED BY <2>1
<1> QED BY <1>1, <1>2

LEMMA QuietGroups ==
  ASSUME SInv, GroupInv, HandledStays,
         UNCHANGED <<graph, rootGroups, made, delivered, valued, taskNodes>>,
         announced' \cap Groups = announced \cap Groups,
         succeeded' \cap Groups = succeeded \cap Groups,
         failed' \cap Groups = failed \cap Groups,
         \A t \in Tasks : comp'[t] = "none" <=> comp[t] = "none",
         \A t \in Tasks : Begun(comp', t) => Begun(comp, t),
         Running' => /\ Running
                     /\ phase' # "new" => phase # "new"
                     /\ \A t \in Tasks : Begun(comp, t) => Begun(comp', t),
         ~ stopped' => ~ stopped /\ \A t \in Tasks : Handled(t)' => Handled(t)
  PROVE  GroupInv'
<1> USE DEF GroupInv
<1>1. /\ graph.nodes \subseteq Groups /\ made \subseteq Groups /\ rootGroups \subseteq Groups
      /\ \A t \in Tasks : GroupsOf[t] \subseteq Groups
      /\ taskNodes \subseteq Tasks /\ \A g \in Groups : graph.tasks[g] \subseteq Tasks
  BY GroupTypes DEF SInv
<1>2. \A g \in Groups : Doomed(g) => Doomed(g)'
  BY DoomGrows
<1>3. \A g : Cleared(g) => Cleared(g)'
  BY DEF Cleared, HandledStays
<1>4. GroupsAreBooked'
  BY <1>1 DEF GroupsAreBooked
<1>5. NeverTwice'
  BY DEF NeverTwice
<1>6. StartedForRoot'
  BY <1>1, <1>2 DEF StartedForRoot
<1>7. BackLinked'
  BY DEF BackLinked
<1>8. NodesHang'
  BY <1>1, <1>2 DEF NodesHang
<1>9. GoneIsCleared'
  BY <1>1, <1>2, <1>3 DEF GoneIsCleared
<1>10. RootsRun'
  BY <1>1 DEF RootsRun
<1>11. OutcomesAreUsed'
  BY DEF OutcomesAreUsed
<1>12. TaskNodesBegun'
  BY <1>1 DEF TaskNodesBegun
<1> QED BY <1>4, <1>5, <1>6, <1>7, <1>8, <1>9, <1>10, <1>11, <1>12

LEMMA SettleTaskGroups == ASSUME SInv, GroupInv, NEW t \in Tasks, SettleTask(t) PROVE GroupInv'
<1>1. comp \in [Tasks -> CompStates] /\ channel \in Seq(GraphEvents)
  BY DEF SInv, IInv, TypeOK
<1>2. /\ \A u \in Tasks \ {t} : comp'[u] = comp[u]
      /\ \A u \in Tasks : comp'[u] = "none" <=> comp[u] = "none"
      /\ \A u \in Tasks : Begun(comp', u) <=> Begun(comp, u)
      /\ ~ Settled(comp, t)
      /\ channel' = channel \/ \E e \in GraphEvents : e.node = t /\ channel' = Append(channel, e)
      /\ ~ Settled(comp', t) \/ stopped \/ \E e \in GraphEvents : e.node = t /\ channel' = Append(channel, e)
      /\ UNCHANGED <<stopped, phase, graph, rootGroups, made, delivered, valued, taskNodes,
                     announced, succeeded, failed>>
  BY <1>1, EventsAreTyped DEF SettleTask, Push, Settled, Begun, graphVars, history
<1>3. HandledStays
  <2> SUFFICES ASSUME NEW u \in Tasks, Handled(u) PROVE Handled(u)'
    BY DEF HandledStays
  <2>1. u # t
    BY <1>2 DEF Handled
  <2> QED BY <1>1, <1>2, <2>1, AppendStays DEF Handled, Settled
<1>4. ASSUME ~ stopped, NEW u \in Tasks, Handled(u)' PROVE Handled(u)
  <2>1. \A e \in GraphEvents : channel' = Append(channel, e)
           => /\ Len(channel) + 1 \in DOMAIN channel' /\ channel'[Len(channel) + 1] = e
              /\ \A i \in DOMAIN channel : i \in DOMAIN channel' /\ channel'[i] = channel[i]
    BY <1>1
  <2>2. u # t
    BY <1>2, <1>4, <2>1 DEF Handled, Settled
  <2>3. \A i \in DOMAIN channel : i \in DOMAIN channel' /\ channel'[i] = channel[i]
    BY <1>2, <2>1
  <2> QED BY <1>2, <1>4, <2>2, <2>3 DEF Handled, Settled
<1> QED BY <1>2, <1>3, <1>4, QuietGroups DEF Running

LEMMA PrimeEarlyGroups == ASSUME SInv, GroupInv, NEW t \in Tasks, PrimeEarly(t) PROVE GroupInv'
<1>1. comp \in [Tasks -> CompStates]
  BY DEF SInv, IInv, TypeOK
<1>2. /\ \A u \in Tasks : comp'[u] = "none" <=> comp[u] = "none"
      /\ \A u \in Tasks : Begun(comp', u) <=> Begun(comp, u)
      /\ \A u \in Tasks : Settled(comp', u) <=> Settled(comp, u)
      /\ UNCHANGED <<stopped, phase, graph, rootGroups, made, delivered, valued, taskNodes,
                     announced, succeeded, failed, channel>>
  BY <1>1 DEF PrimeEarly, Settled, Begun, graphVars, loopVars, history
<1>3. HandledStays
  BY <1>2, ChannelStays DEF SInv
<1>4. \A u \in Tasks : Handled(u)' => Handled(u)
  BY <1>2 DEF Handled, Settled
<1> QED BY <1>2, <1>3, <1>4, QuietGroups DEF Running

LEMMA PumpGroups ==
  ASSUME SInv, GroupInv, NEW s \in Streams,
         PumpItems(s) \/ PumpSuccess(s) \/ PumpFailure(s) \/ PumpCancelled(s)
  PROVE  GroupInv'
<1>1. /\ UNCHANGED <<stopped, phase, graph, rootGroups, made, delivered, valued, taskNodes,
                     announced, succeeded, failed, comp>>
      /\ channel \in Seq(GraphEvents)
  BY DEF PumpItems, PumpSuccess, PumpFailure, PumpCancelled, graphVars, loopVars, history,
         SInv, IInv, TypeOK
<1>2. \/ channel' = channel
      \/ \E e \in GraphEvents : e.node \notin Tasks /\ channel' = Append(channel, e)
  BY EventsAreTyped, DisjointAssumption
     DEF PumpItems, PumpSuccess, PumpFailure, PumpCancelled, Push, loopVars
<1>3. HandledStays
  BY <1>1, <1>2, ChannelStays DEF SInv
<1>4. \A i \in DOMAIN channel : i \in DOMAIN channel' /\ channel'[i] = channel[i]
  BY <1>1, <1>2
<1>5. \A u \in Tasks : Handled(u)' => Handled(u)
  BY <1>1, <1>4 DEF Handled, Settled
<1> QED BY <1>1, <1>3, <1>5, QuietGroups DEF Running

LEMMA LoopGroups ==
  ASSUME SInv, GroupInv, StreamInv, Wake \/ EndBatch \/ Resume \/ UNCHANGED vars
  PROVE  GroupInv'
<1>1. /\ UNCHANGED <<graph, rootGroups, made, delivered, valued, taskNodes,
                     announced, succeeded, failed, comp, channel>>
      /\ ~ stopped' => ~ stopped
      /\ phase # "new" \/ phase' = phase
      /\ phase' = "closed" \/ phase # "closed"
  BY DEF Wake, EndBatch, Resume, vars, graphVars, asyncVars, loopVars, history, SInv, IInv, TypeOK
<1>2. HandledStays
  BY <1>1, ChannelStays DEF SInv
<1>3. \A u \in Tasks : Handled(u)' => Handled(u)
  BY <1>1 DEF Handled, Settled
<1>4. Running' => Running
  BY DEF Running, Wake, EndBatch, Resume, vars, loopVars
<1> QED BY <1>1, <1>2, <1>3, <1>4, QuietGroups

LEMMA CancelGroups == ASSUME SInv, GroupInv, Cancel PROVE GroupInv'
<1>1. /\ UNCHANGED <<graph, rootGroups, made, delivered, valued, taskNodes,
                     announced, succeeded, failed>>
      /\ channel' = Append(channel, STOP) /\ stopped' /\ ~ Running'
      /\ comp' = [t \in Tasks |-> IF t \in CancelledTasks /\ comp[t] \in {"idle", "early", "running"}
                                  THEN "aborted" ELSE comp[t]]
  BY DEF Cancel, CancelWork, WakeUp, graphVars, history, Running
<1>2. /\ \A t \in Tasks : Settled(comp, t) => Settled(comp', t)
      /\ \A t \in Tasks : comp'[t] = "none" <=> comp[t] = "none"
      /\ \A t \in Tasks : Begun(comp', t) => Begun(comp, t)
  BY <1>1 DEF Settled, Begun
<1>3. STOP \in GraphEvents /\ STOP.node \notin Tasks
  BY EventsAreTyped, DisjointAssumption
<1>4. HandledStays
  BY <1>1, <1>2, <1>3, ChannelStays DEF SInv
<1> QED BY <1>1, <1>2, <1>4, QuietGroups

LEMMA StreamEndGroups ==
  ASSUME SInv, GroupInv, NEW s \in Streams, HandleStreamSuccess(s) \/ HandleStreamFailure(s)
  PROVE  GroupInv'
<1>1. /\ UNCHANGED <<stopped, phase, graph, rootGroups, made, delivered, valued, taskNodes,
                     announced, comp>>
      /\ channel # <<>> /\ channel' = Tail(channel) /\ Head(channel).node = s
      /\ succeeded' = succeeded \/ succeeded' = succeeded \cup {s}
      /\ failed' = failed \/ failed' = failed \cup {s}
      /\ channel \in Seq(GraphEvents)
  BY DEF HandleStreamSuccess, HandleStreamFailure, Handling, asyncVars, SInv, IInv, TypeOK
<1>2. succeeded' \cap Groups = succeeded \cap Groups /\ failed' \cap Groups = failed \cap Groups
  BY <1>1, DisjointAssumption
<1>3. HandledStays
  BY <1>1, ChannelStays DEF SInv
<1>4. ASSUME NEW u \in Tasks, Handled(u)' PROVE Handled(u)
  <2>1. u # s
    BY DisjointAssumption
  <2>2. \A i \in DOMAIN Tail(channel) : Tail(channel)[i].node # u
    BY <1>1, <1>4 DEF Handled
  <2> QED BY <1>1, <1>4, <2>1, <2>2, BeforeTail DEF Handled, Settled
<1> QED BY <1>1, <1>2, <1>3, <1>4, QuietGroups DEF Running

\* The root groups are started: this is the first step, and nothing has been started before.
LEMMA StartEventsGroups == ASSUME SInv, GroupInv, StreamInv, StartEvents PROVE GroupInv'
<1> DEFINE T == RootTasks \ taskNodes
<1> USE DEF GroupInv
<1>1. /\ UNCHANGED <<graph, rootGroups, made, delivered, valued, stopped,
                     announced, succeeded, failed>>
      /\ StartTasks(T, comp, channel) /\ taskNodes' = taskNodes \cup RootTasks
      /\ phase = "new"
  BY DEF StartEvents, history
<1>2. taskNodes = {} /\ channel = <<>> /\ \A t \in Tasks : ~ Begun(comp, t)
  BY <1>1 DEF StreamInv, NewStarts
<1>3. /\ graph.nodes \subseteq Groups /\ made \subseteq Groups /\ rootGroups \subseteq Groups
      /\ \A t \in Tasks : GroupsOf[t] \subseteq Groups
      /\ \A g \in Groups : graph.tasks[g] \subseteq Tasks
      /\ rootGroups \subseteq graph.nodes /\ channel \in Seq(GraphEvents)
  BY GroupTypes DEF SInv, IInv, TypeOK, OrderInv, RootsAreOutermost
<1>4. T \in SUBSET Tasks /\ T = RootTasks
  BY <1>2, <1>3 DEF RootTasks
<1> HIDE DEF T
<1>5. /\ \A t \in T : Begun(comp', t)
      /\ \A t \in Tasks \ T : comp'[t] = comp[t]
      /\ ~ stopped => \A t \in T : comp'[t] = "running" \/ \E i \in DOMAIN channel' : channel'[i].node = t
  <2>1. StartTasks(T, comp, channel) /\ T \in SUBSET Tasks /\ channel \in Seq(GraphEvents)
    BY <1>1, <1>3, <1>4
  <2>2. \A t \in T : Begun(comp', t)
    BY <2>1, StartPushes
  <2>3. \A t \in Tasks \ T : comp'[t] = comp[t]
    BY <2>1, StartPushes
  <2>4. ~ stopped => \A t \in T : comp'[t] = "running" \/ \E i \in DOMAIN channel' : channel'[i].node = t
    BY <2>1, StartPushes
  <2> QED BY <2>2, <2>3, <2>4
<1>6. \A t \in Tasks : ~ Handled(t) /\ ~ Settled(comp, t)
  BY <1>2 DEF Handled, Begun, Settled
<1>7. HandledStays
  BY <1>6 DEF HandledStays
<1>8. \A t \in T : \E g \in GroupsOf[t] : g \in rootGroups
  <2>1. \A g \in graph.nodes : \A t \in graph.tasks[g] : g \in GroupsOf[t]
    BY DEF SInv, IInv, GraphIsConsistent, TasksAreEntered
  <2> QED BY <1>3, <1>4, <2>1 DEF RootTasks
<1>9. \A t \in Tasks : comp'[t] # "none" <=> comp[t] # "none"
  <2>1. \A t \in T : comp[t] # "none"
    BY <1>3, <1>4, FromInv DEF SInv, RootTasks, Sound, Entered, Existing
  <2>2. \A t \in T : comp'[t] # "none"
    BY <1>5 DEF Begun
  <2> QED BY <1>5, <2>1, <2>2
<1>10. \A g \in Groups : Doomed(g)' = Doomed(g)
  BY <1>1 DEF Doomed
<1>11. \A g : Cleared(g) => Cleared(g)'
  BY <1>9, <1>7 DEF Cleared, HandledStays
<1>12. GroupsAreBooked' /\ NeverTwice' /\ BackLinked'
  BY <1>1 DEF GroupsAreBooked, NeverTwice, BackLinked
<1>13. StartedForRoot'
  <2> SUFFICES ASSUME NEW t \in Tasks, Begun(comp', t), t \notin delivered'
               PROVE  \E g \in GroupsOf[t] : g \in rootGroups' \/ Doomed(g)'
    BY DEF StartedForRoot
  <2>1. t \in T
    BY <1>2, <1>5 DEF Begun
  <2> QED BY <1>1, <1>8, <2>1
<1>14. NodesHang'
  BY <1>1, <1>3, <1>10 DEF NodesHang
<1>15. GoneIsCleared'
  BY <1>1, <1>3, <1>10, <1>11 DEF GoneIsCleared
<1>16. RootsRun'
  BY <1>1, <1>4, <1>5 DEF RootsRun, RootTasks
<1>17. OutcomesAreUsed'
  <2> SUFFICES ASSUME ~ stopped, NEW t \in Tasks, Handled(t)' PROVE FALSE
    BY <1>1 DEF OutcomesAreUsed
  <2>1. Settled(comp', t) /\ \A i \in DOMAIN channel' : channel'[i].node # t
    BY DEF Handled, Settled
  <2>2. t \in T
    BY <1>5, <1>6, <2>1 DEF Settled
  <2> QED BY <1>5, <2>1, <2>2 DEF Settled
<1>18. TaskNodesBegun'
  BY <1>1, <1>2, <1>4, <1>5 DEF TaskNodesBegun
<1> QED BY <1>12, <1>13, <1>14, <1>15, <1>16, <1>17, <1>18

\* A failure: what goes with the groups that are hit is lost.
LEMMA HandleTaskFailureGroups ==
  ASSUME SInv, GroupInv, NEW t \in Tasks, HandleTaskFailure(t)
  PROVE  GroupInv'
<1> DEFINE hit  == GroupsOf[t] \cap graph.nodes
           gone == Subtree(graph, hit)
           lost == Orphaned(graph, gone) \cup {t}
<1> USE DEF GroupInv
<1>1. /\ graph' = Remove(graph, gone)
      /\ rootGroups' = rootGroups \ hit
      /\ taskNodes' = taskNodes \ lost /\ valued' = valued \ lost
      /\ failed' = failed \cup hit
      /\ channel # <<>> /\ channel' = Tail(channel) /\ Head(channel).node = t
      /\ UNCHANGED <<comp, made, announced, succeeded, delivered, stopped, phase>>
  BY DEF HandleTaskFailure, asyncVars, Handling
<1>2. /\ graph \in Graph /\ graph.nodes \subseteq Groups /\ made \subseteq Groups
      /\ rootGroups \subseteq graph.nodes /\ graph.nodes \subseteq made
      /\ \A u \in Tasks : GroupsOf[u] \subseteq Groups
      /\ Linked(graph) /\ IInv /\ channel \in Seq(GraphEvents)
  BY GroupTypes DEF SInv, IInv, TypeOK, OrderInv, RootsAreOutermost
<1>3. /\ hit \subseteq gone /\ gone \subseteq graph.nodes /\ hit \subseteq Groups
      /\ \A h \in gone : h \in hit \/ hit \cap Ancestors[h] # {}
      /\ \A r \in gone : graph.children[r] \cap graph.nodes \subseteq gone
  <2>1. hit \in SUBSET Groups /\ graph.nodes \in SUBSET Groups
    BY <1>2
  <2>2. \A h \in gone : h \in graph.nodes /\ (h \in hit \/ hit \cap Ancestors[h] # {})
    BY <1>2, <2>1, ReachedBelow DEF Subtree
  <2>3. /\ hit \subseteq gone
        /\ \A r \in gone : graph.children[r] \cap graph.nodes \subseteq gone
    BY DEF Subtree, Reached
  <2> QED BY <2>1, <2>2, <2>3
<1>4. /\ graph'.nodes = graph.nodes \ gone
      /\ \A g \in graph.nodes \ gone : /\ graph'.children[g] = graph.children[g]
                                       /\ graph'.tasks[g] = graph.tasks[g]
                                       /\ graph'.pending[g] = graph.pending[g]
  BY <1>1, <1>2 DEF Remove
<1>5. \A u \in lost : GroupsOf[u] \cap graph'.nodes = {}
  <2>1. \A u \in Orphaned(graph, gone) : GroupsOf[u] \cap (graph.nodes \ gone) = {}
    BY DEF Orphaned
  <2>2. GroupsOf[t] \cap (graph.nodes \ gone) = {}
    BY <1>3
  <2> QED BY <1>4, <2>1, <2>2
<1>6. HandledStays
  BY <1>1, <1>2, ChannelStays
<1>7. \A g : Cleared(g) => Cleared(g)'
  BY <1>1, <1>6 DEF Cleared, HandledStays
<1>8. /\ \A g \in Groups : Doomed(g) => Doomed(g)'
      /\ \A g \in gone : Doomed(g)'
  BY <1>1, <1>3 DEF Doomed
<1>9. t \in lost
  OBVIOUS
<1> HIDE DEF hit, gone, lost
<1>10. GroupsAreBooked'
  BY <1>1, <1>2, <1>3, <1>4 DEF GroupsAreBooked
<1>11. NeverTwice'
  BY <1>1, <1>4 DEF NeverTwice
<1>12. StartedForRoot'
  BY <1>1, <1>2, <1>3, <1>8 DEF StartedForRoot
<1>13. BackLinked'
  BY <1>4 DEF BackLinked
<1>14. NodesHang'
  <2> SUFFICES ASSUME NEW g \in graph'.nodes, g \notin rootGroups', ~ Doomed(g)'
               PROVE  Parent[g] \in graph'.nodes
    BY DEF NodesHang
  <2>1. g \in graph.nodes /\ g \notin gone /\ g \notin rootGroups /\ ~ Doomed(g)
    BY <1>1, <1>2, <1>3, <1>4, <1>8
  <2>2. Parent[g] \in graph.nodes /\ g \in graph.children[Parent[g]]
    BY <2>1 DEF NodesHang, BackLinked
  <2> QED BY <1>3, <1>4, <2>1, <2>2
<1>15. GoneIsCleared'
  BY <1>1, <1>2, <1>4, <1>7, <1>8 DEF GoneIsCleared
<1>16. RootsRun'
  <2>1. \A g \in rootGroups' : g \in rootGroups /\ g \in graph.nodes \ gone
    BY <1>1, <1>2, <1>3 DEF SInv, OrderInv, RootsAreOutermost, hit
  <2> QED BY <1>1, <1>4, <2>1 DEF RootsRun, Running
<1>17. OutcomesAreUsed'
  <2> SUFFICES ASSUME ~ stopped, NEW u \in Tasks, Handled(u)', u \notin valued' \cup delivered'
               PROVE  GroupsOf[u] \cap graph'.nodes = {}
    BY <1>1 DEF OutcomesAreUsed
  <2>1. CASE u \in lost
    BY <1>5, <2>1
  <2>2. CASE u \notin lost
    <3>1. u # t /\ \A i \in DOMAIN Tail(channel) : Tail(channel)[i].node # u
      BY <1>1, <1>9, <2>2 DEF Handled
    <3>2. Handled(u)
      BY <1>1, <1>2, <3>1, BeforeTail DEF Handled, Settled
    <3> QED BY <1>1, <1>4, <2>2, <3>2 DEF OutcomesAreUsed
  <2> QED BY <2>1, <2>2
<1>18. TaskNodesBegun'
  BY <1>1 DEF TaskNodesBegun, Running
<1> QED BY <1>10, <1>11, <1>12, <1>13, <1>14, <1>15, <1>16, <1>17, <1>18

-----------------------------------------------------------------------------
(* The groups: handlers that take in new work.                              *)

\* What such a handler does to the history, and to the outcome that it handles.
Reports(work, fin, gr, T) ==
  /\ phase = "draining" /\ UNCHANGED <<failed, stopped>>
  /\ announced' \cap Groups = (announced \cap Groups) \cup Promoted(gr, Openings(work, fin))
  /\ taskNodes' \subseteq taskNodes \cup T
  /\ ~ stopped => \A u \in Tasks \ T : Handled(u)' =>
                     \/ Handled(u) \/ u \in valued' \cup delivered'
                     \/ GroupsOf[u] \cap graph.nodes = {}
  /\ ~ stopped => \A u \in T : ~ Handled(u)'

\* No group is announced that has been announced, or reported on, before.
LEMMA GrowsNewRoots ==
  ASSUME SInv, IInv', GroupsAreBooked, NEW work, NEW fin, NEW gr, NEW T, Grows(work, fin, gr, T),
         NEW g \in Promoted(gr, Openings(work, fin))
  PROVE  /\ g \in gr.nodes /\ g \in Groups /\ g \in made' /\ gr.pending[g] # 0
         /\ g \notin Empty(gr, Openings(work, fin))
         /\ g \notin announced /\ g \notin succeeded \cup failed /\ g \notin fin
         /\ \/ g \notin made
            \/ \E f \in fin : f \in Ancestors[g]
<1> DEFINE S == Openings(work, fin)
<1>1. /\ Linked(gr) /\ gr \in Graph /\ gr.nodes = (graph.nodes \cup work.groups) \ fin
      /\ Sound(gr, made', Existing', valued', delivered')
      /\ work.groups \cap made = {} /\ work.groups \subseteq Groups
  BY DEF Grows, TakesIn, Work, Sound
<1>2. /\ S \in SUBSET Groups
      /\ \A h \in made : work.groups \cap Ancestors[h] = {}
      /\ \A f \in fin : f \in graph.nodes
      /\ \A c \in S : \/ c \in work.groups /\ Ancestors[c] = {}
                      \/ \E f \in fin : Ancestors[c] = {f} \cup Ancestors[f]
  BY GrowsFacts
<1> HIDE DEF S
<1>3. /\ g \in gr.nodes /\ g \in Groups /\ gr.pending[g] # 0 /\ g \notin Empty(gr, S)
      /\ g \in S \/ S \cap Ancestors[g] # {}
  BY <1>1, <1>2, PromotedBelow DEF S
<1>4. g \notin made \/ \E f \in fin : f \in Ancestors[g]
  <2>1. PICK c \in S : c = g \/ c \in Ancestors[g]
    BY <1>3
  <2>2. CASE c \in work.groups
    BY <1>1, <1>2, <2>1, <2>2
  <2>3. ASSUME NEW f \in fin, Ancestors[c] = {f} \cup Ancestors[f] PROVE f \in Ancestors[g]
    BY <1>3, <2>1, <2>3, AncestorsAreTransitive
  <2> QED BY <1>2, <2>2, <2>3
<1>5. g \in made => g \in graph.nodes
  BY <1>1, <1>3
<1>6. g \notin rootGroups \/ g \notin graph.nodes \/ g \notin made
  BY <1>2, <1>4 DEF SInv, OrderInv, RootsAreOutermost
<1>7. g \notin announced /\ g \notin succeeded \cup failed
  BY <1>3, <1>5, <1>6 DEF GroupsAreBooked
<1>8. g \in made' /\ g \notin fin
  BY <1>1, <1>3 DEF Sound
<1> QED BY <1>3, <1>4, <1>7, <1>8 DEF S

LEMMA GrowsGroups ==
  ASSUME SInv, IInv', GroupInv, NeverTwice', NEW work, NEW fin, NEW gr, NEW T,
         Grows(work, fin, gr, T), Reports(work, fin, gr, T)
  PROVE  GroupInv'
<1> DEFINE S == Openings(work, fin)
           E == Empty(gr, S)
           P == Promoted(gr, S)
<1> USE DEF GroupInv
<1>1. /\ graph.nodes \subseteq Groups /\ made \subseteq Groups /\ rootGroups \subseteq Groups
      /\ \A t \in Tasks : GroupsOf[t] \subseteq Groups
      /\ taskNodes \subseteq Tasks /\ graph.nodes \subseteq made
      /\ rootGroups \subseteq graph.nodes
      /\ \A u \in Existing : GroupsOf[u] \subseteq made
      /\ \A h \in made : Ancestors[h] \subseteq made
  BY GroupTypes, FromInv DEF SInv, OrderInv, RootsAreOutermost, MadeIsClosed
<1>2. /\ gr \in Graph /\ gr.nodes = (graph.nodes \cup work.groups) \ fin
      /\ Sound(gr, made', Existing', valued', delivered')
      /\ work.groups \cap made = {} /\ work.groups \subseteq Groups
      /\ work.tasks \cap Existing = {} /\ work.tasks \subseteq Tasks
      /\ WorkHangs(work) /\ HandledStays
      /\ made' = made \cup work.groups /\ Existing' = Existing \cup work.tasks
      /\ fin \subseteq rootGroups
      /\ \A f \in fin : \A u \in Existing' : f \in GroupsOf[u] => u \in delivered'
      /\ delivered \subseteq delivered' /\ valued \cup delivered \subseteq valued' \cup delivered'
      /\ succeeded' \cap Groups = (succeeded \cap Groups) \cup fin
      /\ \A g \in gr.nodes : gr.children[g] = ChildrenWith(work, g)
      /\ \A g \in rootGroups \ fin : /\ graph.pending[g] # 0 => gr.pending[g] # 0
                                     /\ gr.tasks[g] \subseteq graph.tasks[g] \cup T
      /\ \A g \in P : gr.tasks[g] \subseteq taskNodes \cup T
      /\ rootGroups' = (rootGroups \ fin) \cup P
      /\ graph' = Remove(gr, E)
  BY DEF Grows, TakesIn, Work, Sound, Prune
<1>3. /\ T \in SUBSET Existing' /\ T \subseteq Tasks
      /\ \A u \in T : ~ Begun(Produced(work), u) /\ Begun(comp', u)
      /\ \A u \in Tasks \ T : comp'[u] = Produced(work)[u]
      /\ \A u \in T : GroupsOf[u] \cap rootGroups' # {}
  BY DEF Grows, Starts, Existing
<1>4. /\ \A g \in made : ~ Unclear(g) => \A a \in {g} \cup Ancestors[g] : Cleared(a)'
      /\ \A f \in fin : /\ f \in graph.nodes /\ f \in made
                        /\ \A a \in {f} \cup Ancestors[f] : Cleared(a)'
      /\ graph'.nodes = gr.nodes \ E
      /\ \A e \in E : \A a \in {e} \cup Ancestors[e] : Cleared(a)'
  BY GrowsFacts
<1>5. \A g \in P : /\ g \in gr.nodes \ E /\ g \in made' /\ gr.pending[g] # 0
                   /\ g \notin announced /\ g \notin succeeded \cup failed /\ g \notin fin
  BY GrowsNewRoots
<1>6. \A c \in gr.nodes : c \in S \/ (\E e \in E : c \in gr.children[e]) => c \in E \/ c \in P
  BY OpenedIsPromoted
<1>7. /\ {g \in work.groups : Parent[g] = NoGroup} \subseteq S
      /\ \A f \in fin : ChildrenWith(work, f) \subseteq S
  BY DEF Openings
<1>8. /\ phase = "draining" /\ UNCHANGED <<failed, stopped>>
      /\ announced' \cap Groups = (announced \cap Groups) \cup P
      /\ taskNodes' \subseteq taskNodes \cup T
      /\ ~ stopped => \A u \in Tasks \ T : Handled(u)' =>
                         \/ Handled(u) \/ u \in valued' \cup delivered'
                         \/ GroupsOf[u] \cap graph.nodes = {}
      /\ ~ stopped => \A u \in T : ~ Handled(u)'
  BY DEF Reports
<1>9. \A u \in Tasks \ T : Begun(comp', u) <=> Begun(comp, u)
  <2>1. \A u \in work.tasks : ~ Begun(Produced(work), u) /\ ~ Begun(comp, u)
    BY <1>2 DEF Produced, Begun, Existing
  <2>2. \A u \in Tasks \ work.tasks : Produced(work)[u] = comp[u]
    BY DEF Produced
  <2> QED BY <1>3, <2>1, <2>2 DEF Begun
<1>10. \A g \in gr.nodes \ E : /\ g \in Groups
                               /\ graph'.children[g] = gr.children[g]
                               /\ graph'.tasks[g] = gr.tasks[g]
                               /\ graph'.pending[g] = gr.pending[g]
  BY <1>1, <1>2 DEF Remove
<1>11. \A g : Doomed(g)' <=> Doomed(g)
  BY <1>8 DEF Doomed
<1> HIDE DEF S, E, P
<1>12. \A g \in graph.nodes : g \notin work.groups /\ (Parent[g] \in Groups => Parent[g] \in made)
  BY <1>1, <1>2, ParentIsAncestor
<1>13. \A g \in rootGroups : g \notin fin => g \in gr.nodes \ E
  <2>1. \A g \in rootGroups' : g \in graph'.nodes
    <3>1. OrderInv'
      BY GrowsOrder
    <3> QED BY <3>1 DEF OrderInv, RootsAreOutermost
  <2> QED BY <1>2, <1>4, <2>1
<1>14. GroupsAreBooked'
  <2>1. \A g \in Groups : g \in made' /\ g \notin made => g \notin announced /\ g \notin succeeded \cup failed
    BY DEF GroupsAreBooked
  <2>2. rootGroups' \subseteq announced'
    BY <1>1, <1>2, <1>5, <1>8 DEF GroupsAreBooked
  <2>3. announced' \cap Groups \subseteq made'
    BY <1>2, <1>5, <1>8 DEF GroupsAreBooked
  <2>4. announced' \cap Groups \subseteq rootGroups' \cup succeeded' \cup failed'
    BY <1>2, <1>8 DEF GroupsAreBooked
  <2>5. (succeeded' \cup failed') \cap Groups \subseteq made'
    BY <1>1, <1>2, <1>8 DEF GroupsAreBooked
  <2>6. graph'.nodes \cap announced' \subseteq rootGroups'
    BY <1>1, <1>2, <1>4, <1>8, <2>1 DEF GroupsAreBooked
  <2>7. graph'.nodes \cap (succeeded' \cup failed') = {}
    BY <1>1, <1>2, <1>4, <1>8, <2>1 DEF GroupsAreBooked
  <2> QED BY <2>2, <2>3, <2>4, <2>5, <2>6, <2>7 DEF GroupsAreBooked
<1>15. StartedForRoot'
  <2> SUFFICES ASSUME NEW t \in Tasks, Begun(comp', t), t \notin delivered'
               PROVE  \E g \in GroupsOf[t] : g \in rootGroups' \/ Doomed(g)'
    BY DEF StartedForRoot
  <2>1. CASE t \in T
    BY <1>3, <2>1
  <2>2. CASE t \notin T
    <3>1. Begun(comp, t) /\ t \notin delivered
      BY <1>2, <1>9, <2>2
    <3>2. PICK g \in GroupsOf[t] : g \in rootGroups \/ Doomed(g)
      BY <3>1 DEF StartedForRoot
    <3>3. g \notin fin
      BY <1>2, <3>1 DEF Begun, Existing
    <3> QED BY <1>2, <1>11, <3>2, <3>3
  <2> QED BY <2>1, <2>2
<1>16. BackLinked'
  <2> SUFFICES ASSUME NEW g \in graph'.nodes, Parent[g] \in graph'.nodes
               PROVE  g \in graph'.children[Parent[g]]
    BY DEF BackLinked
  <2>1. g \in gr.nodes /\ Parent[g] \in gr.nodes \ E
    BY <1>4
  <2>2. g \in ChildrenWith(work, Parent[g])
    <3>1. CASE g \in work.groups
      BY <3>1 DEF ChildrenWith
    <3>2. CASE g \notin work.groups
      <4>1. g \in graph.nodes /\ Parent[g] \in graph.nodes
        BY <1>1, <1>2, <1>12, <2>1, <3>2
      <4> QED BY <4>1 DEF BackLinked, ChildrenWith
    <3> QED BY <3>1, <3>2
  <2> QED BY <1>2, <1>10, <2>1, <2>2
<1>17. NodesHang'
  <2> SUFFICES ASSUME NEW g \in graph'.nodes, g \notin P, ~ Doomed(g), g \notin rootGroups'
               PROVE  Parent[g] \in graph'.nodes
    BY <1>2, <1>11 DEF NodesHang
  <2>1. g \in gr.nodes /\ g \notin E /\ g \in Groups
    BY <1>4, <1>10
  <2>2. g \notin S /\ \A e \in E : g \notin gr.children[e]
    BY <1>6, <2>1
  <2>3. Parent[g] \in gr.nodes => Parent[g] \in graph'.nodes
    <3> SUFFICES ASSUME Parent[g] \in gr.nodes, Parent[g] \in E PROVE FALSE
      BY <1>4
    <3>1. g \notin ChildrenWith(work, Parent[g])
      BY <1>2, <2>2
    <3>2. g \notin work.groups
      BY <3>1 DEF ChildrenWith
    <3>3. g \in graph.nodes /\ Parent[g] \in graph.nodes
      BY <1>1, <1>2, <1>12, <2>1, <3>2
    <3> QED BY <3>1, <3>3 DEF BackLinked, ChildrenWith
  <2>4. Parent[g] \notin fin
    <3> SUFFICES ASSUME Parent[g] \in fin PROVE FALSE
      OBVIOUS
    <3>1. g \notin ChildrenWith(work, Parent[g])
      BY <1>7, <2>2
    <3>2. g \notin work.groups
      BY <3>1 DEF ChildrenWith
    <3>3. g \in graph.nodes /\ Parent[g] \in graph.nodes
      BY <1>2, <1>4, <2>1, <3>2
    <3> QED BY <3>1, <3>3 DEF BackLinked, ChildrenWith
  <2>5. CASE g \in graph.nodes
    <3>1. g \notin rootGroups
      BY <1>2, <2>1
    <3>2. Parent[g] \in graph.nodes
      BY <2>5, <3>1 DEF NodesHang
    <3> QED BY <1>2, <2>3, <2>4, <3>2
  <2>6. CASE g \in work.groups
    <3>1. Parent[g] # NoGroup
      BY <1>7, <2>2, <2>6
    <3>2. CASE Parent[g] \in work.groups
      BY <1>2, <2>3, <2>4, <3>2
    <3>3. CASE Parent[g] \in made /\ Unclear(Parent[g])
      <4>1. Parent[g] \in Groups /\ ~ Doomed(Parent[g])
        BY <1>1, <2>1, <3>3, DoomSpreads
      <4>2. Parent[g] \in graph.nodes
        BY <3>3, <4>1 DEF GoneIsCleared, Unclear
      <4> QED BY <1>2, <2>3, <2>4, <4>2
    <3> QED BY <1>2, <2>6, <3>1, <3>2, <3>3 DEF WorkHangs
  <2> QED BY <1>2, <2>1, <2>5, <2>6
<1>18. GoneIsCleared'
  <2> SUFFICES ASSUME NEW g \in made', g \notin graph'.nodes, ~ Doomed(g)
               PROVE  \A a \in {g} \cup Ancestors[g] : Cleared(a)'
    BY <1>11 DEF GoneIsCleared
  <2>1. CASE g \in fin \/ g \in E
    BY <1>4, <2>1
  <2>2. CASE g \notin fin /\ g \notin E
    <3>1. g \in made /\ g \notin graph.nodes
      BY <1>2, <1>4, <2>2
    <3>2. ~ Unclear(g)
      BY <3>1 DEF GoneIsCleared, Unclear
    <3> QED BY <1>4, <3>1, <3>2
  <2> QED BY <2>1, <2>2
<1>19. \A t \in taskNodes \cup T : Begun(comp', t)
  BY <1>1, <1>3, <1>8, <1>9 DEF TaskNodesBegun, Running
<1>20. RootsRun'
  <2> SUFFICES ASSUME NEW g \in rootGroups'
               PROVE  graph'.pending[g] # 0 /\ \A t \in graph'.tasks[g] : Begun(comp', t)
    BY DEF RootsRun
  <2>1. CASE g \in P
    BY <1>2, <1>5, <1>10, <1>19, <2>1
  <2>2. CASE g \in rootGroups /\ g \notin fin
    <3>1. /\ g \in gr.nodes \ E /\ graph.pending[g] # 0
          /\ \A t \in graph.tasks[g] : Begun(comp, t) /\ t \in Tasks
      BY <1>1, <1>8, <1>13, <2>2, GroupTypes DEF RootsRun, Running, SInv
    <3>2. gr.pending[g] # 0 /\ gr.tasks[g] \subseteq graph.tasks[g] \cup T
      BY <1>2, <2>2, <3>1
    <3>3. \A t \in graph.tasks[g] : Begun(comp', t)
      BY <1>3, <1>9, <3>1
    <3> QED BY <1>3, <1>10, <3>1, <3>2, <3>3
  <2> QED BY <1>2, <2>1, <2>2
<1>21. OutcomesAreUsed'
  <2> SUFFICES ASSUME ~ stopped, NEW u \in Tasks, Handled(u)', u \notin valued' \cup delivered'
               PROVE  GroupsOf[u] \cap graph'.nodes = {}
    BY <1>8 DEF OutcomesAreUsed
  <2>1. u \notin T
    BY <1>8
  <2>2. GroupsOf[u] \cap graph.nodes = {}
    BY <1>2, <1>8, <2>1 DEF OutcomesAreUsed
  <2>3. u \in Existing
    <3>1. Begun(comp', u)
      BY DEF Handled, Settled, Begun
    <3> QED BY <1>9, <2>1, <3>1 DEF Begun, Existing
  <2> QED BY <1>1, <1>2, <1>4, <2>2, <2>3
<1>22. TaskNodesBegun'
  BY <1>8, <1>19 DEF TaskNodesBegun
<1> QED BY <1>14, <1>15, <1>16, <1>17, <1>18, <1>20, <1>21, <1>22

\* The outcome of a task that is started goes into the channel, and no other one is handled
\* than the one taken from there.
LEMMA StartsAreHandled ==
  ASSUME SInv, NEW kind, NEW node, Handling(kind, node), NEW work, NEW T \in SUBSET Tasks,
         TakesIn(work), Starts(work, T), StartTasks(T, Produced(work), Tail(channel))
  PROVE  /\ \A u \in Tasks \ T : u # node /\ Handled(u)' => Handled(u)
         /\ ~ stopped => \A u \in T : ~ Handled(u)'
<1>1. /\ channel \in Seq(GraphEvents) /\ channel # <<>> /\ Tail(channel) \in Seq(GraphEvents)
      /\ Head(channel).node = node
  <2>1. channel \in Seq(GraphEvents)
    BY DEF SInv, IInv, TypeOK
  <2>2. channel # <<>> /\ Head(channel).node = node
    BY DEF Handling
  <2> QED BY <2>1, <2>2
<1>2. \A u \in Tasks : Settled(Produced(work), u) => Settled(comp, u)
  BY DEF Produced, Settled
<1>3. \A i \in DOMAIN Tail(channel) : i \in DOMAIN channel' /\ channel'[i] = Tail(channel)[i]
  BY <1>1, StartPushes
<1>4. ASSUME NEW u \in Tasks \ T, u # node, Handled(u)' PROVE Handled(u)
  <2>1. \A i \in DOMAIN Tail(channel) : Tail(channel)[i].node # u
    BY <1>3, <1>4 DEF Handled
  <2>2. Settled(comp, u)
    BY <1>2, <1>4 DEF Starts, Handled, Settled
  <2> QED BY <1>1, <1>4, <2>1, <2>2, BeforeTail DEF Handled
<1>5. ~ stopped => \A u \in T : comp'[u] = "running" \/ \E i \in DOMAIN channel' : channel'[i].node = u
  BY <1>1, StartPushes
<1>6. ~ stopped => \A u \in T : ~ Handled(u)'
  BY <1>5 DEF Handled, Settled
<1> QED BY <1>4, <1>6

LEMMA PrunedNeverTwice ==
  ASSUME NEW gr, NEW S, graph' = Prune(gr, S), gr.nodes \subseteq Groups,
         valued' \cap delivered' = {}, \A g \in gr.nodes : gr.tasks[g] \cap delivered' = {}
  PROVE  NeverTwice'
BY DEF NeverTwice, Prune, Remove

\* The tasks that new work is added to have not been delivered, and neither have the new ones.
LEMMA NewTasksAreLate ==
  ASSUME IInv, NeverTwice, NEW work \in Work, work.tasks \cap Existing = {},
         NEW g \in graph.nodes \cup work.groups
  PROVE  Integrate(graph, work).tasks[g] \cap delivered = {}
<1>1. /\ graph.nodes \subseteq Groups /\ work.groups \subseteq Groups
      /\ \A h \in Groups \ graph.nodes : graph.tasks[h] = {}
      /\ delivered \subseteq Existing
  BY FromInv DEF IInv, TypeOK, Graph, GraphIsConsistent, NodesAreMade, Work
<1>2. g \in Groups /\ Integrate(graph, work).tasks[g] = graph.tasks[g] \cup TasksOf(work.tasks, g)
  BY <1>1 DEF Integrate
<1>3. TasksOf(work.tasks, g) \cap delivered = {}
  BY <1>1 DEF TasksOf
<1>4. graph.tasks[g] \cap delivered = {}
  BY <1>1, <1>2 DEF NeverTwice
<1> HIDE DEF TasksOf
<1> QED BY <1>2, <1>3, <1>4

LEMMA ItemsReport ==
  ASSUME SInv, IInv', NEW s \in Streams, NEW work \in RootWork, TakeItems(s, work),
         Handling("items", s)
  PROVE  LET gr       == Integrate(graph, work)
             promoted == Promoted(gr, Openings(work, {}))
             starting == (UNION {gr.tasks[g] : g \in promoted}) \ taskNodes
         IN  /\ Grows(work, {}, gr, starting) /\ Reports(work, {}, gr, starting)
             /\ NeverTwice => NeverTwice'
             /\ announced' = announced \cup promoted \cup work.streams
<1> DEFINE gr       == Integrate(graph, work)
           promoted == Promoted(gr, Openings(work, {}))
           starting == (UNION {gr.tasks[g] : g \in promoted}) \ taskNodes
<1>1. {g \in work.groups : Parent[g] = NoGroup} = Openings(work, {})
  BY DEF Openings
<1>2. /\ graph' = Prune(gr, Openings(work, {}))
      /\ StartTasks(starting, Produced(work), Tail(channel))
      /\ announced' = announced \cup promoted \cup work.streams
      /\ taskNodes' = taskNodes \cup starting
      /\ UNCHANGED <<failed, stopped, valued, delivered>>
      /\ phase = "draining"
  BY <1>1 DEF TakeItems, Handling
<1>3. Grows(work, {}, gr, starting)
  BY <1>1, ItemsGrow
<1>4. /\ starting \in SUBSET Tasks /\ TakesIn(work) /\ Starts(work, starting)
      /\ work \in Work /\ work.tasks \cap Existing = {} /\ work.streams \subseteq Streams
      /\ gr.nodes = graph.nodes \cup work.groups /\ gr \in Graph
  <2> HIDE DEF starting, gr
  <2>1. TakesIn(work) /\ Starts(work, starting) /\ gr.nodes = (graph.nodes \cup work.groups) \ {} /\ gr \in Graph
    BY <1>3 DEF Grows, Sound
  <2> QED BY <2>1 DEF TakesIn, Starts, Existing, Work
<1> HIDE DEF gr, promoted, starting
<1>5. /\ \A u \in Tasks \ starting : u # s /\ Handled(u)' => Handled(u)
      /\ ~ stopped => \A u \in starting : ~ Handled(u)'
  BY <1>2, <1>4, StartsAreHandled
<1>6. announced' \cap Groups = (announced \cap Groups) \cup promoted
  <2>1. promoted \subseteq Groups
    BY <1>4 DEF promoted, Promoted, Graph
  <2> QED BY <1>2, <1>4, <2>1, DisjointAssumption
<1>7. \A u \in Tasks \ starting : Handled(u)' => Handled(u)
  BY <1>5, DisjointAssumption
<1>8. Reports(work, {}, gr, starting)
  BY <1>2, <1>5, <1>6, <1>7 DEF Reports, promoted
<1>9. ASSUME NeverTwice PROVE NeverTwice'
  <2>1. \A g \in gr.nodes : gr.tasks[g] \cap delivered' = {}
    BY <1>2, <1>4, <1>9, NewTasksAreLate DEF SInv, gr
  <2>2. gr.nodes \subseteq Groups
    BY <1>4 DEF Graph
  <2>3. valued' \cap delivered' = {}
    BY <1>2, <1>9 DEF NeverTwice
  <2> QED BY <1>2, <2>1, <2>2, <2>3, PrunedNeverTwice
<1> QED BY <1>2, <1>3, <1>8, <1>9 DEF gr, promoted, starting

\* The streams that are opened with the tasks that are delivered.
SuccessStreams(t, work) ==
  [u \in Tasks |-> IF u = t /\ t \in taskNodes THEN childStreams[u] \cup work.streams
                                               ELSE childStreams[u]]
SuccessOpened(t, work) == UNION {SuccessStreams(t, work)[u] : u \in SuccessDone(t, work)}

LEMMA SuccessReports ==
  ASSUME SInv, IInv', NEW t \in Tasks, NEW work \in TaskWork(t), Succeed(t, work),
         Handling("ok", t)
  PROVE  LET fin      == SuccessFinished(t, work)
             gr       == SuccessRest(t, work)
             starting == SuccessStarts(t, work)
             promoted == Promoted(gr, Openings(work, fin))
         IN  /\ Grows(work, fin, gr, starting) /\ Reports(work, fin, gr, starting)
             /\ NeverTwice => NeverTwice'
             /\ announced' = announced \cup promoted \cup SuccessOpened(t, work)
             /\ SuccessOpened(t, work) \subseteq Streams
<1> DEFINE fin      == SuccessFinished(t, work)
           gr1      == SuccessGraph(t, work)
           gr       == SuccessRest(t, work)
           starting == SuccessStarts(t, work)
           done     == SuccessDone(t, work)
           valued1  == SuccessValued(t)
           promoted == Promoted(gr, Openings(work, fin))
           atOnce   == AtOnce(work, gr1)
           opened   == SuccessOpened(t, work)
<1>1. Grows(work, fin, gr, starting) /\ Openings(work, fin) = SuccessBelow(t, work)
  BY SuccessGrows
<1>2. /\ graph' = Prune(gr, SuccessBelow(t, work))
      /\ StartTasks(starting, Produced(work), Tail(channel))
      /\ announced' = announced \cup Promoted(gr, SuccessBelow(t, work)) \cup opened
      /\ taskNodes' = (SuccessNodes(t, work) \ done) \cup starting
      /\ delivered' = delivered \cup (done \cap valued1)
      /\ valued' = valued1 \ done
      /\ UNCHANGED <<failed, stopped>>
      /\ phase = "draining"
  BY DEF Succeed, SuccessGraph, SuccessNodes, SuccessValued, SuccessFinished, SuccessDone,
         SuccessRest, SuccessBelow, SuccessStarts, SuccessStreams, SuccessOpened, Handling
<1>3. /\ done \subseteq valued1 /\ \A g \in gr.nodes : gr.tasks[g] = gr1.tasks[g] \ done
      /\ gr.nodes = gr1.nodes \ fin
  BY SuccessGraphs DEF SInv
<1>4. /\ SuccessNodes(t, work) = taskNodes \cup atOnce /\ atOnce \subseteq starting
  BY DEF SuccessNodes, SuccessStarts
<1>5. gr1.nodes = graph.nodes \cup work.groups /\ gr1.tasks = Integrate(graph, work).tasks
  BY DEF SuccessGraph, CountSuccess, Integrate
<1>6. valued1 \subseteq valued \cup {t} /\ (t \in taskNodes => t \in valued1)
  BY DEF SuccessValued
<1>7. t \notin valued \cup delivered /\ t \in Existing /\ Begun(comp, t)
  BY HandlingTail, HeadIsUnhandled DEF SInv, Settled, Begun
<1>8. \A u \in done : u \in Tasks
  BY <1>3, <1>6 DEF SInv, IInv, TypeOK
<1>9. opened \subseteq Streams
  <2>1. work.streams \subseteq Streams
    BY NewWork DEF SInv, Work
  <2>2. \A u \in Tasks : SuccessStreams(t, work)[u] \subseteq Streams
    BY <2>1 DEF SuccessStreams, SInv, IInv, TypeOK
  <2> QED BY <1>8, <2>2 DEF SuccessOpened
<1> HIDE DEF fin, gr1, gr, starting, done, valued1, atOnce, opened
<1>10. /\ starting \in SUBSET Tasks /\ TakesIn(work) /\ Starts(work, starting)
       /\ work \in Work /\ work.tasks \cap Existing = {}
       /\ gr \in Graph /\ gr.nodes \subseteq Groups
  <2>1. TakesIn(work) /\ Starts(work, starting) /\ gr \in Graph
    BY <1>1 DEF Grows, Sound
  <2> QED BY <2>1 DEF TakesIn, Starts, Existing, Graph
<1>11. /\ \A u \in Tasks \ starting : u # t /\ Handled(u)' => Handled(u)
       /\ ~ stopped => \A u \in starting : ~ Handled(u)'
  BY <1>2, <1>10, StartsAreHandled
<1>12. t \in valued' \cup delivered' \/ GroupsOf[t] \cap graph.nodes = {}
  <2>1. CASE t \in taskNodes
    BY <1>2, <1>3, <1>6, <2>1
  <2>2. CASE t \notin taskNodes
    <3>1. \A g \in graph.nodes : t \notin graph.tasks[g]
      BY <1>7, <2>2, FromInv DEF SInv, Kept
    <3>2. \A g \in graph.nodes : g \notin GroupsOf[t]
      BY <1>7, <3>1, FromInv DEF SInv, Sound, Entered
    <3> QED BY <3>2
  <2> QED BY <2>1, <2>2
<1>13. announced' \cap Groups = (announced \cap Groups) \cup promoted
  <2>1. promoted \subseteq Groups
    BY <1>10 DEF Promoted
  <2> QED BY <1>1, <1>2, <1>9, <2>1, DisjointAssumption
<1>14. Reports(work, fin, gr, starting)
  <2>1. \A u \in Tasks \ starting : Handled(u)' => \/ Handled(u) \/ u \in valued' \cup delivered'
                                                   \/ GroupsOf[u] \cap graph.nodes = {}
    BY <1>11, <1>12
  <2>2. taskNodes' \subseteq taskNodes \cup starting
    BY <1>2, <1>4
  <2> QED BY <1>2, <1>11, <1>13, <2>1, <2>2 DEF Reports
<1>15. ASSUME NeverTwice PROVE NeverTwice'
  <2>1. valued' \cap delivered' = {}
    BY <1>2, <1>6, <1>7, <1>15 DEF NeverTwice
  <2>2. \A g \in gr.nodes : gr1.tasks[g] \cap delivered = {}
    BY <1>3, <1>5, <1>10, <1>15, NewTasksAreLate DEF SInv
  <2>3. \A g \in gr.nodes : gr.tasks[g] \cap delivered' = {}
    BY <1>2, <1>3, <2>2
  <2> QED BY <1>2, <1>10, <2>1, <2>3, PrunedNeverTwice
<1> QED BY <1>1, <1>2, <1>9, <1>14, <1>15 DEF fin, gr, starting, opened

LEMMA NextGroups == ASSUME SInv, IInv', GroupInv, StreamInv, [Next]_vars PROVE GroupInv'
<1>1. CASE UNCHANGED vars \/ Wake \/ EndBatch \/ Resume
  BY <1>1, LoopGroups
<1>2. CASE Cancel
  BY <1>2, CancelGroups
<1>3. CASE StartEvents
  BY <1>3, StartEventsGroups
<1>4. ASSUME NEW t \in Tasks, HandleTaskSuccess(t) PROVE GroupInv'
  <2>1. PICK work \in TaskWork(t) : Succeed(t, work) /\ Handling("ok", t)
    BY <1>4 DEF HandleTaskSuccess
  <2>2. NeverTwice'
    BY <2>1, SuccessReports DEF GroupInv
  <2>3. /\ Grows(work, SuccessFinished(t, work), SuccessRest(t, work), SuccessStarts(t, work))
        /\ Reports(work, SuccessFinished(t, work), SuccessRest(t, work), SuccessStarts(t, work))
    BY <2>1, SuccessReports
  <2> QED BY <2>2, <2>3, GrowsGroups
<1>5. ASSUME NEW t \in Tasks, HandleTaskFailure(t) PROVE GroupInv'
  BY <1>5, HandleTaskFailureGroups
<1>6. ASSUME NEW s \in Streams, HandleStreamItems(s) PROVE GroupInv'
  <2>1. PICK work \in RootWork : TakeItems(s, work) /\ Handling("items", s)
    BY <1>6 DEF HandleStreamItems
  <2>2. NeverTwice'
    BY <2>1, ItemsReport DEF GroupInv
  <2>3. \E gr, T : Grows(work, {}, gr, T) /\ Reports(work, {}, gr, T)
    BY <2>1, ItemsReport
  <2> QED BY <2>2, <2>3, GrowsGroups
<1>7. ASSUME NEW s \in Streams, HandleStreamSuccess(s) \/ HandleStreamFailure(s) PROVE GroupInv'
  BY <1>7, StreamEndGroups
<1>8. ASSUME NEW t \in Tasks, PrimeEarly(t) \/ SettleTask(t) PROVE GroupInv'
  BY <1>8, PrimeEarlyGroups, SettleTaskGroups
<1>9. ASSUME NEW s \in Streams,
             PumpItems(s) \/ PumpSuccess(s) \/ PumpFailure(s) \/ PumpCancelled(s)
      PROVE  GroupInv'
  BY <1>9, PumpGroups
<1> QED BY <1>1, <1>2, <1>3, <1>4, <1>5, <1>6, <1>7, <1>8, <1>9 DEF Next, Deliver, HandleGraphEvent


-----------------------------------------------------------------------------
(* The groups: the initial state.                                           *)

LEMMA InitGroups == ASSUME Init PROVE GroupInv
<1>1. PICK work \in [groups : SUBSET Groups, tasks : SUBSET Tasks, streams : SUBSET Streams] :
         /\ \A g \in work.groups : Parent[g] \in work.groups \cup {NoGroup}
         /\ graph = Prune(Integrate(EmptyGraph, work), {g \in work.groups : Parent[g] = NoGroup})
         /\ rootGroups = Promoted(Integrate(EmptyGraph, work),
                                  {g \in work.groups : Parent[g] = NoGroup})
         /\ comp = [t \in Tasks |-> IF t \in work.tasks THEN "idle" ELSE "none"]
         /\ made = work.groups
         /\ announced = Promoted(Integrate(EmptyGraph, work),
                                 {g \in work.groups : Parent[g] = NoGroup}) \cup work.streams
         /\ taskNodes = {} /\ valued = {} /\ delivered = {} /\ succeeded = {} /\ failed = {}
         /\ phase = "new"
  BY DEF Init
<1> DEFINE gr  == Integrate(EmptyGraph, work)
           top == {g \in work.groups : Parent[g] = NoGroup}
           E   == Empty(gr, top)
           P   == Promoted(gr, top)
           Clear == {g \in Groups : Cleared(g)}
<1>2. work \in Work /\ work.groups \subseteq Groups /\ work.tasks \subseteq Tasks
  BY DEF Work
<1>3. EmptyGraph \in Graph /\ Linked(EmptyGraph) /\ Sound(EmptyGraph, {}, {}, {}, {})
  BY DEF EmptyGraph, Graph, Linked, Sound, Bare, Entered, Counted
<1>4. Sound(gr, work.groups, work.tasks, {}, {})
  <2>1. Sound(gr, {} \cup work.groups, {} \cup work.tasks, {}, {})
    BY <1>2, <1>3, IntegrateSound
  <2>2. {} \cup work.groups = work.groups /\ {} \cup work.tasks = work.tasks
    OBVIOUS
  <2> QED BY <2>1, <2>2
<1>5. Linked(gr)
  BY <1>2, <1>3, IntegrateLinked
<1>6. /\ gr.nodes = work.groups
      /\ \A g \in gr.nodes : gr.children[g] = {c \in work.groups : Parent[c] = g}
  BY <1>2 DEF EmptyGraph, Integrate
<1> HIDE DEF gr
<1>7. gr \in Graph
  BY <1>4 DEF Sound
<1>8. \A e \in E : e \in gr.nodes /\ gr.pending[e] = 0
  BY DEF Empty, Reached
<1>9. \A c \in gr.nodes : c \in top \/ (\E e \in E : c \in gr.children[e]) => c \in E \/ c \in P
  BY OpenedIsPromoted
<1>10. \A g \in P : g \in gr.nodes /\ g \in Groups /\ gr.pending[g] # 0 /\ g \notin E
  <2>1. top \in SUBSET Groups
    BY <1>2
  <2> HIDE DEF top
  <2> QED BY <1>5, <1>7, <2>1, PromotedBelow
<1> HIDE DEF E, P
<1>11. ASSUME NEW e \in E PROVE e \in Clear
  <2>1. Cardinality(gr.tasks[e] \ {}) = 0 /\ e \in Groups
    BY <1>2, <1>4, <1>6, <1>8, <1>11 DEF Sound, Counted
  <2>2. IsFiniteSet(gr.tasks[e] \ {})
    BY <1>7, <2>1, TasksAreFinite DEF Graph
  <2>3. gr.tasks[e] \ {} = {}
    BY <2>1, <2>2, FS_EmptySet
  <2>4. \A t \in work.tasks : e \notin GroupsOf[t]
    BY <1>4, <1>8, <1>11, <2>3 DEF Sound, Entered
  <2> QED BY <1>1, <2>1, <2>4 DEF Cleared
<1>12. \A e \in E : Ancestors[e] \subseteq Clear
  <2> DEFINE U == {g \in gr.nodes : gr.pending[g] = 0}
  <2>1. /\ \A s \in top : Ancestors[s] \subseteq Clear
        /\ top \in SUBSET Groups /\ U \in SUBSET Groups /\ E = Reached(gr, U, top) /\ E \subseteq Clear
    BY <1>2, <1>6, <1>11, AncestorsOfRoot, DisjointAssumption DEF E, Empty
  <2> HIDE DEF top, U, Clear
  <2> QED BY <1>5, <1>7, <2>1, ReachedWithin
<1>13. graph = Remove(gr, E) /\ rootGroups = P /\ announced = P \cup work.streams
  BY <1>1 DEF Prune, gr, top, E, P
<1>14. /\ graph.nodes = gr.nodes \ E
       /\ \A g \in gr.nodes \ E : graph.children[g] = gr.children[g] /\ graph.pending[g] = gr.pending[g]
  BY <1>2, <1>6, <1>13 DEF Remove
<1>15. \A t \in Tasks : ~ Begun(comp, t) /\ ~ Handled(t)
  BY <1>1 DEF Begun, Handled, Settled
<1>16. announced \cap Groups = P
  BY <1>2, <1>6, <1>10, <1>13, DisjointAssumption
<1>17. GroupsAreBooked
  BY <1>1, <1>6, <1>10, <1>13, <1>14, <1>16 DEF GroupsAreBooked
<1>18. NeverTwice
  BY <1>1 DEF NeverTwice
<1>19. StartedForRoot
  BY <1>15 DEF StartedForRoot
<1>20. BackLinked
  BY <1>6, <1>14 DEF BackLinked
<1>21. NodesHang
  BY <1>1, <1>6, <1>9, <1>13, <1>14 DEF NodesHang
<1>22. GoneIsCleared
  <2>1. \A g \in made \ graph.nodes : g \in E
    BY <1>1, <1>6, <1>14
  <2> QED BY <1>11, <1>12, <2>1 DEF GoneIsCleared
<1>23. RootsRun
  BY <1>1, <1>10, <1>13, <1>14 DEF RootsRun
<1>24. OutcomesAreUsed
  BY <1>15 DEF OutcomesAreUsed
<1>25. TaskNodesBegun
  BY <1>1 DEF TaskNodesBegun
<1> QED BY <1>17, <1>18, <1>19, <1>20, <1>21, <1>22, <1>23, <1>24, <1>25 DEF GroupInv

LEMMA InitStreams == ASSUME Init PROVE StreamInv
<1>1. PICK work \in [groups : SUBSET Groups, tasks : SUBSET Tasks, streams : SUBSET Streams] :
         /\ rootStreams = work.streams
         /\ comp = [t \in Tasks |-> IF t \in work.tasks THEN "idle" ELSE "none"]
         /\ queue = [s \in Streams |-> IF s \in work.streams THEN "open" ELSE "none"]
         /\ announced = Promoted(Integrate(EmptyGraph, work),
                                 {g \in work.groups : Parent[g] = NoGroup}) \cup work.streams
         /\ taskNodes = {} /\ succeeded = {} /\ failed = {} /\ channel = <<>> /\ batch = <<>>
         /\ pump = [s \in Streams |-> "off"] /\ childStreams = [t \in Tasks |-> {}]
         /\ stopped = FALSE /\ phase = "new"
  BY DEF Init
<1>2. announced \cap Streams = rootStreams
  <2>1. work.groups \subseteq Groups /\ work.streams \subseteq Streams
    OBVIOUS
  <2>2. Promoted(Integrate(EmptyGraph, work), {g \in work.groups : Parent[g] = NoGroup}) \subseteq Groups
    BY <2>1 DEF Promoted, Integrate, EmptyGraph
  <2> QED BY <1>1, <2>1, <2>2, DisjointAssumption
<1>3. StreamsAreBooked
  BY <1>1, <1>2 DEF StreamsAreBooked
<1>4. NewStarts
  BY <1>1 DEF NewStarts, Begun
<1>5. PumpsAreServed /\ StreamsAreServed /\ LoopRuns
  BY <1>1, <1>2 DEF PumpsAreServed, StreamsAreServed, StreamServed, LoopRuns
<1> QED BY <1>1, <1>3, <1>4, <1>5 DEF StreamInv, Running, CancelReachesLiveWork

-----------------------------------------------------------------------------
(* The streams: the tasks, the pumps and the loop.                          *)

\* The events in the channel.
Waiting == {channel[i] : i \in DOMAIN channel}
Unique  == \A i, j \in DOMAIN channel : channel[i].node = channel[j].node => i = j

LEMMA StreamTypes ==
  ASSUME IInv
  PROVE  /\ channel \in Seq(GraphEvents) /\ batch \in Seq(WorkQueueEvents)
         /\ Waiting \subseteq GraphEvents
         /\ stopped \in BOOLEAN /\ phase \in PhaseStates
         /\ rootStreams \subseteq Streams /\ childStreams \in [Tasks -> SUBSET Streams]
         /\ pump \in [Streams -> PumpStates] /\ queue \in [Streams -> QueueStates]
         /\ comp \in [Tasks -> CompStates]
         /\ announced \subseteq Nodes /\ succeeded \subseteq Nodes /\ failed \subseteq Nodes
<1>1. channel \in Seq(GraphEvents)
  BY DEF IInv, TypeOK
<1>2. Waiting \subseteq GraphEvents
  BY <1>1 DEF Waiting
<1> QED BY <1>1, <1>2 DEF IInv, TypeOK

\* The invariants in terms of the events that are waiting.
LEMMA ServedWaiting ==
  ASSUME TRUE
  PROVE  /\ PumpsAreServed <=>
              /\ \A s \in Streams : queue[s] # "aborted"
              /\ \A s \in Streams :
                    pump[s] \in {"handing", "cancelled"} \/ (pump[s] = "iterating" /\ queue[s] = "open")
                      => s \in rootStreams
              /\ \A e \in Waiting : /\ e.kind # "stop"
                                    /\ e.kind = "items" => pump[e.node] = "handing"
                                    /\ e.kind \in {"end", "fail"} => pump[e.node] = "done"
                                    /\ e.kind = "fail" => e.node \in rootStreams
              /\ Unique
         /\ \A kinds, n : InChannel(kinds, n) <=> \E e \in Waiting : e.kind \in kinds /\ e.node = n
BY DEF PumpsAreServed, Waiting, Unique, InChannel

LEMMA ServedWaitingNext ==
  ASSUME TRUE
  PROVE  /\ PumpsAreServed' <=>
              /\ \A s \in Streams : queue'[s] # "aborted"
              /\ \A s \in Streams :
                    pump'[s] \in {"handing", "cancelled"} \/ (pump'[s] = "iterating" /\ queue'[s] = "open")
                      => s \in rootStreams'
              /\ \A e \in Waiting' : /\ e.kind # "stop"
                                     /\ e.kind = "items" => pump'[e.node] = "handing"
                                     /\ e.kind \in {"end", "fail"} => pump'[e.node] = "done"
                                     /\ e.kind = "fail" => e.node \in rootStreams'
              /\ Unique'
         /\ \A kinds, n : InChannel(kinds, n)' <=> \E e \in Waiting' : e.kind \in kinds /\ e.node = n
BY DEF PumpsAreServed, Waiting, Unique, InChannel

\* An event is pushed whose node has none in the channel.
LEMMA PushWaiting ==
  ASSUME channel \in Seq(GraphEvents), NEW e \in GraphEvents, channel' = Append(channel, e)
  PROVE  /\ Waiting' = Waiting \cup {e}
         /\ Unique /\ (\A f \in Waiting : f.node # e.node) => Unique'
<1>1. /\ DOMAIN channel' = DOMAIN channel \cup {Len(channel) + 1}
      /\ \A i \in DOMAIN channel : channel'[i] = channel[i]
      /\ channel'[Len(channel) + 1] = e
  OBVIOUS
<1>2. Waiting' = Waiting \cup {e}
  BY <1>1 DEF Waiting
<1>3. Unique /\ (\A f \in Waiting : f.node # e.node) => Unique'
  BY <1>1 DEF Unique, Waiting
<1> QED BY <1>2, <1>3

\* The kind of an event tells what it is about.
LEMMA WaitingKinds ==
  ASSUME IInv, NEW e \in Waiting
  PROVE  /\ e.node \in Streams => e.kind \in {"items", "end", "fail"}
         /\ e.node \in Tasks => e.kind \in {"ok", "err"}
         /\ e.kind \in {"items", "end", "fail"} => e.node \in Streams
         /\ e.kind \in {"ok", "err"} => e.node \in Tasks
<1>1. e \in GraphEvents
  BY StreamTypes
<1> QED BY <1>1, DisjointAssumption DEF GraphEvents

\* An iterating pump has no event in the channel.
LEMMA IteratingIsFree ==
  ASSUME IInv, PumpsAreServed, NEW s \in Streams, pump[s] = "iterating"
  PROVE  \A e \in Waiting : e.node # s
BY ServedWaiting, WaitingKinds

\* Steps of tasks and pumps: an event is pushed, or not.
LEMMA TaskStreams ==
  ASSUME SInv, StreamInv, NEW t \in Tasks, PrimeEarly(t) \/ SettleTask(t)
  PROVE  StreamInv'
<1> USE DEF StreamInv
<1>1. IInv /\ comp \in [Tasks -> CompStates] /\ channel \in Seq(GraphEvents)
  BY StreamTypes DEF SInv
<1>2. /\ UNCHANGED <<rootStreams, childStreams, queue, pump, stopped, phase, batch, taskNodes,
                     announced, succeeded, failed, rootGroups>>
      /\ \A u \in Tasks : Begun(comp', u) <=> Begun(comp, u)
      /\ \A u \in Tasks : comp'[u] = "aborted" <=> comp[u] = "aborted"
      /\ \A u \in Tasks : comp'[u] \in {"idle", "early", "running"} => comp[u] \in {"idle", "early", "running"}
      /\ channel' # channel => comp[t] = "running"
      /\ channel' = channel \/ \E e \in GraphEvents : e.node = t /\ channel' = Append(channel, e)
  BY <1>1, EventsAreTyped
     DEF PrimeEarly, SettleTask, Push, Begun, graphVars, loopVars, history
<1>3. channel' # channel => \A f \in Waiting : f.node # t
  BY <1>2 DEF Waiting, SInv, IInv, GraphIsConsistent, OutcomesAreUnique
<1>4. /\ Waiting \subseteq Waiting'
      /\ \A e \in Waiting' : e \in Waiting \/ e.kind \in {"ok", "err"}
      /\ Unique => Unique'
  <2>1. CASE channel' = channel
    BY <2>1 DEF Waiting, Unique
  <2>2. CASE channel' # channel
    <3>1. PICK e \in GraphEvents : e.node = t /\ channel' = Append(channel, e)
      BY <1>2, <2>2
    <3>2. Waiting' = Waiting \cup {e} /\ (Unique => Unique')
      BY <1>1, <1>3, <2>2, <3>1, PushWaiting
    <3>3. e.kind \in {"ok", "err"}
      <4>1. t \notin Streams /\ t # NoGroup
        BY DisjointAssumption
      <4> QED BY <3>1, <4>1 DEF GraphEvents
    <3> QED BY <3>2, <3>3
  <2> QED BY <2>1, <2>2
<1>5. StreamsAreBooked'
  BY <1>2 DEF StreamsAreBooked
<1>6. NewStarts'
  BY <1>2 DEF NewStarts, Begun
<1>7. Running => PumpsAreServed'
  BY <1>2, <1>4, ServedWaiting, ServedWaitingNext
<1>8. Running => StreamsAreServed'
  BY <1>2, <1>4, ServedWaiting, ServedWaitingNext DEF StreamsAreServed, StreamServed
<1>9. Running => LoopRuns'
  BY <1>2 DEF LoopRuns
<1>10. CancelReachesLiveWork'
  BY <1>2 DEF CancelReachesLiveWork, Doomed
<1> QED BY <1>2, <1>5, <1>6, <1>7, <1>8, <1>9, <1>10 DEF Running

LEMMA PumpStreams ==
  ASSUME SInv, StreamInv, NEW s \in Streams,
         PumpItems(s) \/ PumpSuccess(s) \/ PumpFailure(s) \/ PumpCancelled(s)
  PROVE  StreamInv'
<1> USE DEF StreamInv
<1>1. /\ IInv /\ pump \in [Streams -> PumpStates] /\ queue \in [Streams -> QueueStates]
      /\ channel \in Seq(GraphEvents)
  BY StreamTypes DEF SInv
<1>2. /\ UNCHANGED <<rootStreams, childStreams, comp, stopped, phase, batch, taskNodes,
                     announced, succeeded, failed, rootGroups>>
      /\ pump[s] = "iterating"
      /\ \A r \in Streams \ {s} : pump'[r] = pump[r] /\ queue'[r] = queue[r]
      /\ \/ /\ queue[s] = "open" /\ pump'[s] = "handing"
            /\ queue'[s] \in {"open", "stopped"} /\ Push(StreamItems(s))
         \/ /\ pump'[s] = "done" /\ queue'[s] = "stopped" /\ queue[s] # "aborted"
            /\ Push(StreamEnd(s))
         \/ /\ queue[s] = "open" /\ pump'[s] = "done" /\ queue'[s] = "open"
            /\ Push(StreamFail(s))
         \/ /\ queue[s] = "open" /\ pump'[s] = "cancelled" /\ queue'[s] = "open"
            /\ Early /\ channel' = channel
  BY <1>1 DEF PumpItems, PumpSuccess, PumpFailure, PumpCancelled, graphVars, loopVars, history
<1>3. phase # "new" /\ s \in announced
  BY <1>2 DEF NewStarts, StreamsAreBooked
<1>4. \A r \in Streams : queue'[r] = "none" => queue[r] = "none"
  BY <1>2
<1>5. StreamsAreBooked'
  BY <1>2, <1>3, <1>4, StreamTypes DEF StreamsAreBooked, SInv
<1>6. NewStarts'
  BY <1>2, <1>3 DEF NewStarts
<1>7. CancelReachesLiveWork'
  BY <1>2 DEF CancelReachesLiveWork, Doomed
<1>8. ASSUME Running PROVE PumpsAreServed' /\ StreamsAreServed' /\ LoopRuns'
  <2>1. \A e \in Waiting : e.node # s
    BY <1>1, <1>2, <1>8, IteratingIsFree
  <2>2. queue[s] = "open" => s \in rootStreams
    BY <1>2, <1>8 DEF PumpsAreServed
  <2>3. \/ channel' = channel /\ (stopped \/ (pump'[s] = "cancelled" /\ Early))
        \/ \E e : /\ channel' = Append(channel, e)
                  /\ \/ e = StreamItems(s) /\ pump'[s] = "handing"
                     \/ e = StreamEnd(s) /\ pump'[s] = "done"
                     \/ e = StreamFail(s) /\ pump'[s] = "done" /\ s \in rootStreams
    <3>1. CASE channel' = channel
      BY <1>2, <2>2, <3>1 DEF Push
    <3>2. CASE channel' # channel
      <4>1. \A e : Push(e) => channel' = Append(channel, e)
        BY <3>2 DEF Push
      <4> QED BY <1>2, <2>2, <3>2, <4>1
    <3> QED BY <3>1, <3>2
  <2>4. /\ Waiting \subseteq Waiting'
        /\ \A e \in Waiting' : \/ e \in Waiting
                               \/ e = StreamItems(s) /\ pump'[s] = "handing"
                               \/ e = StreamEnd(s) /\ pump'[s] = "done"
                               \/ e = StreamFail(s) /\ pump'[s] = "done" /\ s \in rootStreams
        /\ Unique => Unique'
        /\ \/ stopped
           \/ pump'[s] = "cancelled" /\ Early
           \/ pump'[s] = "handing" /\ StreamItems(s) \in Waiting'
           \/ pump'[s] = "done" /\ (StreamEnd(s) \in Waiting' \/ StreamFail(s) \in Waiting')
    <3>1. CASE channel' = channel
      <4>1. stopped \/ (pump'[s] = "cancelled" /\ Early)
        <5>1. \A e : channel # Append(channel, e)
          BY <1>1
        <5> QED BY <2>3, <3>1, <5>1
      <4> QED BY <3>1, <4>1 DEF Waiting, Unique
    <3>2. CASE channel' # channel
      <4>1. PICK e : /\ channel' = Append(channel, e)
                     /\ \/ e = StreamItems(s) /\ pump'[s] = "handing"
                        \/ e = StreamEnd(s) /\ pump'[s] = "done"
                        \/ e = StreamFail(s) /\ pump'[s] = "done" /\ s \in rootStreams
        BY <2>3, <3>2
      <4>2. e \in GraphEvents /\ e.node = s
        BY <4>1, EventsAreTyped
      <4>3. Waiting' = Waiting \cup {e} /\ (Unique => Unique')
        BY <1>1, <2>1, <4>1, <4>2, PushWaiting
      <4> QED BY <4>1, <4>3
    <3> QED BY <3>1, <3>2
  <2>5. \A r \in Streams : queue'[r] # "aborted"
    BY <1>2, <1>8 DEF PumpsAreServed
  <2>6. \A r \in Streams : pump'[r] \in {"handing", "cancelled"}
                             \/ (pump'[r] = "iterating" /\ queue'[r] = "open") => r \in rootStreams
    BY <1>2, <1>8, <2>2 DEF PumpsAreServed
  <2>7. \A e \in Waiting : e.kind \in {"items", "end", "fail"} => pump'[e.node] = pump[e.node]
    BY <1>1, <1>2, <2>1, WaitingKinds
  <2>8. \A e \in Waiting' : /\ e.kind # "stop"
                            /\ e.kind = "items" => pump'[e.node] = "handing"
                            /\ e.kind \in {"end", "fail"} => pump'[e.node] = "done"
                            /\ e.kind = "fail" => e.node \in rootStreams
    <3>1. \A e \in Waiting : /\ e.kind # "stop"
                             /\ e.kind = "items" => pump'[e.node] = "handing"
                             /\ e.kind \in {"end", "fail"} => pump'[e.node] = "done"
                             /\ e.kind = "fail" => e.node \in rootStreams
      BY <1>8, <2>7, ServedWaiting
    <3> QED BY <2>4, <3>1 DEF StreamItems, StreamEnd, StreamFail
  <2>9. PumpsAreServed'
    BY <1>2, <1>8, <2>4, <2>5, <2>6, <2>8, ServedWaiting, ServedWaitingNext
  <2>10. StreamsAreServed'
    <3> SUFFICES ASSUME ~ stopped, NEW r \in rootStreams PROVE StreamServed(r)'
      BY <1>2 DEF StreamsAreServed
    <3>1. r \in Streams
      BY <1>1, StreamTypes
    <3>2. CASE r = s
      BY <2>4, <3>2, ServedWaitingNext DEF StreamServed, StreamItems, StreamEnd, StreamFail
    <3>3. CASE r # s
      <4>1. StreamServed(r) /\ pump'[r] = pump[r]
        BY <1>2, <1>8, <3>1, <3>3 DEF StreamsAreServed
      <4> QED BY <1>2, <2>4, <4>1, ServedWaiting, ServedWaitingNext DEF StreamServed
    <3> QED BY <3>2, <3>3
  <2>11. LoopRuns'
    BY <1>2, <1>8 DEF LoopRuns
  <2> QED BY <2>9, <2>10, <2>11
<1> QED BY <1>2, <1>5, <1>6, <1>7, <1>8 DEF Running

LEMMA LoopStreams ==
  ASSUME SInv, StreamInv, Wake \/ EndBatch \/ Resume \/ UNCHANGED vars
  PROVE  StreamInv'
<1> USE DEF StreamInv
<1>1. /\ batch \in Seq(WorkQueueEvents) /\ stopped \in BOOLEAN /\ phase \in PhaseStates
  BY StreamTypes DEF SInv
<1>2. /\ UNCHANGED <<graphVars, asyncVars, channel, history>>
      /\ phase' = "new" => phase = "new" /\ batch' = batch
      /\ Running' <=> Running
      /\ phase' # phase => phase # "new"
  BY DEF Wake, EndBatch, Resume, vars, loopVars, Running, Receive
<1>3. StreamsAreBooked' /\ NewStarts'
  BY <1>2 DEF graphVars, asyncVars, history, StreamsAreBooked, NewStarts
<1>4. CancelReachesLiveWork'
  BY <1>2 DEF graphVars, asyncVars, history, CancelReachesLiveWork, Doomed, Running
<1>5. ~ Running' => stopped'
  BY <1>2 DEF Wake, EndBatch, Resume, vars, loopVars, Running
<1>6. ASSUME Running PROVE PumpsAreServed' /\ StreamsAreServed' /\ LoopRuns'
  <2>1. PumpsAreServed'
    BY <1>2, <1>6 DEF graphVars, asyncVars, PumpsAreServed
  <2>2. ~ stopped' => ~ stopped
    BY DEF Wake, EndBatch, Resume, vars, loopVars
  <2>3. StreamsAreServed'
    BY <1>2, <1>6, <2>2 DEF graphVars, asyncVars, StreamsAreServed, StreamServed, InChannel
  <2>4. LoopRuns'
    <3>1. \A t \in Tasks : comp'[t] # "aborted"
      BY <1>2, <1>6 DEF asyncVars, LoopRuns
    <3>2. CASE Wake
      BY <1>6, <3>1, <3>2 DEF Wake, LoopRuns
    <3>3. CASE EndBatch
      <4>1. /\ ~ stopped /\ \A i \in DOMAIN batch : batch[i].kind # "termination"
            /\ rootGroups' = rootGroups /\ rootStreams' = rootStreams
        BY <1>6, <3>3 DEF EndBatch, LoopRuns, graphVars
      <4>2. CASE rootGroups = {} /\ rootStreams = {}
        <5>1. batch' = Append(batch, Event("termination", NoGroup, {}, {}, {}))
              /\ stopped' = TRUE /\ phase' = IF batch' # <<>> THEN "yielded" ELSE "ended"
          BY <3>3, <4>2 DEF EndBatch
        <5>2. batch' # <<>>
          BY <1>1, <5>1
        <5> QED BY <3>1, <4>1, <4>2, <5>1, <5>2 DEF LoopRuns
      <4>3. CASE ~ (rootGroups = {} /\ rootStreams = {})
        <5>1. batch' = batch /\ stopped' = stopped /\ phase' \in {"yielded", "parked"}
          BY <1>1, <3>3, <4>1, <4>3 DEF EndBatch
        <5> QED BY <3>1, <4>1, <5>1 DEF LoopRuns
      <4> QED BY <4>2, <4>3
    <3>4. CASE Resume
      BY <1>6, <3>1, <3>4 DEF Resume, LoopRuns, Receive, graphVars
    <3>5. CASE UNCHANGED vars
      BY <1>6, <3>5 DEF vars, graphVars, asyncVars, loopVars, LoopRuns
    <3> QED BY <3>2, <3>3, <3>4, <3>5
  <2> QED BY <2>1, <2>3, <2>4
<1> QED BY <1>2, <1>3, <1>4, <1>5, <1>6

\* Whatever is alive hangs below a root group, and is cancelled.
LEMMA CancelStreams == ASSUME SInv, GroupInv, StreamInv, Cancel PROVE StreamInv'
<1> USE DEF StreamInv
<1>1. /\ IInv /\ pump \in [Streams -> PumpStates] /\ queue \in [Streams -> QueueStates]
      /\ comp \in [Tasks -> CompStates]
  BY StreamTypes DEF SInv
<1>2. /\ UNCHANGED <<graph, rootStreams, childStreams, announced, succeeded, failed>>
      /\ phase' = "closed" /\ stopped'
      /\ \A s \in Streams : queue'[s] = "none" => queue[s] = "none"
      /\ \A s \in Streams : pump'[s] # "off" => pump[s] # "off"
      /\ \A t \in Tasks : comp'[t] \in {"idle", "early", "running"}
                            => comp[t] \in {"idle", "early", "running"} /\ t \notin CancelledTasks
  BY <1>1 DEF Cancel, CancelWork, graphVars, history
<1>3. StreamsAreBooked'
  BY <1>2, StreamTypes DEF StreamsAreBooked, SInv
<1>4. NewStarts'
  BY <1>2 DEF NewStarts
<1>5. CancelReachesLiveWork'
  <2> SUFFICES ASSUME NEW t \in Tasks, comp'[t] \in {"idle", "early", "running"},
                      NEW g \in GroupsOf[t], ~ Doomed(g)
               PROVE  FALSE
    BY <1>2 DEF CancelReachesLiveWork, Doomed
  <2>1. comp[t] \in {"idle", "early", "running"} /\ t \notin CancelledTasks /\ ~ Handled(t)
    BY <1>2 DEF Handled, Settled
  <2>2. t \in Existing /\ t \notin delivered /\ g \in made
    BY <1>1, <2>1, FromInv, DeliveredIsHandled DEF Existing
  <2>3. CASE g \in graph.nodes
    <3>1. t \in graph.tasks[g]
      BY <1>1, <2>2, <2>3, FromInv DEF Sound, Entered
    <3>2. g \in Subtree(graph, rootGroups)
      BY <1>1, <2>3, AliveIsReached DEF GroupInv
    <3> QED BY <2>1, <3>1, <3>2 DEF CancelledTasks
  <2>4. CASE g \notin graph.nodes
    <3>1. Cleared(g)
      BY <2>2, <2>4 DEF GroupInv, GoneIsCleared
    <3> QED BY <2>1, <2>2, <3>1 DEF Cleared, Existing
  <2> QED BY <2>3, <2>4
<1> QED BY <1>2, <1>3, <1>4, <1>5 DEF Running

\* The outcomes in the channel are distinct anyway.
LEMMA UniqueOutcomes ==
  ASSUME IInv
  PROVE  \A i, j \in DOMAIN channel :
            channel[i].node \in Tasks /\ channel[i].node = channel[j].node => i = j
BY DEF IInv, GraphIsConsistent, OutcomesAreUnique

LEMMA StartEventsStreams == ASSUME SInv, IInv', StreamInv, StartEvents PROVE StreamInv'
<1> DEFINE T == RootTasks \ taskNodes
<1> USE DEF StreamInv
<1>1. /\ UNCHANGED <<rootGroups, rootStreams, childStreams, queue, stopped, batch,
                     announced, succeeded, failed>>
      /\ StartTasks(T, comp, channel) /\ pump' = StartPumps(rootStreams)
      /\ phase = "new"
      /\ phase' = IF Crashes(RootTasks) THEN "crashed"
                  ELSE IF stopped THEN "ended" ELSE Receive(channel')
  BY DEF StartEvents, history
<1>2. /\ channel = <<>> /\ batch = <<>> /\ \A s \in Streams : pump[s] = "off"
      /\ Running /\ PumpsAreServed /\ LoopRuns
  BY <1>1 DEF NewStarts, Running
<1>3. /\ ~ stopped /\ ~ Crashes(RootTasks) /\ phase' \in {"parked", "draining"}
  <2>1. RootTasks \subseteq Tasks
    BY GroupTypes DEF SInv, RootTasks
  <2> QED BY <1>1, <1>2, <2>1 DEF LoopRuns, Crashes, Receive
<1>4. T \in SUBSET Tasks /\ channel \in Seq(GraphEvents)
  BY GroupTypes, StreamTypes DEF SInv, RootTasks
<1> HIDE DEF T
<1>5. \A i \in DOMAIN channel' : channel'[i].node \in T /\ channel'[i].kind \in {"ok", "err"}
  <2>1. \A i \in DOMAIN channel' : \/ i \in DOMAIN channel
                                   \/ channel'[i].node \in T /\ channel'[i].kind \in {"ok", "err"}
    BY <1>1, <1>4, StartPushes
  <2> QED BY <1>2, <2>1
<1>6. \A t \in Tasks : comp'[t] # "aborted"
  <2>1. \A t \in T : Begun(comp', t)
    BY <1>1, <1>4, StartPushes
  <2>2. \A t \in Tasks \ T : comp'[t] = comp[t]
    BY <1>1, <1>4, StartPushes
  <2> QED BY <1>2, <2>1, <2>2 DEF Begun, LoopRuns
<1>7. Unique'
  <2>1. \A i, j \in DOMAIN channel' :
            channel'[i].node \in Tasks /\ channel'[i].node = channel'[j].node => i = j
    BY DEF IInv, GraphIsConsistent, OutcomesAreUnique
  <2> QED BY <1>4, <1>5, <2>1 DEF Unique
<1>8. \A s \in Streams : pump'[s] = IF s \in rootStreams THEN "iterating" ELSE "off"
  BY <1>1, <1>2 DEF StartPumps
<1>9. rootStreams \subseteq Streams
  BY StreamTypes DEF SInv
<1>10. StreamsAreBooked'
  BY <1>1, <1>8 DEF StreamsAreBooked
<1>11. NewStarts'
  BY <1>3 DEF NewStarts
<1>12. PumpsAreServed'
  <2>1. \A s \in Streams : queue'[s] # "aborted"
    BY <1>1, <1>2 DEF PumpsAreServed
  <2>2. \A s \in Streams : pump'[s] \notin {"handing", "cancelled"}
    BY <1>8
  <2>3. \A e \in Waiting' : e.kind \in {"ok", "err"}
    BY <1>5 DEF Waiting
  <2> QED BY <1>1, <1>7, <1>8, <2>1, <2>2, <2>3, ServedWaitingNext
<1>13. StreamsAreServed'
  BY <1>1, <1>8, <1>9 DEF StreamsAreServed, StreamServed
<1>14. LoopRuns'
  BY <1>1, <1>2, <1>3, <1>6 DEF LoopRuns
<1>15. CancelReachesLiveWork'
  BY <1>3 DEF CancelReachesLiveWork
<1> QED BY <1>3, <1>10, <1>11, <1>12, <1>13, <1>14, <1>15 DEF Running

-----------------------------------------------------------------------------
(* The streams: handlers.                                                   *)

\* What a handler does to the channel: the event of a node is taken, and outcomes of tasks
\* are pushed.
TakesEvent(node) ==
  /\ \A e \in Waiting' : e.kind \in {"ok", "err"} \/ (e \in Waiting /\ e.node # node)
  /\ \A e \in Waiting : e.node \in Tasks \cup {node} \/ e \in Waiting'
  /\ Unique'

LEMMA TakesTail ==
  ASSUME SInv, Unique, NEW kind, NEW node, Handling(kind, node), channel' = Tail(channel)
  PROVE  TakesEvent(node)
<1>1. /\ channel \in Seq(GraphEvents) /\ channel # <<>> /\ Head(channel).node = node
  BY StreamTypes DEF SInv, Handling
<1>2. /\ \A i \in DOMAIN channel' : /\ i + 1 \in DOMAIN channel /\ i + 1 # 1
                                    /\ channel'[i] = channel[i + 1]
      /\ \A i \in DOMAIN channel : i = 1 \/ (i - 1 \in DOMAIN channel' /\ channel'[i - 1] = channel[i])
      /\ \A i, j \in DOMAIN channel' : i + 1 = j + 1 => i = j
      /\ 1 \in DOMAIN channel /\ channel[1].node = node
  BY <1>1
<1>3. Unique'
  BY <1>2 DEF Unique
<1>4. \A e \in Waiting' : e \in Waiting /\ e.node # node
  BY <1>2 DEF Waiting, Unique
<1>5. ASSUME NEW e \in Waiting, e.node # node PROVE e \in Waiting'
  <2>1. PICK i \in DOMAIN channel : e = channel[i]
    BY DEF Waiting
  <2>2. i - 1 \in DOMAIN channel' /\ channel'[i - 1] = e
    BY <1>2, <1>5, <2>1
  <2> QED BY <2>2 DEF Waiting
<1> QED BY <1>3, <1>4, <1>5 DEF TakesEvent

LEMMA TakesStart ==
  ASSUME SInv, IInv', Unique, NEW kind, NEW node, Handling(kind, node),
         NEW T \in SUBSET Tasks, NEW c, StartTasks(T, c, Tail(channel))
  PROVE  TakesEvent(node)
<1> DEFINE tail == Tail(channel)
<1>1. /\ channel \in Seq(GraphEvents) /\ channel # <<>> /\ Head(channel).node = node
      /\ tail \in Seq(GraphEvents) /\ StartTasks(T, c, tail)
  BY StreamTypes DEF SInv, Handling
<1>2. /\ \A i \in DOMAIN tail : /\ i + 1 \in DOMAIN channel /\ i + 1 # 1
                                /\ tail[i] = channel[i + 1]
      /\ \A i \in DOMAIN channel : i = 1 \/ (i - 1 \in DOMAIN tail /\ tail[i - 1] = channel[i])
      /\ \A i, j \in DOMAIN tail : i + 1 = j + 1 => i = j
      /\ 1 \in DOMAIN channel /\ channel[1].node = node
  BY <1>1
<1> HIDE DEF tail
<1>3. \A i \in DOMAIN tail : i \in DOMAIN channel' /\ channel'[i] = tail[i]
  BY <1>1, StartPushes
<1>4. \A i \in DOMAIN channel' : \/ i \in DOMAIN tail
                                 \/ channel'[i].node \in T /\ channel'[i].kind \in {"ok", "err"}
  BY <1>1, StartPushes
<1>5. \A i, j \in DOMAIN channel' :
          channel'[i].node \in Tasks /\ channel'[i].node = channel'[j].node => i = j
  BY DEF IInv, GraphIsConsistent, OutcomesAreUnique
<1>6. \A i, j \in DOMAIN tail : tail[i].node = tail[j].node => i = j
  BY <1>2 DEF Unique
<1>7. Unique'
  BY <1>3, <1>4, <1>5, <1>6 DEF Unique
<1>8. \A i \in DOMAIN tail : tail[i] \in Waiting /\ tail[i].node # node
  BY <1>2 DEF Waiting, Unique
<1>9. \A e \in Waiting' : e.kind \in {"ok", "err"} \/ (e \in Waiting /\ e.node # node)
  BY <1>3, <1>4, <1>8 DEF Waiting
<1>10. \A e \in Waiting : e.node = node \/ e \in Waiting'
  BY <1>2, <1>3 DEF Waiting
<1> QED BY <1>7, <1>9, <1>10 DEF TakesEvent

\* What a handler does to the batch.
Adds(es) == es \in Seq(WorkQueueEvents) /\ batch' = batch \o es

LEMMA AddsEvents ==
  ASSUME IInv, NEW es, Adds(es)
  PROVE  /\ NewEvents = {es[i] : i \in DOMAIN es}
         /\ \A i \in DOMAIN batch' : \/ i \in DOMAIN batch /\ batch'[i] = batch[i]
                                     \/ batch'[i] \in NewEvents
<1>1. batch \in Seq(WorkQueueEvents) /\ es \in Seq(WorkQueueEvents) /\ batch' = batch \o es
  BY StreamTypes DEF Adds
<1>2. /\ Len(batch) \in Nat /\ Len(es) \in Nat /\ Len(batch') = Len(batch) + Len(es)
      /\ DOMAIN batch = 1..Len(batch) /\ DOMAIN es = 1..Len(es)
      /\ DOMAIN batch' = 1..(Len(batch) + Len(es))
      /\ \A i \in 1..Len(batch) : batch'[i] = batch[i]
      /\ \A i \in 1..Len(es) : batch'[Len(batch) + i] = es[i]
  BY <1>1
<1>3. \A i \in (Len(batch) + 1)..Len(batch') :
         i - Len(batch) \in 1..Len(es) /\ batch'[i] = es[i - Len(batch)]
  <2> TAKE i \in (Len(batch) + 1)..Len(batch')
  <2>1. i - Len(batch) \in 1..Len(es) /\ i = Len(batch) + (i - Len(batch))
    BY <1>2
  <2> QED BY <1>2, <2>1
<1>4. \A i \in 1..Len(es) : Len(batch) + i \in (Len(batch) + 1)..Len(batch')
  BY <1>2
<1>5. NewEvents = {es[i] : i \in DOMAIN es}
  <2>1. \A e \in NewEvents : \E i \in DOMAIN es : e = es[i]
    BY <1>2, <1>3 DEF NewEvents
  <2>2. \A i \in DOMAIN es : es[i] \in NewEvents
    BY <1>2, <1>4 DEF NewEvents
  <2> QED BY <2>1, <2>2
<1>6. \A i \in DOMAIN batch' : i \in DOMAIN batch \/ i \in (Len(batch) + 1)..Len(batch')
  BY <1>2
<1> QED BY <1>2, <1>5, <1>6 DEF NewEvents

\* The streams that new work brings have not been produced before.
LEMMA NewStreamsAreNew ==
  ASSUME IInv, NEW work, work \in RootWork \/ \E t \in Tasks : work \in TaskWork(t)
  PROVE  work.streams \subseteq Streams /\ \A s \in work.streams : queue[s] = "none"
BY DEF RootWork, TaskWork, WorkIn, NewStreams

\* A handler takes the event of a node; it opens some streams, and may end the one that the
\* event is about.
HandlerDoes(node, opened, ended) ==
  /\ TakesEvent(node)
  /\ phase = "draining" /\ phase' = "draining" /\ UNCHANGED stopped
  /\ opened \subseteq Streams /\ ended \subseteq rootStreams \cap {node}
  /\ rootStreams' = (rootStreams \cup opened) \ ended
  /\ announced' \cap Streams = (announced \cap Streams) \cup opened
  /\ (succeeded' \cup failed') \cap Streams = ((succeeded \cup failed) \cap Streams) \cup ended
  /\ \A s \in opened : s \notin announced /\ queue'[s] # "none"
  /\ \A s \in Streams : queue'[s] # "aborted" /\ (queue[s] # "none" => queue'[s] = queue[s])
  /\ \A u \in Tasks : \A s \in childStreams'[u] : s \notin announced \cup opened /\ queue'[s] # "none"
  /\ \A u, v \in Tasks : u # v => childStreams'[u] \cap childStreams'[v] = {}
  /\ \A s \in Streams \ {node} : pump'[s] = IF s \in opened THEN "iterating" ELSE pump[s]
  /\ node \in Streams =>
       /\ node \notin opened /\ pump[node] # "off"
       /\ \/ pump'[node] = "done" /\ node \notin rootStreams'
          \/ pump'[node] = "iterating" /\ (queue[node] = "open" => node \in rootStreams')
  /\ \A t \in Tasks : comp'[t] # "aborted"
  /\ \A i \in DOMAIN batch' : batch'[i].kind # "termination"

LEMMA HandlerStreams ==
  ASSUME SInv, IInv', StreamInv, NEW node, NEW opened, NEW ended, HandlerDoes(node, opened, ended)
  PROVE  StreamInv'
<1> USE DEF HandlerDoes
<1> USE DEF StreamInv
<1>1. /\ StreamsAreBooked /\ PumpsAreServed /\ StreamsAreServed /\ LoopRuns /\ ~ stopped
      /\ IInv /\ rootStreams \subseteq Streams
      /\ \A u \in Tasks : childStreams'[u] \subseteq Streams
  <2>1. Running
    BY DEF Running
  <2>2. IInv /\ rootStreams \subseteq Streams
    BY StreamTypes DEF SInv
  <2>3. \A u \in Tasks : childStreams'[u] \subseteq Streams
    BY DEF IInv, TypeOK
  <2> QED BY <2>1, <2>2, <2>3 DEF LoopRuns
<1>2. \A s \in Streams : pump[s] # "off" => s \in announced /\ s \notin opened /\ queue'[s] = queue[s]
  BY <1>1 DEF StreamsAreBooked
<1>3. StreamsAreBooked'
  <2>1. rootStreams' \subseteq announced'
    BY <1>1 DEF StreamsAreBooked
  <2>2. announced' \cap Streams \subseteq rootStreams' \cup succeeded' \cup failed'
    BY <1>1 DEF StreamsAreBooked
  <2>3. (succeeded' \cup failed') \cap Streams \subseteq announced' \ rootStreams'
    <3> SUFFICES ASSUME NEW s \in (succeeded' \cup failed') \cap Streams
                 PROVE  s \in announced' /\ s \notin rootStreams'
      OBVIOUS
    <3>1. s \in announced
      BY <1>1 DEF StreamsAreBooked
    <3>2. s \notin rootStreams'
      BY <1>1, <3>1 DEF StreamsAreBooked
    <3> QED BY <3>1, <3>2
  <2>4. \A s \in Streams : s \in announced' => queue'[s] # "none"
    BY <1>1 DEF StreamsAreBooked
  <2>5. \A u \in Tasks : \A s \in childStreams'[u] : s \notin announced' /\ queue'[s] # "none"
    BY <1>1
  <2>6. \A s \in Streams : pump'[s] # "off" => s \in announced'
    BY <1>2
  <2> QED BY <2>1, <2>2, <2>3, <2>4, <2>5, <2>6 DEF StreamsAreBooked
<1>4. PumpsAreServed'
  <2>1. \A s \in Streams : pump'[s] \in {"handing", "cancelled"}
                             \/ (pump'[s] = "iterating" /\ queue'[s] = "open") => s \in rootStreams'
    BY <1>1, <1>2 DEF PumpsAreServed
  <2>2. \A e \in Waiting' : /\ e.kind # "stop"
                            /\ e.kind = "items" => pump'[e.node] = "handing"
                            /\ e.kind \in {"end", "fail"} => pump'[e.node] = "done"
                            /\ e.kind = "fail" => e.node \in rootStreams'
    <3> SUFFICES ASSUME NEW e \in Waiting', e.kind \notin {"ok", "err"}
                 PROVE  /\ e.kind # "stop"
                        /\ e.kind = "items" => pump'[e.node] = "handing"
                        /\ e.kind \in {"end", "fail"} => pump'[e.node] = "done"
                        /\ e.kind = "fail" => e.node \in rootStreams'
      OBVIOUS
    <3>1. e \in Waiting /\ e.node # node
      BY DEF TakesEvent
    <3>2. /\ e.kind # "stop"
          /\ e.kind = "items" => pump[e.node] = "handing"
          /\ e.kind \in {"end", "fail"} => pump[e.node] = "done"
          /\ e.kind = "fail" => e.node \in rootStreams
      BY <1>1, <3>1, ServedWaiting
    <3>3. e.kind \in {"items", "end", "fail"} => e.node \in Streams
      BY <1>1, <3>1, WaitingKinds
    <3> QED BY <1>2, <3>1, <3>2, <3>3
  <2>3. Unique'
    BY DEF TakesEvent
  <2> QED BY <2>1, <2>2, <2>3, ServedWaitingNext
<1>5. StreamsAreServed'
  <2> SUFFICES ASSUME NEW s \in rootStreams' PROVE StreamServed(s)'
    BY DEF StreamsAreServed
  <2>1. s \in Streams
    BY <1>1
  <2>2. CASE s = node \/ s \in opened
    BY <2>1, <2>2 DEF StreamServed
  <2>3. CASE s # node /\ s \notin opened
    <3>1. StreamServed(s) /\ pump'[s] = pump[s]
      BY <1>1, <2>1, <2>3 DEF StreamsAreServed
    <3>2. \A e \in Waiting : e.node = s => e \in Waiting'
      BY <2>1, <2>3, DisjointAssumption DEF TakesEvent
    <3> QED BY <3>1, <3>2, ServedWaiting, ServedWaitingNext DEF StreamServed
  <2> QED BY <2>2, <2>3
<1>6. LoopRuns'
  BY <1>1 DEF LoopRuns
<1> QED BY <1>3, <1>4, <1>5, <1>6 DEF NewStarts, Running, CancelReachesLiveWork

\* While events are handled, the queue has not been stopped.
LEMMA DrainingRuns ==
  ASSUME SInv, StreamInv, phase = "draining"
  PROVE  /\ IInv /\ StreamsAreBooked /\ PumpsAreServed /\ Unique /\ LoopRuns /\ ~ stopped
         /\ \A t \in Tasks : comp[t] # "aborted"
         /\ \A s \in Streams : queue[s] # "aborted"
         /\ \A i \in DOMAIN batch : batch[i].kind # "termination"
<1>1. Running
  BY DEF Running
<1> QED BY <1>1, ServedWaiting DEF SInv, StreamInv, LoopRuns

\* What the event tells that is handled.
LEMMA EventTells ==
  ASSUME SInv, StreamInv, NEW kind, NEW s \in Streams, Handling(kind, s)
  PROVE  /\ s \in announced /\ queue[s] # "none" /\ pump[s] # "off"
         /\ kind = "items" => pump[s] = "handing" /\ s \in rootStreams
         /\ kind \in {"end", "fail"} => pump[s] = "done"
         /\ kind = "fail" => s \in rootStreams
<1>1. /\ channel \in Seq(GraphEvents) /\ channel # <<>> /\ phase = "draining"
      /\ Head(channel).kind = kind /\ Head(channel).node = s
  BY StreamTypes DEF SInv, Handling
<1>2. Head(channel) \in Waiting
  BY <1>1 DEF Waiting
<1>3. kind \in {"items", "end", "fail"}
  BY <1>1, <1>2, WaitingKinds DEF SInv
<1>4. PumpsAreServed /\ StreamsAreBooked
  BY <1>1, DrainingRuns
<1>5. /\ kind = "items" => pump[s] = "handing"
      /\ kind \in {"end", "fail"} => pump[s] = "done"
      /\ kind = "fail" => s \in rootStreams
  BY <1>1, <1>2, <1>4, ServedWaiting
<1>6. pump[s] = "handing" => s \in rootStreams
  BY <1>4 DEF PumpsAreServed
<1> QED BY <1>3, <1>4, <1>5, <1>6 DEF StreamsAreBooked

\* Events of some kind, one for each member of a finite set of nodes.
LEMMA FailureAdds ==
  ASSUME IInv, NEW S \in SUBSET Groups, NEW order \in Orders(S),
         batch' = batch \o [i \in DOMAIN order |-> Event("groupFailure", order[i], {}, {}, {})]
  PROVE  /\ Adds([i \in DOMAIN order |-> Event("groupFailure", order[i], {}, {}, {})])
         /\ \A e \in NewEvents : /\ e.kind = "groupFailure" /\ e.node \in S
                                 /\ e.values = {} /\ e.newGroups = {} /\ e.newStreams = {}
<1> DEFINE es == [i \in DOMAIN order |-> Event("groupFailure", order[i], {}, {}, {})]
<1>1. /\ Cardinality(S) \in Nat /\ DOMAIN order = 1..Cardinality(S)
      /\ \A i \in DOMAIN order : order[i] \in S
  <2>1. IsFiniteSet(S)
    BY GroupsAreFinite
  <2> QED BY <2>1, OrdersAreSequences
<1>2. \A i \in DOMAIN order : Event("groupFailure", order[i], {}, {}, {}) \in WorkQueueEvents
  BY <1>1 DEF Event, WorkQueueEvents, Nodes
<1>3. Adds(es)
  BY <1>1, <1>2 DEF Adds
<1>4. \A e \in NewEvents : \E i \in DOMAIN es : e = es[i]
  BY <1>3, AddsEvents
<1> QED BY <1>1, <1>3, <1>4 DEF Event

LEMMA HandleTaskFailureStreams ==
  ASSUME SInv, IInv', StreamInv, NEW t \in Tasks, HandleTaskFailure(t)
  PROVE  StreamInv'
<1> DEFINE hit == GroupsOf[t] \cap graph.nodes
<1>1. /\ Handling("err", t) /\ phase = "draining" /\ phase' = "draining"
      /\ UNCHANGED <<rootStreams, queue, pump, comp, stopped, announced, succeeded>>
      /\ failed' = failed \cup hit /\ channel' = Tail(channel)
      /\ \A u \in Tasks : childStreams'[u] = {} \/ childStreams'[u] = childStreams[u]
  BY DEF HandleTaskFailure, asyncVars, Handling
<1>2. \E order \in Orders(hit) :
         batch' = batch \o [i \in DOMAIN order |-> Event("groupFailure", order[i], {}, {}, {})]
  BY DEF HandleTaskFailure
<1>3. /\ IInv /\ StreamsAreBooked /\ Unique
      /\ \A s \in Streams : queue[s] # "aborted"
      /\ \A u \in Tasks : comp[u] # "aborted"
      /\ \A i \in DOMAIN batch : batch[i].kind # "termination"
  BY <1>1, DrainingRuns
<1>4. TakesEvent(t) /\ t \notin Streams
  BY <1>1, <1>3, TakesTail, DisjointAssumption
<1>5. hit \in SUBSET Groups
  BY GroupTypes, <1>3
<1> HIDE DEF hit
<1>6. \A i \in DOMAIN batch' : batch'[i].kind # "termination"
  <2>1. PICK order \in Orders(hit) :
          batch' = batch \o [i \in DOMAIN order |-> Event("groupFailure", order[i], {}, {}, {})]
    BY <1>2
  <2>2. \A e \in NewEvents : e.kind = "groupFailure"
    BY <1>3, <1>5, <2>1, FailureAdds
  <2>3. \A i \in DOMAIN batch' : (i \in DOMAIN batch /\ batch'[i] = batch[i]) \/ batch'[i] \in NewEvents
    BY <1>3, <1>5, <2>1, FailureAdds, AddsEvents
  <2> QED BY <1>3, <2>2, <2>3
<1> DEFINE none == {}
<1>7. /\ none \subseteq Streams /\ none \subseteq rootStreams \cap {t}
      /\ rootStreams' = (rootStreams \cup none) \ none
      /\ announced' \cap Streams = (announced \cap Streams) \cup none
      /\ (succeeded' \cup failed') \cap Streams = ((succeeded \cup failed) \cap Streams) \cup none
      /\ \A s \in none : s \notin announced /\ queue'[s] # "none"
      /\ \A s \in Streams : queue'[s] # "aborted" /\ (queue[s] # "none" => queue'[s] = queue[s])
      /\ \A u \in Tasks : \A s \in childStreams'[u] : s \notin announced \cup none /\ queue'[s] # "none"
      /\ \A u, v \in Tasks : u # v => childStreams'[u] \cap childStreams'[v] = {}
      /\ \A s \in Streams \ {t} : pump'[s] = IF s \in none THEN "iterating" ELSE pump[s]
  BY <1>1, <1>3, <1>5, DisjointAssumption DEF StreamsAreBooked
<1> HIDE DEF none
<1>8. HandlerDoes(t, none, none)
  BY <1>1, <1>3, <1>4, <1>6, <1>7 DEF HandlerDoes
<1> QED BY <1>8, HandlerStreams

LEMMA StreamEndStreams ==
  ASSUME SInv, IInv', StreamInv, NEW s \in Streams,
         HandleStreamSuccess(s) \/ HandleStreamFailure(s)
  PROVE  /\ StreamInv'
         /\ \A e \in NewEvents : /\ e.kind \in {"streamSuccess", "streamFailure"} /\ e.node = s
                                 /\ s \in rootStreams
                                 /\ e.values = {} /\ e.newGroups = {} /\ e.newStreams = {}
<1> DEFINE ended == rootStreams \cap {s}
           none  == {}
<1>1. /\ phase = "draining" /\ phase' = "draining"
      /\ UNCHANGED <<queue, pump, comp, stopped, announced, childStreams>>
      /\ rootStreams' = rootStreams \ {s} /\ channel' = Tail(channel)
      /\ \E kind \in {"end", "fail"} : Handling(kind, s)
  BY DEF HandleStreamSuccess, HandleStreamFailure, asyncVars, Handling
<1>2. /\ IInv /\ StreamsAreBooked /\ Unique
      /\ \A r \in Streams : queue[r] # "aborted"
      /\ \A u \in Tasks : comp[u] # "aborted"
      /\ \A i \in DOMAIN batch : batch[i].kind # "termination"
      /\ batch \in Seq(WorkQueueEvents)
  BY <1>1, DrainingRuns, StreamTypes
<1>3. TakesEvent(s)
  BY <1>1, <1>2, TakesTail
<1>4. pump[s] = "done" /\ s \in announced
  BY <1>1, EventTells
<1>5. /\ HandleStreamFailure(s) => s \in rootStreams
      /\ \/ batch' = batch /\ ended = {} /\ succeeded' \cup failed' = succeeded \cup failed
         \/ /\ ended = {s} /\ succeeded' \cup failed' = (succeeded \cup failed) \cup {s}
            /\ \E kind \in {"streamSuccess", "streamFailure"} :
                  batch' = Append(batch, Event(kind, s, {}, {}, {}))
  <2>1. HandleStreamFailure(s) => s \in rootStreams
    BY EventTells DEF HandleStreamFailure
  <2>2. CASE HandleStreamFailure(s)
    BY <2>1, <2>2 DEF HandleStreamFailure
  <2>3. CASE HandleStreamSuccess(s)
    <3>1. failed' = failed
      BY <2>3 DEF HandleStreamSuccess
    <3>2. CASE s \in rootStreams
      BY <2>3, <3>1, <3>2 DEF HandleStreamSuccess
    <3>3. CASE s \notin rootStreams
      BY <2>1, <2>3, <3>1, <3>3 DEF HandleStreamSuccess
    <3>4. HandleStreamFailure(s) => s \in rootStreams
      BY <2>1
    <3> QED BY <3>2, <3>3, <3>4
  <2> QED BY <2>1, <2>2, <2>3
<1>6. \E es : Adds(es) /\ \A i \in DOMAIN es : /\ \E kind \in {"streamSuccess", "streamFailure"} :
                                                     es[i] = Event(kind, s, {}, {}, {})
                                               /\ s \in rootStreams
  <2>1. CASE batch' = batch
    <3> DEFINE es == <<>>
    <3>1. es \in Seq(WorkQueueEvents) /\ batch' = batch \o es /\ DOMAIN es = {}
      BY <1>2, <2>1
    <3> HIDE DEF es
    <3> QED BY <3>1 DEF Adds
  <2>2. ASSUME NEW kind \in {"streamSuccess", "streamFailure"}, s \in rootStreams,
               batch' = Append(batch, Event(kind, s, {}, {}, {}))
        PROVE  \E es : Adds(es) /\ DOMAIN es = {1} /\ es[1] = Event(kind, s, {}, {}, {})
    <3> DEFINE e  == Event(kind, s, {}, {}, {})
               es == <<e>>
    <3>1. e \in WorkQueueEvents
      BY DEF Event, WorkQueueEvents, Nodes
    <3> HIDE DEF e
    <3>2. es \in Seq(WorkQueueEvents) /\ batch' = batch \o es /\ DOMAIN es = {1} /\ es[1] = e
      BY <1>2, <2>2, <3>1 DEF e
    <3> HIDE DEF es
    <3> QED BY <3>2 DEF Adds, e
  <2> QED BY <1>5, <2>1, <2>2
<1>7. \A e \in NewEvents : /\ e.kind \in {"streamSuccess", "streamFailure"} /\ e.node = s
                           /\ s \in rootStreams
                           /\ e.values = {} /\ e.newGroups = {} /\ e.newStreams = {}
  <2>1. PICK es : Adds(es) /\ \A i \in DOMAIN es : /\ \E kind \in {"streamSuccess", "streamFailure"} :
                                                         es[i] = Event(kind, s, {}, {}, {})
                                                   /\ s \in rootStreams
    BY <1>6
  <2>2. \A e \in NewEvents : \E i \in DOMAIN es : e = es[i]
    BY <1>2, <2>1, AddsEvents
  <2> QED BY <2>1, <2>2 DEF Event
<1>8. \A i \in DOMAIN batch' : batch'[i].kind # "termination"
  <2>1. \A i \in DOMAIN batch' : (i \in DOMAIN batch /\ batch'[i] = batch[i]) \/ batch'[i] \in NewEvents
    BY <1>2, <1>6, AddsEvents
  <2> QED BY <1>2, <1>7, <2>1
<1>9. /\ none \subseteq Streams /\ ended \subseteq rootStreams \cap {s}
      /\ rootStreams' = (rootStreams \cup none) \ ended
      /\ announced' \cap Streams = (announced \cap Streams) \cup none
      /\ (succeeded' \cup failed') \cap Streams = ((succeeded \cup failed) \cap Streams) \cup ended
      /\ \A r \in none : r \notin announced /\ queue'[r] # "none"
      /\ \A r \in Streams : queue'[r] # "aborted" /\ (queue[r] # "none" => queue'[r] = queue[r])
      /\ \A u \in Tasks : \A r \in childStreams'[u] : r \notin announced \cup none /\ queue'[r] # "none"
      /\ \A u, v \in Tasks : u # v => childStreams'[u] \cap childStreams'[v] = {}
      /\ \A r \in Streams \ {s} : pump'[r] = IF r \in none THEN "iterating" ELSE pump[r]
      /\ s \notin none /\ pump[s] # "off" /\ pump'[s] = "done" /\ s \notin rootStreams'
  BY <1>1, <1>2, <1>4, <1>5 DEF StreamsAreBooked
<1> HIDE DEF none, ended
<1>10. HandlerDoes(s, none, ended)
  BY <1>1, <1>2, <1>3, <1>8, <1>9 DEF HandlerDoes
<1>11. StreamInv'
  BY <1>10, HandlerStreams
<1> QED BY <1>7, <1>11

\* Starting tasks aborts none.
LEMMA StartsAreAlive ==
  ASSUME NEW work, NEW T \in SUBSET Tasks, Starts(work, T), \A t \in Tasks : comp[t] # "aborted"
  PROVE  \A t \in Tasks : /\ comp'[t] # "aborted"
                          /\ comp'[t] = "running" /\ comp[t] # "running" => GroupsOf[t] \cap rootGroups' # {}
BY DEF Starts, Begun, Produced

LEMMA AppendTwo ==
  ASSUME NEW S, NEW b \in Seq(S), NEW v \in S, NEW w \in S
  PROVE  b \o <<v>> \o <<w>> = b \o <<v, w>>
<1> DEFINE left  == b \o <<v>> \o <<w>>
           right == b \o <<v, w>>
<1>1. left \in Seq(S) /\ right \in Seq(S) /\ Len(left) = Len(b) + 2 /\ Len(right) = Len(b) + 2
  OBVIOUS
<1>2. \A i \in 1..(Len(b) + 2) : left[i] = right[i]
  <2> TAKE i \in 1..(Len(b) + 2)
  <2>1. i \in 1..Len(b) \/ i = Len(b) + 1 \/ i = Len(b) + 2
    OBVIOUS
  <2> QED BY <2>1
<1> HIDE DEF left, right
<1>3. left = right
  BY <1>1, <1>2
<1> QED BY <1>3 DEF left, right

LEMMA ItemsStreams ==
  ASSUME SInv, IInv', StreamInv, NEW s \in Streams, NEW work \in RootWork, TakeItems(s, work),
         Handling("items", s)
  PROVE  LET promoted == Promoted(Integrate(graph, work), Openings(work, {}))
         IN  /\ StreamInv'
             /\ \A e \in NewEvents : /\ e.kind \in {"streamValues", "streamSuccess"} /\ e.node = s
                                     /\ e.values = {}
                                     /\ e.newGroups \subseteq promoted
                                     /\ e.newStreams \subseteq work.streams
             /\ s \in rootStreams
             /\ \A r \in work.streams : r \notin announced
<1> DEFINE top      == {g \in work.groups : Parent[g] = NoGroup}
           promoted == Promoted(Integrate(graph, work), top)
           opened   == work.streams
           ended    == IF queue[s] = "stopped" THEN {s} ELSE {}
           starting == (UNION {Integrate(graph, work).tasks[g] : g \in promoted}) \ taskNodes
           values   == Event("streamValues", s, {}, promoted, work.streams)
           success  == Event("streamSuccess", s, {}, {}, {})
<1>1. /\ phase = "draining" /\ phase' = "draining"
      /\ UNCHANGED <<childStreams, stopped, failed>>
      /\ StartTasks(starting, Produced(work), Tail(channel))
      /\ rootStreams' = (rootStreams \cup opened) \ ended
      /\ queue' = [q \in Streams |-> IF q \in work.streams THEN "open" ELSE queue[q]]
      /\ pump' = [StartPumps(work.streams) EXCEPT ![s] = IF @ = "handing" THEN "iterating" ELSE @]
      /\ announced' = announced \cup promoted \cup work.streams
      /\ succeeded' = IF queue[s] = "stopped" THEN succeeded \cup {s} ELSE succeeded
      /\ batch' = batch \o <<values>> \o (IF queue[s] = "stopped" THEN <<success>> ELSE <<>>)
  BY DEF TakeItems, Handling
<1>2. /\ IInv /\ StreamsAreBooked /\ Unique
      /\ \A r \in Streams : queue[r] # "aborted"
      /\ \A u \in Tasks : comp[u] # "aborted"
      /\ \A i \in DOMAIN batch : batch[i].kind # "termination"
      /\ batch \in Seq(WorkQueueEvents)
  BY <1>1, DrainingRuns, StreamTypes
<1>3. /\ pump[s] = "handing" /\ s \in rootStreams /\ s \in announced /\ queue[s] # "none"
  BY EventTells
<1>4. work.streams \subseteq Streams /\ \A r \in work.streams : queue[r] = "none"
  BY <1>2, NewStreamsAreNew
<1>5. top = Openings(work, {})
  BY DEF Openings
<1>6. Starts(work, starting) /\ starting \in SUBSET Tasks /\ promoted \subseteq Groups
  <2>1. Grows(work, {}, Integrate(graph, work), starting)
    BY <1>5, ItemsReport
  <2>2. Integrate(graph, work) \in Graph
    BY <2>1 DEF Grows, Sound
  <2>3. promoted \subseteq Groups
    BY <2>2 DEF Promoted, Graph
  <2>4. Starts(work, starting)
    BY <2>1 DEF Grows
  <2> HIDE DEF starting
  <2> QED BY <2>3, <2>4 DEF Starts, Existing
<1> HIDE DEF starting, top, promoted
<1>7. TakesEvent(s)
  BY <1>1, <1>2, <1>6, TakesStart
<1>8. values \in WorkQueueEvents /\ success \in WorkQueueEvents
  BY <1>4, <1>6 DEF Event, WorkQueueEvents, Nodes
<1> HIDE DEF values, success
<1>9. \E es : Adds(es) /\ \A i \in DOMAIN es : es[i] \in {values, success}
  <2>1. CASE queue[s] = "stopped"
    <3> DEFINE es == <<values, success>>
    <3>1. es \in Seq(WorkQueueEvents) /\ DOMAIN es = {1, 2} /\ es[1] = values /\ es[2] = success
      BY <1>8
    <3>2. batch' = batch \o <<values>> \o <<success>>
      BY <1>1, <2>1
    <3>3. batch' = batch \o es
      BY <1>2, <1>8, <3>2, AppendTwo
    <3> HIDE DEF es
    <3> QED BY <3>1, <3>3 DEF Adds
  <2>2. CASE queue[s] # "stopped"
    <3> DEFINE es == <<values>>
    <3>1. es \in Seq(WorkQueueEvents) /\ batch' = batch \o es /\ DOMAIN es = {1} /\ es[1] = values
      BY <1>1, <1>2, <1>8, <2>2
    <3> HIDE DEF es
    <3> QED BY <3>1 DEF Adds
  <2> QED BY <2>1, <2>2
<1>10. \A e \in NewEvents : e \in {values, success}
  <2>1. PICK es : Adds(es) /\ \A i \in DOMAIN es : es[i] \in {values, success}
    BY <1>9
  <2>2. \A e \in NewEvents : \E i \in DOMAIN es : e = es[i]
    BY <1>2, <2>1, AddsEvents
  <2> QED BY <2>1, <2>2
<1>11. \A e \in NewEvents : /\ e.kind \in {"streamValues", "streamSuccess"} /\ e.node = s
                            /\ e.values = {}
                            /\ e.newGroups \subseteq promoted
                            /\ e.newStreams \subseteq work.streams
  BY <1>10 DEF values, success, Event
<1>12. \A i \in DOMAIN batch' : batch'[i].kind # "termination"
  <2>1. \A i \in DOMAIN batch' : (i \in DOMAIN batch /\ batch'[i] = batch[i]) \/ batch'[i] \in NewEvents
    BY <1>2, <1>9, AddsEvents
  <2> QED BY <1>2, <1>11, <2>1
<1>13. \A r \in work.streams : r \notin announced /\ r # s
  BY <1>2, <1>3, <1>4 DEF StreamsAreBooked
<1>14. /\ \A r \in Streams : queue'[r] = IF r \in opened THEN "open" ELSE queue[r]
       /\ \A r \in Streams \ {s} : pump'[r] = IF r \in opened THEN "iterating" ELSE pump[r]
       /\ pump'[s] = "iterating"
  BY <1>1, <1>3, <1>13 DEF StartPumps
<1>15. /\ opened \subseteq Streams /\ ended \subseteq rootStreams \cap {s}
       /\ announced' \cap Streams = (announced \cap Streams) \cup opened
       /\ (succeeded' \cup failed') \cap Streams = ((succeeded \cup failed) \cap Streams) \cup ended
       /\ \A r \in opened : r \notin announced /\ queue'[r] # "none"
       /\ \A r \in Streams : queue'[r] # "aborted" /\ (queue[r] # "none" => queue'[r] = queue[r])
  BY <1>1, <1>2, <1>3, <1>4, <1>6, <1>13, <1>14, DisjointAssumption
<1>16. /\ \A u \in Tasks : \A r \in childStreams'[u] : r \notin announced \cup opened /\ queue'[r] # "none"
       /\ \A u, v \in Tasks : u # v => childStreams'[u] \cap childStreams'[v] = {}
  <2>1. \A u \in Tasks : \A r \in childStreams[u] : r \in Streams /\ r \notin announced /\ queue[r] # "none"
    BY <1>2, StreamTypes DEF StreamsAreBooked
  <2> QED BY <1>1, <1>2, <1>4, <1>14, <2>1 DEF StreamsAreBooked
<1>17. /\ s \notin opened /\ pump[s] # "off" /\ pump'[s] = "iterating"
       /\ queue[s] = "open" => s \in rootStreams'
  BY <1>1, <1>3, <1>13, <1>14
<1>18. \A t \in Tasks : comp'[t] # "aborted"
  BY <1>2, <1>6, StartsAreAlive
<1> HIDE DEF opened, ended
<1>19. HandlerDoes(s, opened, ended)
  BY <1>1, <1>7, <1>12, <1>14, <1>15, <1>16, <1>17, <1>18 DEF HandlerDoes
<1>20. StreamInv'
  BY <1>19, HandlerStreams
<1> QED BY <1>3, <1>5, <1>11, <1>13, <1>20 DEF promoted

\* _finish_group_success() for several groups: a value is reported with one of them only.
LEMMA FinishReports ==
  ASSUME IInv, NEW gr \in Graph, NEW S \in SUBSET Groups, NEW order \in Orders(S),
         NEW nodes \in SUBSET Tasks, NEW hasValue, NEW streams \in [Tasks -> SUBSET Streams],
         batch' = batch \o FinishEvents(gr, order, nodes, hasValue, streams)
  PROVE  /\ Adds(FinishEvents(gr, order, nodes, hasValue, streams))
         /\ \A e \in NewEvents :
               /\ e.kind = "groupSuccess" /\ e.node \in S
               /\ e.values \subseteq gr.tasks[e.node] \cap nodes \cap hasValue
               /\ e.newGroups = Promoted(Remove(gr, S), gr.children[e.node])
               /\ e.newStreams \subseteq UNION {streams[u] : u \in gr.tasks[e.node] \cap nodes}
         /\ \A e, f \in NewEvents : e # f => e.values \cap f.values = {}
<1> DEFINE es     == FinishEvents(gr, order, nodes, hasValue, streams)
           own(i) == {t \in gr.tasks[order[i]] \cap nodes :
                        \A j \in 1..(i - 1) : t \notin gr.tasks[order[j]]}
<1>1. /\ Cardinality(S) \in Nat /\ DOMAIN order = 1..Cardinality(S)
      /\ \A i \in DOMAIN order : order[i] \in S
  BY GroupsAreFinite, OrdersAreSequences
<1>2. {order[i] : i \in DOMAIN order} = S
  BY <1>1 DEF Orders
<1>3. es = [i \in DOMAIN order |->
              Event("groupSuccess", order[i], own(i) \cap hasValue,
                    Promoted(Remove(gr, S), gr.children[order[i]]),
                    UNION {streams[t] : t \in own(i)})]
  BY <1>2 DEF FinishEvents
<1>4. Adds(es)
  BY FinishTyped DEF Adds
<1> HIDE DEF es
<1>5. \A e \in NewEvents : \E i \in DOMAIN order : e = es[i]
  <2>1. NewEvents = {es[i] : i \in DOMAIN es}
    BY <1>4, AddsEvents
  <2> QED BY <1>3, <2>1
<1>6. \A i \in DOMAIN order : /\ es[i].kind = "groupSuccess" /\ es[i].node = order[i]
                              /\ es[i].values = own(i) \cap hasValue
                              /\ es[i].newGroups = Promoted(Remove(gr, S), gr.children[order[i]])
                              /\ es[i].newStreams = UNION {streams[t] : t \in own(i)}
  BY <1>3 DEF Event
<1>7. \A i \in DOMAIN order : own(i) \subseteq gr.tasks[order[i]] \cap nodes
  OBVIOUS
<1>8. \A i, j \in DOMAIN order : i # j => own(i) \cap own(j) = {}
  <2>1. \A i, j \in DOMAIN order : i < j => own(i) \cap own(j) = {}
    BY <1>1
  <2>2. \A i, j \in DOMAIN order : i # j => i < j \/ j < i
    BY <1>1
  <2> HIDE DEF own
  <2> QED BY <2>1, <2>2
<1> HIDE DEF own
<1>9. ASSUME NEW e \in NewEvents
      PROVE  /\ e.kind = "groupSuccess" /\ e.node \in S
             /\ e.values \subseteq gr.tasks[e.node] \cap nodes \cap hasValue
             /\ e.newGroups = Promoted(Remove(gr, S), gr.children[e.node])
             /\ e.newStreams \subseteq UNION {streams[u] : u \in gr.tasks[e.node] \cap nodes}
  <2>1. PICK i \in DOMAIN order : e = es[i]
    BY <1>5
  <2>2. /\ e.kind = "groupSuccess" /\ e.node = order[i]
        /\ e.values = own(i) \cap hasValue
        /\ e.newGroups = Promoted(Remove(gr, S), gr.children[order[i]])
        /\ e.newStreams = UNION {streams[t] : t \in own(i)}
    BY <1>6, <2>1
  <2> QED BY <1>1, <1>7, <2>2
<1>10. \A e, f \in NewEvents : e # f => e.values \cap f.values = {}
  BY <1>5, <1>6, <1>8
<1> QED BY <1>4, <1>9, <1>10 DEF es

\* The more is opened, the more is promoted; and the tasks of the groups do not matter.
LEMMA PromotedGrows ==
  ASSUME NEW gr, NEW more, more.nodes = gr.nodes, more.children = gr.children,
         more.pending = gr.pending, NEW S, NEW R \in SUBSET S
  PROVE  Promoted(gr, R) \subseteq Promoted(more, S)
<1> DEFINE U == {g \in gr.nodes : gr.pending[g] = 0}
<1>1. Empty(gr, R) = Reached(gr, U, R) /\ Empty(more, S) = Reached(gr, U, S)
  BY DEF Empty, Reached
<1>2. Reached(gr, U, R) \subseteq Reached(gr, U, S)
  <2> HIDE DEF U
  <2>1. S \cap U \subseteq Reached(gr, U, S) /\ Reached(gr, U, S) \in SUBSET U
        /\ \A r \in Reached(gr, U, S) : gr.children[r] \cap U \subseteq Reached(gr, U, S)
    BY DEF Reached
  <2> QED BY <2>1 DEF Reached
<1> QED BY <1>1, <1>2 DEF Promoted

\* A success: the streams that its tasks have found are opened when the tasks are delivered.
LEMMA SuccessOpens ==
  ASSUME SInv, IInv', StreamInv, NEW t \in Tasks, NEW work \in TaskWork(t), Succeed(t, work),
         Handling("ok", t)
  PROVE  LET fin == SuccessFinished(t, work)
         IN  /\ StreamInv'
             /\ \A e \in NewEvents :
                   /\ e.kind = "groupSuccess" /\ e.node \in fin
                   /\ e.values \subseteq valued \cup {t}
                   /\ e.newGroups \subseteq Promoted(SuccessRest(t, work), Openings(work, fin))
                   /\ e.newStreams \subseteq SuccessOpened(t, work)
             /\ \A e, f \in NewEvents : e # f => e.values \cap f.values = {}
             /\ \A s \in SuccessOpened(t, work) : s \notin announced
<1> DEFINE fin      == SuccessFinished(t, work)
           gr1      == SuccessGraph(t, work)
           gr       == SuccessRest(t, work)
           nodes1   == SuccessNodes(t, work)
           valued1  == SuccessValued(t)
           streams1 == SuccessStreams(t, work)
           starting == SuccessStarts(t, work)
           done     == SuccessDone(t, work)
           opened   == SuccessOpened(t, work)
           promoted == Promoted(gr, Openings(work, fin))
<1>1. /\ phase = "draining" /\ UNCHANGED <<stopped, failed>>
      /\ StartTasks(starting, Produced(work), Tail(channel))
      /\ rootStreams' = rootStreams \cup opened
      /\ queue' = [s \in Streams |-> IF s \in work.streams THEN "open" ELSE queue[s]]
      /\ pump' = StartPumps(opened)
      /\ childStreams' = [u \in Tasks |-> IF u \in done THEN {} ELSE streams1[u]]
      /\ succeeded' = succeeded \cup fin
      /\ phase' = IF Crashes(starting) THEN "crashed" ELSE "draining"
      /\ \E order \in Orders(fin) :
            batch' = batch \o FinishEvents(gr1, order, nodes1, valued1, streams1)
  BY DEF Succeed, SuccessGraph, SuccessNodes, SuccessValued, SuccessFinished, SuccessDone,
         SuccessRest, SuccessBelow, SuccessStarts, SuccessStreams, SuccessOpened, Handling
<1>2. /\ IInv /\ StreamsAreBooked /\ Unique
      /\ \A s \in Streams : queue[s] # "aborted"
      /\ \A u \in Tasks : comp[u] # "aborted"
      /\ \A i \in DOMAIN batch : batch[i].kind # "termination"
  BY <1>1, DrainingRuns
<1>3. /\ Grows(work, fin, gr, starting)
      /\ announced' = announced \cup promoted \cup opened
      /\ opened \subseteq Streams
  BY SuccessReports
<1>4. work.streams \subseteq Streams /\ \A s \in work.streams : queue[s] = "none"
  BY <1>2, NewStreamsAreNew
<1>5. /\ gr1 \in Graph /\ gr.nodes = gr1.nodes \ fin /\ gr1.nodes \subseteq Groups
      /\ fin \subseteq gr1.nodes
  BY <1>2, SuccessGraphs DEF Sound, Graph
<1>6. gr = Forget(Remove(gr1, fin), done) /\ Openings(work, fin) = UNION {gr1.children[g] : g \in fin}
  BY SuccessGrows DEF SuccessRest, SuccessBelow
<1>7. /\ nodes1 \in SUBSET Tasks /\ valued1 \subseteq valued \cup {t} /\ fin \in SUBSET Groups
      /\ streams1 \in [Tasks -> SUBSET Streams]
      /\ done = (UNION {gr1.tasks[g] : g \in fin}) \cap nodes1
      /\ opened = UNION {streams1[u] : u \in done}
  <2>1. work.tasks \subseteq Tasks /\ taskNodes \subseteq Tasks
    BY <1>2, NewWork, GroupTypes DEF Work
  <2>2. childStreams \in [Tasks -> SUBSET Streams]
    BY <1>2, StreamTypes
  <2>3. nodes1 \in SUBSET Tasks
    BY <2>1 DEF SuccessNodes, AtOnce
  <2>4. streams1 \in [Tasks -> SUBSET Streams]
    BY <1>4, <2>2 DEF SuccessStreams
  <2>5. valued1 \subseteq valued \cup {t}
    BY DEF SuccessValued
  <2>6. done = (UNION {gr1.tasks[g] : g \in fin}) \cap nodes1 /\ opened = UNION {streams1[u] : u \in done}
    BY DEF SuccessDone, SuccessOpened
  <2> QED BY <1>5, <2>3, <2>4, <2>5, <2>6
<1>8. Starts(work, starting) /\ starting \in SUBSET Tasks /\ gr \in Graph
  <2>1. Starts(work, starting) /\ gr \in Graph
    BY <1>3 DEF Grows, Sound
  <2> HIDE DEF starting
  <2> QED BY <2>1 DEF Starts, Existing
<1>9. \A u \in Tasks : \A s \in streams1[u] :
         \/ s \in childStreams[u] /\ queue[s] # "none"
         \/ u = t /\ s \in work.streams
  BY <1>2 DEF SuccessStreams, StreamsAreBooked
<1>10. /\ \A u \in Tasks : \A s \in streams1[u] : s \in Streams /\ s \notin announced
       /\ \A u, v \in Tasks : u # v => streams1[u] \cap streams1[v] = {}
  <2>1. \A u \in Tasks : \A s \in streams1[u] : s \in Streams
    BY <1>7
  <2>2. \A u \in Tasks : \A s \in streams1[u] : s \notin announced
    BY <1>2, <1>4, <1>9, <2>1 DEF StreamsAreBooked
  <2>3. \A u, v \in Tasks : u # v => streams1[u] \cap streams1[v] = {}
    BY <1>2, <1>4, <1>9 DEF StreamsAreBooked
  <2> QED BY <2>1, <2>2, <2>3
<1> HIDE DEF fin, gr1, gr, nodes1, valued1, streams1, starting, done, opened
<1>11. \A u \in done : u \in Tasks
  BY <1>7
<1>12. \A s \in opened : s \notin announced /\ \E u \in done : s \in streams1[u]
  BY <1>7, <1>10, <1>11
<1>13. promoted \subseteq Groups
  BY <1>8 DEF Promoted, Graph
<1> HIDE DEF promoted
<1>14. TakesEvent(t) /\ t \notin Streams
  BY <1>1, <1>2, <1>8, TakesStart, DisjointAssumption
<1>15. phase' = "draining"
  BY <1>1, <1>2, <1>8 DEF Crashes
<1>16. PICK order \in Orders(fin) :
         batch' = batch \o FinishEvents(gr1, order, nodes1, valued1, streams1)
  BY <1>1
<1>17. /\ Adds(FinishEvents(gr1, order, nodes1, valued1, streams1))
       /\ \A e \in NewEvents :
             /\ e.kind = "groupSuccess" /\ e.node \in fin
             /\ e.values \subseteq gr1.tasks[e.node] \cap nodes1 \cap valued1
             /\ e.newGroups = Promoted(Remove(gr1, fin), gr1.children[e.node])
             /\ e.newStreams \subseteq UNION {streams1[u] : u \in gr1.tasks[e.node] \cap nodes1}
       /\ \A e, f \in NewEvents : e # f => e.values \cap f.values = {}
  BY <1>2, <1>5, <1>7, <1>16, FinishReports
<1>18. ASSUME NEW e \in NewEvents
       PROVE  /\ e.kind = "groupSuccess" /\ e.node \in fin
              /\ e.values \subseteq valued \cup {t}
              /\ e.newGroups \subseteq promoted
              /\ e.newStreams \subseteq opened
  <2>1. e.kind = "groupSuccess" /\ e.node \in fin /\ e.values \subseteq valued \cup {t}
    BY <1>7, <1>17
  <2>2. e.newStreams \subseteq opened
    <3>1. gr1.tasks[e.node] \cap nodes1 \subseteq done
      BY <1>7, <2>1
    <3> QED BY <1>7, <1>17, <3>1
  <2>3. e.newGroups \subseteq promoted
    <3> DEFINE rest == Remove(gr1, fin)
    <3>1. /\ gr.nodes = rest.nodes /\ gr.children = rest.children /\ gr.pending = rest.pending
      BY <1>6 DEF Forget, Remove
    <3>2. gr1.children[e.node] \in SUBSET Openings(work, fin)
      BY <1>6, <2>1
    <3> HIDE DEF rest
    <3>3. Promoted(rest, gr1.children[e.node]) \subseteq promoted
      BY <3>1, <3>2, PromotedGrows DEF promoted
    <3> QED BY <1>17, <3>3 DEF rest
  <2> QED BY <2>1, <2>2, <2>3
<1>19. \A i \in DOMAIN batch' : batch'[i].kind # "termination"
  <2>1. \A i \in DOMAIN batch' : (i \in DOMAIN batch /\ batch'[i] = batch[i]) \/ batch'[i] \in NewEvents
    BY <1>2, <1>17, AddsEvents
  <2> QED BY <1>2, <1>18, <2>1
<1>20. \A t_1 \in Tasks : comp'[t_1] # "aborted"
  BY <1>2, <1>8, StartsAreAlive
<1> DEFINE none == {}
<1>21. /\ opened \subseteq Streams /\ none \subseteq rootStreams \cap {t}
       /\ rootStreams' = (rootStreams \cup opened) \ none
       /\ announced' \cap Streams = (announced \cap Streams) \cup opened
       /\ (succeeded' \cup failed') \cap Streams = ((succeeded \cup failed) \cap Streams) \cup none
  <2>1. fin \cap Streams = {} /\ promoted \cap Streams = {}
    BY <1>7, <1>13, DisjointAssumption
  <2> QED BY <1>1, <1>3, <2>1
<1>22. /\ \A s \in Streams : queue'[s] = IF s \in work.streams THEN "open" ELSE queue[s]
       /\ \A s \in Streams : pump'[s] = IF s \in opened THEN "iterating" ELSE pump[s]
       /\ \A u \in Tasks : childStreams'[u] = {} \/ (u \notin done /\ childStreams'[u] = streams1[u])
  BY <1>1 DEF StartPumps
<1>23. \A u \in Tasks : \A s \in streams1[u] : queue'[s] # "none"
  BY <1>9, <1>10, <1>22
<1>24. /\ \A s \in opened : s \notin announced /\ queue'[s] # "none"
       /\ \A s \in Streams : queue'[s] # "aborted" /\ (queue[s] # "none" => queue'[s] = queue[s])
  BY <1>2, <1>4, <1>11, <1>12, <1>22, <1>23
<1>25. /\ \A u \in Tasks : \A s \in childStreams'[u] : s \notin announced \cup opened /\ queue'[s] # "none"
       /\ \A u, v \in Tasks : u # v => childStreams'[u] \cap childStreams'[v] = {}
  <2>1. ASSUME NEW u \in Tasks, NEW s \in childStreams'[u]
        PROVE  s \notin announced \cup opened /\ queue'[s] # "none"
    <3>1. u \notin done /\ s \in streams1[u]
      BY <1>22, <2>1
    <3>2. s \notin opened
      BY <1>10, <1>11, <1>12, <3>1
    <3> QED BY <1>10, <1>23, <3>1, <3>2
  <2>2. \A u, v \in Tasks : u # v => childStreams'[u] \cap childStreams'[v] = {}
    BY <1>10, <1>22
  <2> QED BY <2>1, <2>2
<1> HIDE DEF none
<1>26. HandlerDoes(t, opened, none)
  BY <1>1, <1>14, <1>15, <1>19, <1>20, <1>21, <1>22, <1>24, <1>25 DEF HandlerDoes
<1>27. StreamInv'
  BY <1>26, HandlerStreams
<1> QED BY <1>12, <1>17, <1>18, <1>27 DEF fin, gr, opened, promoted

LEMMA NextStreams == ASSUME SInv, IInv', GroupInv, StreamInv, [Next]_vars PROVE StreamInv'
<1>1. CASE UNCHANGED vars \/ Wake \/ EndBatch \/ Resume
  BY <1>1, LoopStreams
<1>2. CASE Cancel
  BY <1>2, CancelStreams
<1>3. CASE StartEvents
  BY <1>3, StartEventsStreams
<1>4. ASSUME NEW t \in Tasks, HandleTaskSuccess(t) PROVE StreamInv'
  <2>1. PICK work \in TaskWork(t) : Succeed(t, work) /\ Handling("ok", t)
    BY <1>4 DEF HandleTaskSuccess
  <2> QED BY <2>1, SuccessOpens
<1>5. ASSUME NEW t \in Tasks, HandleTaskFailure(t) PROVE StreamInv'
  BY <1>5, HandleTaskFailureStreams
<1>6. ASSUME NEW s \in Streams, HandleStreamItems(s) PROVE StreamInv'
  <2>1. PICK work \in RootWork : TakeItems(s, work) /\ Handling("items", s)
    BY <1>6 DEF HandleStreamItems
  <2> QED BY <2>1, ItemsStreams
<1>7. ASSUME NEW s \in Streams, HandleStreamSuccess(s) \/ HandleStreamFailure(s) PROVE StreamInv'
  BY <1>7, StreamEndStreams
<1>8. ASSUME NEW t \in Tasks, PrimeEarly(t) \/ SettleTask(t) PROVE StreamInv'
  BY <1>8, TaskStreams
<1>9. ASSUME NEW s \in Streams,
             PumpItems(s) \/ PumpSuccess(s) \/ PumpFailure(s) \/ PumpCancelled(s)
      PROVE  StreamInv'
  BY <1>9, PumpStreams
<1> QED BY <1>1, <1>2, <1>3, <1>4, <1>5, <1>6, <1>7, <1>8, <1>9 DEF Next, Deliver, HandleGraphEvent

\* The invariant is inductive.
LEMMA NextReports == ASSUME RInv, [Next]_vars PROVE RInv'
<1>1. SInv' /\ IInv'
  BY NextOrder DEF RInv, SInv
<1> QED BY <1>1, NextGroups, NextStreams DEF RInv

THEOREM ReportInvariance == Spec => []RInv
<1>1. Init => RInv
  BY InitInv, InitOrder, InitGroups, InitStreams DEF RInv, SInv
<1>2. RInv /\ [Next]_vars => RInv'
  BY NextReports
<1> QED BY <1>1, <1>2, PTL DEF Spec

-----------------------------------------------------------------------------
(* What a step reports.                                                     *)

\* An event reports what has not been reported, about something that has been announced.
Fresh(e) ==
  /\ (e.newGroups \cup e.newStreams) \cap announced = {}
  /\ e.node \notin succeeded \cup failed
  /\ e.kind \notin {"groupFailure", "termination"} => e.node \in announced
  /\ e.values \cap delivered = {}

EventsAreFresh ==
  /\ \A e \in NewEvents : Fresh(e)
  /\ \A e, f \in NewEvents : e # f => e.values \cap f.values = {}

StartsBelowRoots ==
  ~ Early => \A t \in Tasks : comp'[t] = "running" /\ comp[t] # "running"
                                => GroupsOf[t] \cap announced' # {}

LEMMA NothingNew ==
  ASSUME IInv, batch' = batch \/ batch' = <<>>
  PROVE  EventsAreFresh
<1>1. Len(batch) \in Nat /\ Len(batch') <= Len(batch) /\ Len(batch') \in Nat
  BY StreamTypes
<1>2. (Len(batch) + 1)..Len(batch') = {}
  BY <1>1
<1>3. NewEvents = {}
  BY <1>2 DEF NewEvents
<1> QED BY <1>3 DEF EventsAreFresh

\* A root group, or a node that is still announced as pending, has not been reported on.
LEMMA RootsAreUnreported ==
  ASSUME RInv
  PROVE  /\ \A g \in rootGroups : g \in announced /\ g \notin succeeded \cup failed
         /\ \A g \in graph.nodes : g \notin succeeded \cup failed
         /\ \A s \in rootStreams : s \in announced /\ s \notin succeeded \cup failed
<1>1. /\ rootGroups \subseteq graph.nodes /\ rootStreams \subseteq Streams
  BY StreamTypes DEF RInv, SInv, OrderInv, RootsAreOutermost
<1> QED BY <1>1 DEF RInv, GroupInv, GroupsAreBooked, StreamInv, StreamsAreBooked

LEMMA QuietReports ==
  ASSUME RInv, Wake \/ Resume \/ Cancel
                 \/ (\E t \in Tasks : PrimeEarly(t) \/ SettleTask(t))
                 \/ (\E s \in Streams : PumpItems(s) \/ PumpSuccess(s) \/ PumpFailure(s)
                                        \/ PumpCancelled(s))
  PROVE  EventsAreFresh /\ StartsBelowRoots
<1>1. IInv /\ comp \in [Tasks -> CompStates]
  BY StreamTypes DEF RInv, SInv
<1>2. batch' = batch \/ batch' = <<>>
  BY DEF Wake, Resume, Cancel, CancelWork, PrimeEarly, SettleTask, PumpItems, PumpSuccess,
         PumpFailure, PumpCancelled, loopVars
<1>3. \A t \in Tasks : comp'[t] = "running" => comp[t] = "running"
  BY <1>1 DEF Wake, Resume, Cancel, CancelWork, PrimeEarly, SettleTask, PumpItems, PumpSuccess,
              PumpFailure, PumpCancelled, asyncVars
<1> QED BY <1>1, <1>2, <1>3, NothingNew DEF StartsBelowRoots

LEMMA EndReports == ASSUME RInv, EndBatch PROVE EventsAreFresh /\ StartsBelowRoots
<1> DEFINE end == Event("termination", NoGroup, {}, {}, {})
<1>1. /\ IInv /\ batch \in Seq(WorkQueueEvents) /\ comp' = comp
      /\ succeeded \subseteq Nodes /\ failed \subseteq Nodes
  BY StreamTypes DEF RInv, SInv, EndBatch, asyncVars
<1>2. StartsBelowRoots
  BY <1>1 DEF StartsBelowRoots
<1>3. CASE batch' = batch
  BY <1>1, <1>2, <1>3, NothingNew
<1>4. CASE batch' = Append(batch, end)
  <2> DEFINE es == <<end>>
  <2>1. end \in WorkQueueEvents
    BY DEF Event, WorkQueueEvents
  <2>2. Fresh(end) /\ end.values = {}
    BY <1>1, DisjointAssumption DEF Fresh, Event, Nodes
  <2> HIDE DEF end
  <2>3. es \in Seq(WorkQueueEvents) /\ batch' = batch \o es /\ DOMAIN es = {1} /\ es[1] = end
    BY <1>1, <1>4, <2>1
  <2> HIDE DEF es
  <2>4. NewEvents = {es[i] : i \in DOMAIN es}
    BY <1>1, <2>3, AddsEvents DEF Adds
  <2>5. \A e \in NewEvents : e = end
    BY <2>3, <2>4
  <2> QED BY <1>2, <2>2, <2>5 DEF EventsAreFresh
<1>5. batch' = batch \/ batch' = Append(batch, end)
  BY DEF EndBatch
<1> QED BY <1>3, <1>4, <1>5

LEMMA StartEventsReports == ASSUME RInv, RInv', StartEvents PROVE EventsAreFresh /\ StartsBelowRoots
<1> DEFINE T == RootTasks \ taskNodes
<1>1. /\ IInv /\ batch' = batch /\ rootGroups' = rootGroups /\ rootGroups' \subseteq announced'
      /\ StartTasks(T, comp, channel)
  BY DEF StartEvents, RInv, SInv, GroupInv, GroupsAreBooked
<1>2. /\ T \in SUBSET Tasks /\ \A t \in T : GroupsOf[t] \cap rootGroups # {}
      /\ channel \in Seq(GraphEvents)
  <2>1. \A g \in graph.nodes : \A t \in graph.tasks[g] : g \in GroupsOf[t]
    BY <1>1 DEF IInv, GraphIsConsistent, TasksAreEntered
  <2>2. rootGroups \subseteq graph.nodes
    BY DEF RInv, SInv, OrderInv, RootsAreOutermost
  <2> QED BY <1>1, <2>1, <2>2, GroupTypes, StreamTypes DEF RootTasks
<1> HIDE DEF T
<1>3. \A t \in Tasks \ T : comp'[t] = comp[t]
  BY <1>1, <1>2, StartPushes
<1> QED BY <1>1, <1>2, <1>3, NothingNew DEF StartsBelowRoots

LEMMA FailureReports ==
  ASSUME RInv, NEW t \in Tasks, HandleTaskFailure(t)
  PROVE  EventsAreFresh /\ StartsBelowRoots
<1> DEFINE hit == GroupsOf[t] \cap graph.nodes
<1>1. IInv /\ comp' = comp /\ hit \in SUBSET Groups
  BY GroupTypes DEF HandleTaskFailure, asyncVars, RInv, SInv
<1>2. PICK order \in Orders(hit) :
         batch' = batch \o [i \in DOMAIN order |-> Event("groupFailure", order[i], {}, {}, {})]
  BY DEF HandleTaskFailure
<1>3. \A e \in NewEvents : /\ e.kind = "groupFailure" /\ e.node \in hit
                           /\ e.values = {} /\ e.newGroups = {} /\ e.newStreams = {}
  <2> HIDE DEF hit
  <2> QED BY <1>1, <1>2, FailureAdds
<1>4. \A g \in graph.nodes : g \notin succeeded \cup failed
  BY RootsAreUnreported
<1> QED BY <1>1, <1>3, <1>4 DEF EventsAreFresh, Fresh, StartsBelowRoots

LEMMA StreamEndReports ==
  ASSUME RInv, IInv', NEW s \in Streams, HandleStreamSuccess(s) \/ HandleStreamFailure(s)
  PROVE  EventsAreFresh /\ StartsBelowRoots
<1>1. \A e \in NewEvents : /\ e.kind \in {"streamSuccess", "streamFailure"} /\ e.node = s
                           /\ s \in rootStreams
                           /\ e.values = {} /\ e.newGroups = {} /\ e.newStreams = {}
  BY StreamEndStreams DEF RInv
<1>2. \A r \in rootStreams : r \in announced /\ r \notin succeeded \cup failed
  BY RootsAreUnreported
<1>3. comp' = comp
  BY DEF HandleStreamSuccess, HandleStreamFailure, asyncVars
<1> QED BY <1>1, <1>2, <1>3 DEF EventsAreFresh, Fresh, StartsBelowRoots

LEMMA ItemsReports ==
  ASSUME RInv, RInv', NEW s \in Streams, NEW work \in RootWork, TakeItems(s, work),
         Handling("items", s)
  PROVE  EventsAreFresh /\ StartsBelowRoots
<1> DEFINE gr       == Integrate(graph, work)
           promoted == Promoted(gr, Openings(work, {}))
           starting == (UNION {gr.tasks[g] : g \in promoted}) \ taskNodes
<1>1. /\ \A e \in NewEvents : /\ e.kind \in {"streamValues", "streamSuccess"} /\ e.node = s
                              /\ e.values = {}
                              /\ e.newGroups \subseteq promoted
                              /\ e.newStreams \subseteq work.streams
      /\ s \in rootStreams
      /\ \A r \in work.streams : r \notin announced
  BY ItemsStreams DEF RInv, SInv
<1>2. SInv /\ IInv' /\ GroupsAreBooked /\ rootGroups' \subseteq announced'
  BY DEF RInv, SInv, GroupInv, GroupsAreBooked
<1>3. Grows(work, {}, gr, starting)
  BY <1>2, ItemsReport
<1> HIDE DEF gr, starting
<1>4. \A g \in promoted : g \notin announced
  BY <1>2, <1>3, GrowsNewRoots
<1> HIDE DEF promoted
<1>5. s \in announced /\ s \notin succeeded \cup failed
  BY <1>1, RootsAreUnreported
<1>6. StartsBelowRoots
  <2>1. Starts(work, starting)
    BY <1>3 DEF Grows
  <2>2. \A t \in Tasks : comp'[t] = "running" /\ comp[t] # "running" => GroupsOf[t] \cap rootGroups' # {}
    BY <2>1 DEF Starts, Produced
  <2> QED BY <1>2, <2>2 DEF StartsBelowRoots
<1> QED BY <1>1, <1>4, <1>5, <1>6 DEF EventsAreFresh, Fresh

LEMMA SuccessIsFresh ==
  ASSUME RInv, RInv', NEW t \in Tasks, NEW work \in TaskWork(t), Succeed(t, work),
         Handling("ok", t)
  PROVE  EventsAreFresh /\ StartsBelowRoots
<1> DEFINE fin      == SuccessFinished(t, work)
           gr       == SuccessRest(t, work)
           starting == SuccessStarts(t, work)
           opened   == SuccessOpened(t, work)
           promoted == Promoted(gr, Openings(work, fin))
<1>1. SInv /\ IInv /\ IInv' /\ GroupsAreBooked /\ NeverTwice /\ rootGroups' \subseteq announced'
  BY DEF RInv, SInv, GroupInv, GroupsAreBooked
<1>2. /\ \A e \in NewEvents :
            /\ e.kind = "groupSuccess" /\ e.node \in fin
            /\ e.values \subseteq valued \cup {t}
            /\ e.newGroups \subseteq promoted
            /\ e.newStreams \subseteq opened
      /\ \A e, f \in NewEvents : e # f => e.values \cap f.values = {}
      /\ \A s \in opened : s \notin announced
  BY <1>1, SuccessOpens DEF RInv
<1>3. Grows(work, fin, gr, starting)
  BY <1>1, SuccessReports
<1> HIDE DEF fin, gr, starting, opened
<1>4. \A g \in promoted : g \notin announced
  BY <1>1, <1>3, GrowsNewRoots
<1> HIDE DEF promoted
<1>5. \A f \in fin : f \in announced /\ f \notin succeeded \cup failed
  BY <1>3, RootsAreUnreported DEF Grows
<1>6. (valued \cup {t}) \cap delivered = {}
  BY <1>1, HandlingTail DEF NeverTwice
<1>7. StartsBelowRoots
  <2>1. Starts(work, starting)
    BY <1>3 DEF Grows
  <2>2. \A u \in Tasks : comp'[u] = "running" /\ comp[u] # "running" => GroupsOf[u] \cap rootGroups' # {}
    BY <2>1 DEF Starts, Produced
  <2> QED BY <1>1, <2>2 DEF StartsBelowRoots
<1>8. \A e \in NewEvents : Fresh(e)
  BY <1>2, <1>4, <1>5, <1>6 DEF Fresh
<1> QED BY <1>2, <1>7, <1>8 DEF EventsAreFresh

LEMMA NextFresh ==
  ASSUME RInv, RInv', Next
  PROVE  EventsAreFresh /\ StartsBelowRoots
<1>1. IInv'
  BY DEF RInv, SInv
<1>2. CASE EndBatch
  BY <1>2, EndReports
<1>3. CASE StartEvents
  BY <1>3, StartEventsReports
<1>4. ASSUME NEW t \in Tasks, HandleTaskSuccess(t) PROVE EventsAreFresh /\ StartsBelowRoots
  <2>1. PICK work \in TaskWork(t) : Succeed(t, work) /\ Handling("ok", t)
    BY <1>4 DEF HandleTaskSuccess
  <2> QED BY <2>1, SuccessIsFresh
<1>5. ASSUME NEW t \in Tasks, HandleTaskFailure(t) PROVE EventsAreFresh /\ StartsBelowRoots
  BY <1>5, FailureReports
<1>6. ASSUME NEW s \in Streams, HandleStreamItems(s) PROVE EventsAreFresh /\ StartsBelowRoots
  <2>1. PICK work \in RootWork : TakeItems(s, work) /\ Handling("items", s)
    BY <1>6 DEF HandleStreamItems
  <2> QED BY <2>1, ItemsReports
<1>7. ASSUME NEW s \in Streams, HandleStreamSuccess(s) \/ HandleStreamFailure(s)
      PROVE  EventsAreFresh /\ StartsBelowRoots
  BY <1>1, <1>7, StreamEndReports
<1>8. CASE \/ Wake \/ Resume \/ Cancel
           \/ \E t \in Tasks : PrimeEarly(t) \/ SettleTask(t)
           \/ \E s \in Streams : PumpItems(s) \/ PumpSuccess(s) \/ PumpFailure(s) \/ PumpCancelled(s)
  BY <1>8, QuietReports
<1> QED BY <1>2, <1>3, <1>4, <1>5, <1>6, <1>7, <1>8 DEF Next, Deliver, HandleGraphEvent

-----------------------------------------------------------------------------
(* The theorems.                                                            *)

\* No group or stream is announced twice, none is reported on after its completion, none is
\* reported as successful before it is announced, and without early execution no task is
\* started before one of its groups is announced (_finish_group_success, _stream_items,
\* _start_group, _add_task).
THEOREM ReportsOnceHolds == Spec => ReportsOnce
<1> DEFINE Step ==
      /\ \A e \in NewEvents :
            /\ (e.newGroups \cup e.newStreams) \cap announced = {}
            /\ e.node \notin succeeded \cup failed
            /\ e.kind \notin {"groupFailure", "termination"} => e.node \in announced
      /\ ~ Early => \A t \in Tasks : comp'[t] = "running" /\ comp[t] # "running"
                                       => GroupsOf[t] \cap announced' # {}
<1>1. RInv /\ RInv' /\ [Next]_vars => [Step]_vars
  BY NextFresh DEF EventsAreFresh, Fresh, StartsBelowRoots
<1> QED BY <1>1, ReportInvariance, PTL DEF Spec, ReportsOnce

\* The value of a task is reported once, although each of its groups holds it
\* (_finish_group_success, _remove_task).
THEOREM ValuesOnceHolds == Spec => ValuesOnce
<1> DEFINE Step ==
      /\ \A e \in NewEvents : e.values \cap delivered = {}
      /\ \A e, f \in NewEvents : e # f => e.values \cap f.values = {}
<1>1. RInv /\ RInv' /\ [Next]_vars => [Step]_vars
  BY NextFresh DEF EventsAreFresh, Fresh
<1> QED BY <1>1, ReportInvariance, PTL DEF Spec, ValuesOnce

\* A root group that has nothing left to do, or a root stream that nobody pumps, is impossible.
LEMMA NothingIsStuck == ASSUME RInv PROVE RootsAreServed
<1> SUFFICES ASSUME ~ stopped, phase # "new" PROVE
      /\ \A g \in rootGroups :
           /\ graph.tasks[g] \ valued # {}
           /\ \A t \in graph.tasks[g] \ valued : comp[t] = "running" \/ InChannel({"ok", "err"}, t)
      /\ \A s \in rootStreams :
           \/ pump[s] = "iterating"
           \/ pump[s] = "handing" /\ InChannel({"items"}, s)
           \/ pump[s] = "done" /\ InChannel({"end", "fail"}, s)
           \/ pump[s] = "cancelled" /\ Early
  BY DEF RootsAreServed
<1>1. /\ Running /\ IInv /\ GroupInv /\ StreamsAreServed
      /\ rootGroups \subseteq graph.nodes
  BY DEF RInv, SInv, StreamInv, OrderInv, RootsAreOutermost
<1>2. ASSUME NEW g \in rootGroups PROVE graph.tasks[g] \ valued # {}
  <2>1. g \in graph.nodes /\ graph.pending[g] # 0
    BY <1>1 DEF GroupInv, RootsRun
  <2>2. Cardinality(graph.tasks[g] \ valued) # 0
    BY <1>1, <2>1 DEF IInv, GraphIsConsistent, PendingIsExact
  <2> QED BY <2>2, FS_EmptySet
<1>3. ASSUME NEW g \in rootGroups, NEW t \in graph.tasks[g] \ valued
      PROVE  comp[t] = "running" \/ InChannel({"ok", "err"}, t)
  <2>1. g \in graph.nodes /\ g \in Groups /\ t \in Tasks /\ g \in GroupsOf[t]
    BY <1>1, GroupTypes DEF IInv, GraphIsConsistent, TasksAreEntered
  <2>2. Begun(comp, t) /\ t \notin delivered
    BY <1>1, <2>1 DEF GroupInv, RootsRun, NeverTwice
  <2>3. ~ Handled(t)
    BY <1>1, <1>3, <2>1, <2>2 DEF GroupInv, OutcomesAreUsed
  <2>4. comp[t] = "running" \/ \E e \in Waiting : e.node = t
    BY <2>2, <2>3 DEF Handled, Settled, Begun, Waiting
  <2>5. \A e \in Waiting : e.node = t => e.kind \in {"ok", "err"}
    BY <1>1, <2>1, WaitingKinds
  <2> QED BY <2>4, <2>5, ServedWaiting
<1>4. ASSUME NEW s \in rootStreams
      PROVE  \/ pump[s] = "iterating"
             \/ pump[s] = "handing" /\ InChannel({"items"}, s)
             \/ pump[s] = "done" /\ InChannel({"end", "fail"}, s)
             \/ pump[s] = "cancelled" /\ Early
  BY <1>1 DEF StreamsAreServed, StreamServed
<1> QED BY <1>2, <1>3, <1>4

\* Nothing announced is stuck: until the queue stops, a root group has missing tasks, each of
\* which is running or has its outcome in the channel, and a root stream is being pumped, or
\* its end is in the channel, or its pump has been cancelled with early execution
\* (_start_new_work, _start_task, _task_success).
THEOREM RootsAreServedHolds == Spec => []RootsAreServed
<1>1. RInv => RootsAreServed
  BY NothingIsStuck
<1> QED BY <1>1, ReportInvariance, PTL

\* Without roots, there is nothing left to be reported.
LEMMA NothingIsLeft == ASSUME RInv PROVE NothingLeftBehind
<1> SUFFICES ASSUME stopped, phase \in {"yielded", "ended"} PROVE
      /\ announced \subseteq succeeded \cup failed
      /\ \A g \in graph.nodes : Doomed(g)
      /\ \A t \in Tasks : comp[t] = "ok" /\ t \notin delivered => \E g \in GroupsOf[t] : Doomed(g)
  BY DEF NothingLeftBehind, Terminated
<1>1. /\ IInv /\ GroupsAreBooked /\ NodesHang /\ StartedForRoot /\ StreamsAreBooked
      /\ rootGroups = {} /\ rootStreams = {} /\ announced \subseteq Nodes
  BY StreamTypes DEF RInv, SInv, GroupInv, StreamInv, LoopRuns, Running
<1>2. announced \subseteq succeeded \cup failed
  BY <1>1 DEF GroupsAreBooked, StreamsAreBooked, Nodes
<1>3. \A g \in graph.nodes : Doomed(g)
  BY <1>1, NoRootsNoLife
<1>4. \A t \in Tasks : comp[t] = "ok" /\ t \notin delivered => \E g \in GroupsOf[t] : Doomed(g)
  BY <1>1 DEF StartedForRoot, Begun
<1> QED BY <1>2, <1>3, <1>4

\* When the queue stops by itself, everything announced has been reported as completed, what
\* is left in the graph is below a failed group, and a value is only missing if one of the
\* groups of its task has failed (events, _start_new_work, _prune_empty_groups).
THEOREM NothingLeftBehindHolds == Spec => []NothingLeftBehind
<1>1. RInv => NothingLeftBehind
  BY NothingIsLeft
<1> QED BY <1>1, ReportInvariance, PTL

\* Once the queue has been cancelled, no task is alive unless all of its groups have failed:
\* a group that is not lost hangs below a root group, where _cancel_group() finds it, and one
\* that has gone without a failure has no task that could be alive (cancel).
THEOREM CancelReachesLiveWorkHolds == Spec => []CancelReachesLiveWork
<1>1. RInv => CancelReachesLiveWork
  BY DEF RInv, StreamInv
<1> QED BY <1>1, ReportInvariance, PTL
=============================================================================
