--------------------------- MODULE WorkQueueProofs ---------------------------
(***************************************************************************)
(* The counters of the work queue are exact, for every forest of groups,   *)
(* every assignment of tasks to groups, and any number of streams.         *)
(***************************************************************************)
EXTENDS WorkQueue, FiniteSetTheorems, TLAPS

-----------------------------------------------------------------------------
(* The operators on graphs.                                                 *)

\* What GraphIsConsistent says of a graph, given the groups that were made, the
\* tasks that were produced, and those whose value is set or delivered.
Bare(gr) == \A g \in Groups \ gr.nodes : gr.tasks[g] = {} /\ gr.pending[g] = 0

Entered(gr, produced, gone) ==
  /\ \A g \in gr.nodes : \A t \in gr.tasks[g] : g \in GroupsOf[t] /\ t \in produced
  /\ \A g \in gr.nodes : \A t \in produced :
        g \in GroupsOf[t] /\ t \notin gone => t \in gr.tasks[g]

Counted(gr, set) == \A g \in gr.nodes : gr.pending[g] = Cardinality(gr.tasks[g] \ set)

Sound(gr, groups, produced, set, gone) ==
  /\ gr \in Graph
  /\ gr.nodes \subseteq groups
  /\ Bare(gr)
  /\ Entered(gr, produced, gone)
  /\ Counted(gr, set)

LEMMA TasksAreFinite ==
  ASSUME NEW T \in SUBSET Tasks
  PROVE  IsFiniteSet(T) /\ Cardinality(T) \in Nat
BY FinitenessAssumption, FS_Subset, FS_CardinalityType

LEMMA GroupsAreFinite ==
  ASSUME NEW S \in SUBSET Groups
  PROVE  IsFiniteSet(S) /\ Cardinality(S) \in Nat
BY FinitenessAssumption, FS_Subset, FS_CardinalityType

\* New work of new groups and new tasks keeps the graph sound.
LEMMA IntegrateSound ==
  ASSUME NEW gr, NEW work \in Work, NEW groups, NEW produced \in SUBSET Tasks,
         NEW set \in SUBSET produced, NEW gone,
         Sound(gr, groups, produced, set, gone),
         work.groups \cap groups = {},
         work.tasks \cap produced = {},
         \A t \in produced : GroupsOf[t] \subseteq groups
  PROVE  Sound(Integrate(gr, work), groups \cup work.groups,
               produced \cup work.tasks, set, gone)
<1> DEFINE new == Integrate(gr, work)
           nodes == gr.nodes \cup work.groups
<1>1. /\ gr \in Graph /\ gr.nodes \subseteq Groups
      /\ work.groups \subseteq Groups /\ work.tasks \subseteq Tasks
      /\ \A g \in Groups : /\ gr.children[g] \subseteq Groups
                           /\ gr.tasks[g] \subseteq Tasks
                           /\ gr.pending[g] \in Nat
  BY DEF Sound, Graph, Work
<1>2. \A g \in Groups : Cardinality(TasksOf(work.tasks, g)) \in Nat
  BY <1>1, TasksAreFinite DEF TasksOf
<1>3. new \in Graph
  BY <1>1, <1>2 DEF Integrate, Graph, TasksOf
<1>4. /\ new.nodes = nodes
      /\ \A g \in Groups \ nodes : new.tasks[g] = {} /\ new.pending[g] = 0
      /\ \A g \in nodes :
           /\ new.tasks[g] = gr.tasks[g] \cup TasksOf(work.tasks, g)
           /\ new.pending[g] = gr.pending[g] + Cardinality(TasksOf(work.tasks, g))
  BY <1>1 DEF Integrate
<1>a. \A g \in nodes : \A t : t \in new.tasks[g]
                               <=> t \in gr.tasks[g] \/ (t \in work.tasks /\ g \in GroupsOf[t])
  <2> SUFFICES ASSUME NEW g \in nodes
               PROVE  \A t : t \in new.tasks[g]
                        <=> t \in gr.tasks[g] \/ (t \in work.tasks /\ g \in GroupsOf[t])
    OBVIOUS
  <2>1. new.tasks[g] = gr.tasks[g] \cup TasksOf(work.tasks, g)
    BY <1>4
  <2> HIDE DEF new
  <2> QED BY <2>1 DEF TasksOf
<1>5. nodes \subseteq groups \cup work.groups
  BY DEF Sound
<1>6. Bare(new)
  BY <1>4 DEF Bare
<1>7. \A g \in nodes : g \notin gr.nodes =>
        /\ gr.tasks[g] = {} /\ gr.pending[g] = 0
        /\ \A t \in produced : g \notin GroupsOf[t]
  BY <1>1 DEF Sound, Bare
<1>8. Entered(new, produced \cup work.tasks, gone)
  <2> HIDE DEF new, nodes
  <2>1. ASSUME NEW g \in nodes, NEW t \in new.tasks[g]
        PROVE  g \in GroupsOf[t] /\ t \in produced \cup work.tasks
    BY <1>a, <1>7, <2>1 DEF Sound, Entered
  <2>2. ASSUME NEW g \in nodes, NEW t \in produced \cup work.tasks,
               g \in GroupsOf[t], t \notin gone
        PROVE  t \in new.tasks[g]
    BY <1>a, <1>7, <2>2 DEF Sound, Entered
  <2> QED BY <1>4, <2>1, <2>2 DEF Entered
<1>9. Counted(new, set)
  <2> SUFFICES ASSUME NEW g \in nodes
               PROVE  new.pending[g] = Cardinality(new.tasks[g] \ set)
    BY <1>4 DEF Counted
  <2> HIDE DEF new
  <2> DEFINE old == gr.tasks[g] \ set
             more == TasksOf(work.tasks, g)
  <2>1. g \in Groups
    BY <1>1
  <2>2. /\ IsFiniteSet(old) /\ Cardinality(old) \in Nat
        /\ IsFiniteSet(more) /\ Cardinality(more) \in Nat
    BY <1>1, <2>1, TasksAreFinite DEF TasksOf
  <2>3. gr.tasks[g] \subseteq produced
    BY <1>7 DEF Sound, Entered
  <2>4. old \cap more = {}
    BY <2>3 DEF TasksOf
  <2>5. new.tasks[g] \ set = old \cup more
    <3>1. \A t \in set : t \notin work.tasks
      OBVIOUS
    <3>2. \A t : t \in new.tasks[g] \ set <=> t \in old \cup more
      BY <1>a, <3>1 DEF TasksOf
    <3> QED BY <3>2
  <2>6. Cardinality(old \cup more) = Cardinality(old) + Cardinality(more)
    <3>1. Cardinality(old \cap more) = 0
      BY <2>4, FS_EmptySet
    <3>2. Cardinality(old \cup more)
            = Cardinality(old) + Cardinality(more) - Cardinality(old \cap more)
      BY <2>2, FS_Union
    <3> HIDE DEF old, more
    <3> QED BY <2>2, <3>1, <3>2
  <2>7. gr.pending[g] = Cardinality(old)
    <3>1. CASE g \in gr.nodes
      BY <3>1 DEF Sound, Counted, old
    <3>2. CASE g \notin gr.nodes
      <4>1. old = {} /\ gr.pending[g] = 0
        BY <1>7, <3>2
      <4> QED BY <4>1, FS_EmptySet
    <3> QED BY <3>1, <3>2
  <2> QED BY <1>4, <2>5, <2>6, <2>7
<1> QED BY <1>3, <1>4, <1>5, <1>6, <1>8, <1>9 DEF Sound

\* So does the removal of any groups.
LEMMA RemoveSound ==
  ASSUME NEW gr, NEW R, NEW groups, NEW produced, NEW set, NEW gone,
         Sound(gr, groups, produced, set, gone)
  PROVE  /\ Sound(Remove(gr, R), groups, produced, set, gone)
         /\ Remove(gr, R).nodes = gr.nodes \ R
         /\ \A g \in gr.nodes \ R : Remove(gr, R).tasks[g] = gr.tasks[g]
<1> DEFINE new == Remove(gr, R)
<1>1. /\ gr \in Graph /\ gr.nodes \subseteq Groups
      /\ \A g \in Groups : /\ gr.children[g] \subseteq Groups
                           /\ gr.tasks[g] \subseteq Tasks
                           /\ gr.pending[g] \in Nat
  BY DEF Sound, Graph
<1>2. new \in Graph
  BY <1>1 DEF Remove, Graph
<1>3. /\ new.nodes = gr.nodes \ R
      /\ \A g \in Groups : g \in R => new.tasks[g] = {} /\ new.pending[g] = 0
      /\ \A g \in Groups : g \notin R => /\ new.tasks[g] = gr.tasks[g]
                                         /\ new.pending[g] = gr.pending[g]
  BY DEF Remove
<1>4. \A g \in Groups \ new.nodes : new.tasks[g] = {} /\ new.pending[g] = 0
  BY <1>3 DEF Sound, Bare
<1>5. \A g \in new.nodes : /\ g \in gr.nodes
                           /\ new.tasks[g] = gr.tasks[g]
                           /\ new.pending[g] = gr.pending[g]
  BY <1>1, <1>3
<1>6. Bare(new)
  BY <1>4 DEF Bare
<1>7. Entered(new, produced, gone)
  BY <1>5 DEF Sound, Entered
<1>8. Counted(new, set)
  BY <1>5 DEF Sound, Counted
<1> QED BY <1>1, <1>2, <1>3, <1>6, <1>7, <1>8 DEF Sound

\* Counting the success of a task, along with setting its value.
LEMMA CountSuccessSound ==
  ASSUME NEW gr, NEW t, NEW groups, NEW produced \in SUBSET Tasks,
         NEW set \in SUBSET produced, NEW gone,
         Sound(gr, groups, produced, set, gone),
         t \in produced, t \notin set, t \notin gone
  PROVE  Sound(CountSuccess(gr, t), groups, produced, set \cup {t}, gone)
<1> DEFINE new == CountSuccess(gr, t)
<1>1. /\ gr \in Graph /\ gr.nodes \subseteq Groups
      /\ \A g \in Groups : gr.tasks[g] \subseteq Tasks /\ gr.pending[g] \in Nat
  BY DEF Sound, Graph
<1>2. /\ new.nodes = gr.nodes /\ new.children = gr.children /\ new.tasks = gr.tasks
      /\ \A g \in Groups : new.pending[g] = IF g \in GroupsOf[t] \cap gr.nodes
                                            THEN gr.pending[g] - 1 ELSE gr.pending[g]
  BY <1>1 DEF CountSuccess, Graph
<1>3. \A g \in gr.nodes : new.pending[g] = Cardinality(gr.tasks[g] \ (set \cup {t}))
  <2> SUFFICES ASSUME NEW g \in gr.nodes
               PROVE  new.pending[g] = Cardinality(gr.tasks[g] \ (set \cup {t}))
    OBVIOUS
  <2> DEFINE old == gr.tasks[g] \ set
  <2>1. IsFiniteSet(old)
    BY <1>1, TasksAreFinite
  <2>2. gr.pending[g] = Cardinality(old)
    BY DEF Sound, Counted
  <2>3. t \in old <=> g \in GroupsOf[t]
    BY DEF Sound, Entered
  <2>4. gr.tasks[g] \ (set \cup {t}) = old \ {t}
    OBVIOUS
  <2>5. Cardinality(old \ {t}) = IF t \in old THEN Cardinality(old) - 1
                                 ELSE Cardinality(old)
    BY <2>1, FS_RemoveElement
  <2> HIDE DEF old, new
  <2> QED BY <1>1, <1>2, <2>2, <2>3, <2>4, <2>5
<1>4. \A g \in Groups : new.pending[g] \in Nat
  <2> SUFFICES ASSUME NEW g \in Groups PROVE new.pending[g] \in Nat
    OBVIOUS
  <2>1. CASE g \in gr.nodes
    BY <1>1, <1>3, <2>1, TasksAreFinite
  <2>2. CASE g \notin gr.nodes
    BY <1>1, <1>2, <2>2
  <2> QED BY <2>1, <2>2
<1>5. new.pending \in [Groups -> Nat]
  <2>1. new.pending = [g \in Groups |-> IF g \in GroupsOf[t] \cap gr.nodes
                                       THEN gr.pending[g] - 1 ELSE gr.pending[g]]
    BY <1>1 DEF CountSuccess, Graph
  <2> QED BY <1>2, <1>4, <2>1
<1>6. new \in Graph
  <2>1. new = [nodes |-> gr.nodes, children |-> gr.children,
               tasks |-> gr.tasks, pending |-> new.pending]
    BY <1>1 DEF CountSuccess, Graph
  <2> HIDE DEF new
  <2> QED BY <1>1, <1>5, <2>1 DEF Graph
<1>7. Bare(new)
  BY <1>1, <1>2 DEF Sound, Bare
<1>8. Entered(new, produced, gone)
  BY <1>2 DEF Sound, Entered
<1>9. Counted(new, set \cup {t})
  BY <1>2, <1>3 DEF Counted
<1> HIDE DEF new
<1> QED BY <1>2, <1>6, <1>7, <1>8, <1>9 DEF Sound, new

\* The success of a task without any group left counts nowhere.
LEMMA CountNothing ==
  ASSUME NEW gr \in Graph, NEW t, GroupsOf[t] \cap gr.nodes = {}
  PROVE  CountSuccess(gr, t) = gr
BY DEF CountSuccess, Graph

\* Tasks are forgotten when their values are set, and delivered.
LEMMA ForgetSound ==
  ASSUME NEW gr, NEW D, NEW groups, NEW produced \in SUBSET Tasks, NEW set, NEW gone,
         Sound(gr, groups, produced, set, gone),
         D \subseteq set
  PROVE  /\ Sound(Forget(gr, D), groups, produced, set \ D, gone \cup D)
         /\ Forget(gr, D).nodes = gr.nodes
         /\ \A g \in gr.nodes : Forget(gr, D).tasks[g] = gr.tasks[g] \ D
<1> DEFINE new == Forget(gr, D)
<1>1. /\ gr \in Graph /\ gr.nodes \subseteq Groups
      /\ \A g \in Groups : gr.tasks[g] \subseteq Tasks /\ gr.pending[g] \in Nat
  BY DEF Sound, Graph
<1>2. /\ new \in Graph
      /\ new.nodes = gr.nodes /\ new.children = gr.children /\ new.pending = gr.pending
      /\ \A g \in Groups : new.tasks[g] = gr.tasks[g] \ D
  BY <1>1 DEF Forget, Graph
<1>3. Bare(new)
  BY <1>1, <1>2 DEF Sound, Bare
<1>4. Entered(new, produced, gone \cup D)
  BY <1>1, <1>2 DEF Sound, Entered
<1>5. \A g \in gr.nodes : (gr.tasks[g] \ D) \ (set \ D) = gr.tasks[g] \ set
  OBVIOUS
<1>6. Counted(new, set \ D)
  BY <1>1, <1>2, <1>5 DEF Sound, Counted
<1> HIDE DEF new
<1> QED BY <1>1, <1>2, <1>3, <1>4, <1>6 DEF Sound, new

-----------------------------------------------------------------------------
(* The channel.                                                             *)

\* What OutcomesAreUnique says of a channel, given the computations and the tasks
\* whose value is set or delivered.
Distinct(ch) ==
  \A i, j \in DOMAIN ch : ch[i].node \in Tasks /\ ch[i].node = ch[j].node => i = j

Settled(c, t) == c[t] \in {"ok", "err"}

ChannelOK(ch, c, gone) ==
  /\ \A t \in Tasks : ~ Settled(c, t) =>
        /\ t \notin gone
        /\ \A i \in DOMAIN ch : ch[i].node # t
  /\ Distinct(ch)
  /\ \A i \in DOMAIN ch : ch[i].node \notin gone

LEMMA OrdersAreSequences ==
  ASSUME NEW S, IsFiniteSet(S), NEW order \in Orders(S)
  PROVE  /\ Cardinality(S) \in Nat
         /\ DOMAIN order = 1..Cardinality(S)
         /\ \A i \in DOMAIN order : order[i] \in S
         /\ \A i, j \in DOMAIN order : order[i] = order[j] => i = j
BY FS_CardinalityType DEF Orders

LEMMA EventsAreTyped ==
  /\ \A t \in Tasks : TaskOk(t) \in GraphEvents /\ TaskErr(t) \in GraphEvents
  /\ \A s \in Streams : /\ StreamItems(s) \in GraphEvents
                        /\ StreamEnd(s) \in GraphEvents
                        /\ StreamFail(s) \in GraphEvents
  /\ STOP \in GraphEvents
  /\ \A t \in Tasks : TaskOk(t).node = t /\ TaskErr(t).node = t
  /\ \A s \in Streams : /\ StreamItems(s).node = s
                        /\ StreamEnd(s).node = s
                        /\ StreamFail(s).node = s
  /\ STOP.node = NoGroup
BY DEF TaskOk, TaskErr, StreamItems, StreamEnd, StreamFail, STOP, GraphEvents

\* Taking the first event; if it is the outcome of a task, that is the only one.
LEMMA ChannelTail ==
  ASSUME NEW ch \in Seq(GraphEvents), ch # <<>>, NEW c, NEW gone,
         ChannelOK(ch, c, gone)
  PROVE  /\ Tail(ch) \in Seq(GraphEvents)
         /\ ChannelOK(Tail(ch), c, gone)
         /\ Head(ch).node \in Tasks =>
              /\ Settled(c, Head(ch).node)
              /\ Head(ch).node \notin gone
              /\ ChannelOK(Tail(ch), c, gone \cup {Head(ch).node})
<1>1. /\ Tail(ch) \in Seq(GraphEvents)
      /\ Len(ch) \in Nat /\ Len(ch) > 0
      /\ Len(Tail(ch)) = Len(ch) - 1
      /\ \A i \in 1..Len(Tail(ch)) : Tail(ch)[i] = ch[i + 1]
      /\ Head(ch) = ch[1]
  OBVIOUS
<1>2. DOMAIN ch = 1..Len(ch) /\ DOMAIN Tail(ch) = 1..Len(Tail(ch))
  BY <1>1
<1>3. \A i \in DOMAIN Tail(ch) : i + 1 \in DOMAIN ch /\ i + 1 # 1 /\ Tail(ch)[i] = ch[i + 1]
  BY <1>1, <1>2
<1>4. 1 \in DOMAIN ch
  BY <1>1, <1>2
<1>5. \A i, j \in DOMAIN Tail(ch) : i + 1 = j + 1 => i = j
  BY <1>1, <1>2
<1>6. Distinct(Tail(ch))
  BY <1>3, <1>5 DEF ChannelOK, Distinct
<1>7. ChannelOK(Tail(ch), c, gone)
  BY <1>3, <1>6 DEF ChannelOK
<1>8. ASSUME Head(ch).node \in Tasks
      PROVE  /\ Settled(c, Head(ch).node)
             /\ Head(ch).node \notin gone
             /\ ChannelOK(Tail(ch), c, gone \cup {Head(ch).node})
  <2>1. Settled(c, Head(ch).node) /\ Head(ch).node \notin gone
    BY <1>1, <1>4, <1>8 DEF ChannelOK
  <2>2. \A i \in DOMAIN Tail(ch) : Tail(ch)[i].node # Head(ch).node
    BY <1>1, <1>3, <1>4, <1>8 DEF ChannelOK, Distinct
  <2> QED BY <1>7, <2>1, <2>2 DEF ChannelOK
<1> QED BY <1>1, <1>7, <1>8

\* An event that is no outcome of a task.
LEMMA ChannelOther ==
  ASSUME NEW ch \in Seq(GraphEvents), NEW e \in GraphEvents, NEW c,
         NEW gone \in SUBSET Tasks,
         ChannelOK(ch, c, gone), e.node \notin Tasks
  PROVE  /\ Append(ch, e) \in Seq(GraphEvents)
         /\ ChannelOK(Append(ch, e), c, gone)
<1> DEFINE new == Append(ch, e)
<1>1. /\ new \in Seq(GraphEvents) /\ Len(ch) \in Nat
      /\ DOMAIN ch = 1..Len(ch) /\ DOMAIN new = 1..(Len(ch) + 1)
      /\ \A i \in 1..Len(ch) : new[i] = ch[i]
      /\ new[Len(ch) + 1] = e
  OBVIOUS
<1>2. \A i \in DOMAIN new : (i \in DOMAIN ch /\ new[i] = ch[i]) \/ new[i] = e
  BY <1>1
<1> HIDE DEF new
<1>3. Distinct(new)
  BY <1>2 DEF ChannelOK, Distinct
<1>4. ChannelOK(new, c, gone)
  BY <1>2, <1>3 DEF ChannelOK
<1> QED BY <1>1, <1>4 DEF new

\* The outcome of a task that settles.
LEMMA ChannelOutcome ==
  ASSUME NEW ch \in Seq(GraphEvents), NEW t \in Tasks, NEW e \in GraphEvents, e.node = t,
         NEW c, NEW d, NEW gone, ChannelOK(ch, c, gone),
         ~ Settled(c, t), Settled(d, t), \A u \in Tasks : u # t => d[u] = c[u]
  PROVE  /\ Append(ch, e) \in Seq(GraphEvents)
         /\ ChannelOK(Append(ch, e), d, gone)
         /\ ChannelOK(ch, d, gone)
<1> DEFINE new == Append(ch, e)
<1>1. /\ new \in Seq(GraphEvents) /\ Len(ch) \in Nat
      /\ DOMAIN ch = 1..Len(ch) /\ DOMAIN new = 1..(Len(ch) + 1)
      /\ \A i \in 1..Len(ch) : new[i] = ch[i]
      /\ new[Len(ch) + 1] = e
  OBVIOUS
<1>2. \A i \in DOMAIN new : \/ i \in DOMAIN ch /\ new[i] = ch[i]
                            \/ i = Len(ch) + 1 /\ new[i] = e
  BY <1>1
<1>3. t \notin gone /\ \A i \in DOMAIN ch : ch[i].node # t
  BY DEF ChannelOK
<1> HIDE DEF new
<1>4. Distinct(new)
  BY <1>2, <1>3 DEF ChannelOK, Distinct
<1>5. \A u \in Tasks : ~ Settled(d, u) => u # t /\ ~ Settled(c, u)
  BY DEF Settled
<1>6. ChannelOK(new, d, gone)
  BY <1>2, <1>3, <1>4, <1>5 DEF ChannelOK
<1>7. ChannelOK(ch, d, gone)
  BY <1>5 DEF ChannelOK
<1> QED BY <1>1, <1>6, <1>7 DEF new

\* Computations that change without settling, and fewer tasks gone.
LEMMA ChannelWeaker ==
  ASSUME NEW ch, NEW c, NEW d, NEW gone, NEW less \in SUBSET gone,
         ChannelOK(ch, c, gone),
         \A u \in Tasks : Settled(c, u) => Settled(d, u)
  PROVE  ChannelOK(ch, d, less)
BY DEF ChannelOK

\* Starting tasks that have not been settled by a start before.
LEMMA ChannelStart ==
  ASSUME NEW T \in SUBSET Tasks, NEW c \in [Tasks -> CompStates],
         NEW ch \in Seq(GraphEvents), NEW gone, ChannelOK(ch, c, gone),
         \A t \in T : ~ Settled(c, t),
         stopped \in BOOLEAN,
         StartTasks(T, c, ch)
  PROVE  /\ comp' \in [Tasks -> CompStates]
         /\ \A t \in T : comp'[t] \in {"ok", "err", "running"}
         /\ \A t \in Tasks \ T : comp'[t] = c[t]
         /\ channel' \in Seq(GraphEvents)
         /\ ChannelOK(channel', comp', gone)
<1>1. PICK answer \in [T -> {"ok", "err", "running"}] :
        /\ comp' = [t \in Tasks |-> IF t \in T THEN answer[t] ELSE c[t]]
        /\ \E order \in Orders({t \in T : answer[t] # "running"}) :
              channel' = IF stopped THEN ch
                         ELSE ch \o [i \in DOMAIN order |->
                                      [kind |-> answer[order[i]], node |-> order[i]]]
  BY DEF StartTasks
<1> DEFINE S == {t \in T : answer[t] # "running"}
<1>2. PICK order \in Orders(S) :
        channel' = IF stopped THEN ch
                   ELSE ch \o [i \in DOMAIN order |->
                                [kind |-> answer[order[i]], node |-> order[i]]]
  BY <1>1
<1> DEFINE more == [i \in DOMAIN order |-> [kind |-> answer[order[i]], node |-> order[i]]]
           n == Cardinality(S)
<1>3. /\ comp' \in [Tasks -> CompStates]
      /\ \A t \in T : comp'[t] \in {"ok", "err", "running"}
      /\ \A t \in Tasks \ T : comp'[t] = c[t]
  BY <1>1 DEF CompStates
<1>4. /\ n \in Nat /\ DOMAIN order = 1..n
      /\ \A i \in 1..n : order[i] \in S
      /\ \A i, j \in 1..n : order[i] = order[j] => i = j
  <2>1. IsFiniteSet(S)
    BY TasksAreFinite
  <2> HIDE DEF S
  <2> QED BY <2>1, OrdersAreSequences
<1>5. /\ more \in Seq(GraphEvents) /\ Len(more) = n
      /\ \A i \in 1..n : more[i].node = order[i]
  <2>1. \A i \in 1..n : [kind |-> answer[order[i]], node |-> order[i]] \in GraphEvents
    BY <1>4 DEF GraphEvents
  <2> HIDE DEF S, n
  <2>2. more \in [1..n -> GraphEvents]
    BY <1>4, <2>1
  <2>3. more \in Seq(GraphEvents) /\ Len(more) = n
    BY <1>4, <2>2
  <2> QED BY <1>4, <2>3
<1>6. \A t \in Tasks : ~ Settled(comp', t) => ~ Settled(c, t) /\ t \notin S
  BY <1>1, <1>3 DEF Settled
<1>7. \A t \in S : ~ Settled(c, t)
  OBVIOUS
<1>8. CASE stopped
  <2>1. channel' = ch
    BY <1>2, <1>8
  <2> QED BY <1>3, <1>6, <2>1 DEF ChannelOK
<1>9. CASE ~ stopped
  <2>1. channel' = ch \o more
    BY <1>2, <1>9
  <2> HIDE DEF more, n
  <2>2. /\ ch \o more \in Seq(GraphEvents) /\ Len(ch) \in Nat
        /\ DOMAIN ch = 1..Len(ch) /\ DOMAIN (ch \o more) = 1..(Len(ch) + n)
        /\ \A i \in 1..Len(ch) : (ch \o more)[i] = ch[i]
        /\ \A i \in 1..n : (ch \o more)[Len(ch) + i] = more[i]
    BY <1>4, <1>5
  <2>3. \A i \in DOMAIN channel' :
           \/ i \in DOMAIN ch /\ channel'[i] = ch[i]
           \/ \E k \in 1..n : i = Len(ch) + k /\ channel'[i].node = order[k]
    <3> SUFFICES ASSUME NEW i \in DOMAIN channel', i \notin 1..Len(ch)
                 PROVE  \E k \in 1..n : i = Len(ch) + k /\ channel'[i].node = order[k]
      BY <2>1, <2>2
    <3>1. i - Len(ch) \in 1..n /\ i = Len(ch) + (i - Len(ch))
      BY <1>4, <2>1, <2>2
    <3>2. channel'[i] = more[i - Len(ch)]
      BY <2>1, <2>2, <3>1
    <3>3. more[i - Len(ch)].node = order[i - Len(ch)]
      BY <1>5, <3>1
    <3> QED BY <3>1, <3>2, <3>3
  <2>4. \A k \in 1..n : /\ order[k] \in Tasks
                        /\ order[k] \notin gone
                        /\ \A i \in DOMAIN ch : ch[i].node # order[k]
    BY <1>4, <1>7 DEF ChannelOK
  <2>5. Distinct(channel')
    BY <1>4, <2>3, <2>4 DEF ChannelOK, Distinct
  <2>6. ASSUME NEW t \in Tasks, ~ Settled(comp', t)
        PROVE  t \notin gone /\ \A i \in DOMAIN channel' : channel'[i].node # t
    BY <1>4, <1>6, <2>3, <2>6 DEF ChannelOK
  <2>7. \A i \in DOMAIN channel' : channel'[i].node \notin gone
    BY <2>3, <2>4 DEF ChannelOK
  <2>8. ChannelOK(channel', comp', gone)
    BY <2>5, <2>6, <2>7 DEF ChannelOK
  <2> QED BY <1>3, <2>1, <2>2, <2>8
<1> QED BY <1>8, <1>9

-----------------------------------------------------------------------------
(* The invariant, and the steps that leave the graph alone.                 *)

IInv == TypeOK /\ GraphIsConsistent

Existing == {t \in Tasks : comp[t] # "none"}

Begun(c, t) == c[t] \in {"running", "ok", "err"}

Kept(gr, c, nodes) ==
  \A g \in gr.nodes : \A t \in gr.tasks[g] : Begun(c, t) => t \in nodes

\* The invariant in terms of the predicates above ...
LEMMA FromInv ==
  ASSUME IInv
  PROVE  /\ Sound(graph, made, Existing, valued, delivered)
         /\ \A t \in Existing : GroupsOf[t] \subseteq made
         /\ ChannelOK(channel, comp, valued \cup delivered)
         /\ valued \subseteq taskNodes
         /\ valued \cup delivered \subseteq Existing
         /\ Existing \subseteq Tasks
         /\ Kept(graph, comp, taskNodes)
<1> USE DEF IInv, GraphIsConsistent
<1>1. /\ graph \in Graph /\ graph.nodes \subseteq Groups
      /\ \A g \in Groups : graph.tasks[g] \subseteq Tasks
      /\ valued \subseteq Tasks /\ delivered \subseteq Tasks
  BY DEF TypeOK, Graph
<1>2. Bare(graph) /\ graph.nodes \subseteq made
  BY DEF NodesAreMade, Bare
<1>3. Entered(graph, Existing, delivered)
  BY <1>1 DEF TasksAreEntered, Entered, Existing
<1>4. Counted(graph, valued)
  BY DEF PendingIsExact, Counted
<1>5. \A t \in Existing : GroupsOf[t] \subseteq made
  BY DEF TasksAreEntered, Existing
<1>6. ChannelOK(channel, comp, valued \cup delivered)
  BY DEF OutcomesAreUnique, ChannelOK, Distinct, Settled
<1>7. valued \cup delivered \subseteq Existing
  BY <1>1 DEF OutcomesAreUnique, Existing
<1>8. valued \subseteq taskNodes /\ Kept(graph, comp, taskNodes)
  BY DEF NodesAreKept, Kept, Begun
<1> QED BY <1>1, <1>2, <1>3, <1>4, <1>5, <1>6, <1>7, <1>8 DEF Sound, Existing

\* ... and back, for the state after a step.
LEMMA ToInv ==
  ASSUME TypeOK',
         Sound(graph', made', Existing', valued', delivered'),
         \A t \in Existing' : GroupsOf[t] \subseteq made',
         ChannelOK(channel', comp', valued' \cup delivered'),
         valued' \subseteq taskNodes',
         Kept(graph', comp', taskNodes')
  PROVE  IInv'
<1>1. NodesAreMade'
  BY DEF NodesAreMade, Sound, Bare
<1>2. TasksAreEntered'
  BY DEF TasksAreEntered, Sound, Entered, Existing
<1>3. OutcomesAreUnique'
  BY DEF OutcomesAreUnique, ChannelOK, Distinct, Settled
<1>4. NodesAreKept'
  BY DEF NodesAreKept, Kept, Begun
<1>5. PendingIsExact'
  BY DEF PendingIsExact, Sound, Counted
<1> QED BY <1>1, <1>2, <1>3, <1>4, <1>5 DEF IInv, GraphIsConsistent

\* A step that leaves the graph alone, and begins no task.
LEMMA QuietStep ==
  ASSUME IInv, TypeOK',
         UNCHANGED <<graph, valued, made, delivered, taskNodes>>,
         \A t \in Tasks : comp'[t] = "none" <=> comp[t] = "none",
         \A t \in Tasks : Begun(comp', t) => Begun(comp, t),
         ChannelOK(channel', comp', valued \cup delivered)
  PROVE  IInv'
<1>1. Existing' = Existing
  BY DEF Existing
<1>2. \A g \in graph.nodes : graph.tasks[g] \subseteq Tasks
  BY DEF IInv, TypeOK, Graph
<1>3. Kept(graph', comp', taskNodes')
  BY <1>2, FromInv DEF Kept
<1> QED BY <1>1, <1>3, FromInv, ToInv

\* Pushing an event that is no outcome of a task.
LEMMA PushOther ==
  ASSUME IInv, NEW e \in GraphEvents, e.node \notin Tasks, Push(e)
  PROVE  channel' \in Seq(GraphEvents) /\ ChannelOK(channel', comp, valued \cup delivered)
<1>1. /\ channel \in Seq(GraphEvents)
      /\ valued \cup delivered \in SUBSET Tasks
      /\ ChannelOK(channel, comp, valued \cup delivered)
  BY FromInv DEF IInv, TypeOK
<1> QED BY <1>1, ChannelOther DEF Push

\* Handling an event takes it from the channel.
LEMMA HandlingTail ==
  ASSUME IInv, NEW kind, NEW node, Handling(kind, node)
  PROVE  /\ channel \in Seq(GraphEvents) /\ channel # <<>>
         /\ Tail(channel) \in Seq(GraphEvents)
         /\ ChannelOK(Tail(channel), comp, valued \cup delivered)
         /\ node \in Tasks => /\ Settled(comp, node)
                              /\ node \notin valued \cup delivered
                              /\ ChannelOK(Tail(channel), comp, valued \cup delivered \cup {node})
<1>1. channel \in Seq(GraphEvents) /\ channel # <<>> /\ Head(channel).node = node
  BY DEF IInv, TypeOK, Handling
<1> QED BY <1>1, FromInv, ChannelTail

LEMMA SettleTaskInv == ASSUME IInv, NEW t \in Tasks, SettleTask(t) PROVE IInv'
<1>1. /\ comp \in [Tasks -> CompStates] /\ channel \in Seq(GraphEvents)
      /\ ChannelOK(channel, comp, valued \cup delivered)
  BY FromInv DEF IInv, TypeOK
<1>2. PICK ok \in BOOLEAN :
       \/ /\ comp[t] = "early"
          /\ comp' = [comp EXCEPT ![t] = IF ok THEN "earlyOk" ELSE "earlyErr"]
          /\ UNCHANGED channel
       \/ /\ comp[t] = "running"
          /\ comp' = [comp EXCEPT ![t] = IF ok THEN "ok" ELSE "err"]
          /\ Push(IF ok THEN TaskOk(t) ELSE TaskErr(t))
  BY DEF SettleTask
<1>3. /\ comp' \in [Tasks -> CompStates]
      /\ \A u \in Tasks : comp'[u] = "none" <=> comp[u] = "none"
      /\ \A u \in Tasks : Begun(comp', u) => Begun(comp, u)
  BY <1>1, <1>2 DEF CompStates, Begun
<1>4. channel' \in Seq(GraphEvents) /\ ChannelOK(channel', comp', valued \cup delivered)
  <2>1. CASE comp[t] = "early"
    <3>1. UNCHANGED channel /\ \A u \in Tasks : Settled(comp, u) => Settled(comp', u)
      BY <1>1, <1>2, <2>1 DEF Settled
    <3> QED BY <1>1, <3>1 DEF ChannelOK
  <2>2. CASE comp[t] = "running"
    <3> DEFINE e == IF ok THEN TaskOk(t) ELSE TaskErr(t)
    <3>1. e \in GraphEvents /\ e.node = t
      BY EventsAreTyped
    <3>2. /\ ~ Settled(comp, t) /\ Settled(comp', t)
          /\ \A u \in Tasks : u # t => comp'[u] = comp[u]
      BY <1>1, <1>2, <2>2 DEF Settled
    <3>3. Push(e)
      BY <1>2, <2>2
    <3> HIDE DEF e
    <3>4. /\ Append(channel, e) \in Seq(GraphEvents)
          /\ ChannelOK(Append(channel, e), comp', valued \cup delivered)
          /\ ChannelOK(channel, comp', valued \cup delivered)
      BY <1>1, <3>1, <3>2, ChannelOutcome
    <3> QED BY <1>1, <3>3, <3>4 DEF Push
  <2> QED BY <1>2, <2>1, <2>2
<1>5. UNCHANGED <<graphVars, queue, pump, pumped, stopped, phase, batch, history>>
  BY DEF SettleTask
<1>6. TypeOK'
  BY <1>3, <1>4, <1>5 DEF IInv, TypeOK, graphVars, history
<1> QED BY <1>3, <1>4, <1>5, <1>6, QuietStep DEF graphVars, history

LEMMA PrimeEarlyInv == ASSUME IInv, NEW t \in Tasks, PrimeEarly(t) PROVE IInv'
<1>1. /\ comp \in [Tasks -> CompStates]
      /\ ChannelOK(channel, comp, valued \cup delivered)
  BY FromInv DEF IInv, TypeOK
<1>2. /\ comp' \in [Tasks -> CompStates]
      /\ \A u \in Tasks : comp'[u] = "none" <=> comp[u] = "none"
      /\ \A u \in Tasks : Begun(comp', u) => Begun(comp, u)
      /\ \A u \in Tasks : Settled(comp, u) => Settled(comp', u)
  BY <1>1 DEF PrimeEarly, CompStates, Begun, Settled
<1>3. TypeOK'
  BY <1>2 DEF IInv, TypeOK, PrimeEarly, graphVars, loopVars, history
<1>4. ChannelOK(channel', comp', valued \cup delivered)
  BY <1>1, <1>2 DEF PrimeEarly, loopVars, ChannelOK
<1> QED BY <1>2, <1>3, <1>4, QuietStep DEF PrimeEarly, graphVars, history

LEMMA PumpInv ==
  ASSUME IInv, NEW s \in Streams,
         PumpItems(s) \/ PumpSuccess(s) \/ PumpFailure(s) \/ PumpCancelled(s)
  PROVE  IInv'
<1>1. s \notin Tasks
  BY DisjointAssumption
<1>2. channel' \in Seq(GraphEvents) /\ ChannelOK(channel', comp, valued \cup delivered)
  <2>1. CASE PumpItems(s)
    BY <1>1, <2>1, EventsAreTyped, PushOther DEF PumpItems
  <2>2. CASE PumpSuccess(s)
    BY <1>1, <2>2, EventsAreTyped, PushOther DEF PumpSuccess
  <2>3. CASE PumpFailure(s)
    BY <1>1, <2>3, EventsAreTyped, PushOther DEF PumpFailure
  <2>4. CASE PumpCancelled(s)
    <3>1. channel' = channel
      BY <2>4 DEF PumpCancelled, loopVars
    <3>2. channel \in Seq(GraphEvents)
      BY DEF IInv, TypeOK
    <3> QED BY <3>1, <3>2, FromInv
  <2> QED BY <2>1, <2>2, <2>3, <2>4
<1>3. /\ queue' \in [Streams -> QueueStates]
      /\ pump' \in [Streams -> PumpStates]
      /\ pumped' \in [Streams -> Nat]
  <2>1. /\ queue \in [Streams -> QueueStates]
        /\ pump \in [Streams -> PumpStates]
        /\ pumped \in [Streams -> Nat]
    BY DEF IInv, TypeOK
  <2>2. CASE PumpItems(s)
    <3>1. pumped' = [pumped EXCEPT ![s] = pumped[s] + 1]
      BY <2>2 DEF PumpItems
    <3>2. pumped' \in [Streams -> Nat]
      BY <2>1, <3>1
    <3> QED BY <2>1, <2>2, <3>2 DEF PumpItems, QueueStates, PumpStates
  <2>3. CASE PumpSuccess(s)
    BY <2>1, <2>3 DEF PumpSuccess, QueueStates, PumpStates
  <2>4. CASE PumpFailure(s)
    BY <2>1, <2>4 DEF PumpFailure, PumpStates
  <2>5. CASE PumpCancelled(s)
    BY <2>1, <2>5 DEF PumpCancelled, PumpStates
  <2> QED BY <2>2, <2>3, <2>4, <2>5
<1>4. UNCHANGED <<graphVars, comp, stopped, phase, batch, history>>
  BY DEF PumpItems, PumpSuccess, PumpFailure, PumpCancelled, loopVars
<1>5. TypeOK'
  BY <1>2, <1>3, <1>4 DEF IInv, TypeOK, graphVars, history
<1> QED BY <1>2, <1>4, <1>5, QuietStep DEF graphVars, history

LEMMA LoopInv == ASSUME IInv, Wake \/ EndBatch \/ Resume PROVE IInv'
<1>1. /\ phase' \in PhaseStates
      /\ stopped' \in BOOLEAN
      /\ batch' \in Seq(WorkQueueEvents)
  <2>1. Event("termination", NoGroup, {}, {}, {}) \in WorkQueueEvents
    BY DEF Event, WorkQueueEvents
  <2>2. phase \in PhaseStates /\ stopped \in BOOLEAN /\ batch \in Seq(WorkQueueEvents)
    BY DEF IInv, TypeOK
  <2>3. CASE Wake
    BY <2>2, <2>3 DEF Wake, PhaseStates
  <2>4. CASE Resume
    BY <2>2, <2>4 DEF Resume, PhaseStates, Receive
  <2>5. CASE EndBatch
    <3>1. phase' \in {"yielded", "ended", "parked"} /\ stopped' \in BOOLEAN
      BY <2>2, <2>5 DEF EndBatch
    <3>2. batch' = batch \/ batch' = Append(batch, Event("termination", NoGroup, {}, {}, {}))
      BY <2>5 DEF EndBatch
    <3> QED BY <2>1, <2>2, <3>1, <3>2 DEF PhaseStates
  <2> QED BY <2>3, <2>4, <2>5
<1>2. UNCHANGED <<graphVars, asyncVars, channel, history>>
  BY DEF Wake, EndBatch, Resume
<1>3. TypeOK'
  BY <1>1, <1>2 DEF IInv, TypeOK, graphVars, asyncVars, history
<1>4. ChannelOK(channel', comp', valued \cup delivered)
  BY <1>2, FromInv DEF asyncVars
<1> QED BY <1>2, <1>3, <1>4, QuietStep DEF graphVars, asyncVars, history

LEMMA CancelInv == ASSUME IInv, CancelWork, phase' \in PhaseStates PROVE IInv'
<1> USE DEF CancelWork
<1>1. /\ comp \in [Tasks -> CompStates] /\ channel \in Seq(GraphEvents)
      /\ ChannelOK(channel, comp, valued \cup delivered)
      /\ valued \cup delivered \in SUBSET Tasks
  BY FromInv DEF IInv, TypeOK
<1>2. /\ comp' \in [Tasks -> CompStates]
      /\ \A u \in Tasks : comp'[u] = "none" <=> comp[u] = "none"
      /\ \A u \in Tasks : Begun(comp', u) => Begun(comp, u)
      /\ \A u \in Tasks : Settled(comp, u) => Settled(comp', u)
  BY <1>1 DEF CompStates, Begun, Settled
<1>3. channel' \in Seq(GraphEvents) /\ ChannelOK(channel', comp, valued \cup delivered)
  BY <1>1, EventsAreTyped, ChannelOther, DisjointAssumption DEF WakeUp
<1>4. ChannelOK(channel', comp', valued \cup delivered)
  BY <1>2, <1>3 DEF ChannelOK
<1>5. /\ queue' \in [Streams -> QueueStates]
      /\ pump' \in [Streams -> PumpStates]
      /\ stopped' \in BOOLEAN
  BY DEF IInv, TypeOK, QueueStates, PumpStates
<1>6. TypeOK'
  BY <1>2, <1>3, <1>5 DEF IInv, TypeOK, graphVars, history
<1> QED BY <1>2, <1>4, <1>6, QuietStep DEF graphVars, history

\* The handlers that leave the graph alone.
LEMMA SkipInv ==
  ASSUME IInv,
         SkipStop \/ \E s \in Streams : HandleStreamSuccess(s) \/ HandleStreamFailure(s)
  PROVE  IInv'
<1>1. /\ channel' = Tail(channel)
      /\ UNCHANGED <<graph, rootGroups, taskNodes, valued, childStreams, asyncVars,
                     stopped, phase, made, announced, delivered>>
      /\ \E kind, node : Handling(kind, node)
  BY DEF SkipStop, HandleStreamSuccess, HandleStreamFailure, graphVars, history
<1>2. /\ channel' \in Seq(GraphEvents)
      /\ ChannelOK(channel', comp', valued \cup delivered)
  BY <1>1, HandlingTail DEF asyncVars
<1> DEFINE Typed == /\ rootStreams' \subseteq Streams
                    /\ batch' \in Seq(WorkQueueEvents)
                    /\ succeeded' \subseteq Nodes /\ failed' \subseteq Nodes
<1>3. Typed
  <2>1. ASSUME NEW s \in Streams, NEW kind \in {"streamSuccess", "streamFailure"}
        PROVE  Event(kind, s, {}, {}, {}) \in WorkQueueEvents
    BY DEF Event, WorkQueueEvents, Nodes
  <2>2. /\ rootStreams \subseteq Streams /\ batch \in Seq(WorkQueueEvents)
        /\ succeeded \subseteq Nodes /\ failed \subseteq Nodes
    BY DEF IInv, TypeOK
  <2>3. CASE SkipStop
    BY <2>2, <2>3 DEF SkipStop, graphVars, history
  <2>4. ASSUME NEW s \in Streams, HandleStreamSuccess(s) PROVE Typed
    BY <2>1, <2>2, <2>4 DEF HandleStreamSuccess, Nodes
  <2>5. ASSUME NEW s \in Streams, HandleStreamFailure(s) PROVE Typed
    BY <2>1, <2>2, <2>5 DEF HandleStreamFailure, Nodes
  <2> QED BY <2>3, <2>4, <2>5
<1>4. TypeOK'
  BY <1>1, <1>2, <1>3 DEF IInv, TypeOK, asyncVars
<1> QED BY <1>1, <1>2, <1>4, QuietStep DEF asyncVars

-----------------------------------------------------------------------------
(* The steps that start tasks.                                              *)

\* What a step may hand over is new.
LEMMA NewWork ==
  ASSUME IInv, NEW work, work \in RootWork \/ \E t \in Tasks : work \in TaskWork(t)
  PROVE  /\ work \in Work
         /\ work.groups \cap made = {}
         /\ work.tasks \cap Existing = {}
         /\ \A t \in work.tasks : GroupsOf[t] \subseteq made \cup work.groups
<1>1. PICK scope \in SUBSET (made \cup {NoGroup}) :
         work \in WorkIn(scope, Groups \ made, NewTasks, NewStreams)
  BY DEF RootWork, TaskWork
<1>2. /\ work \in [groups : SUBSET (Groups \ made), tasks : SUBSET NewTasks,
                   streams : SUBSET NewStreams]
      /\ \A t \in work.tasks : GroupsOf[t] \subseteq work.groups \cup scope
  BY <1>1 DEF WorkIn
<1>3. work.tasks \subseteq Tasks
  BY <1>2 DEF NewTasks
<1>4. \A t \in work.tasks : GroupsOf[t] \subseteq Groups /\ NoGroup \notin Groups
  BY <1>3, ShapeAssumption, DisjointAssumption
<1>5. work \in Work
  BY <1>2 DEF Work, NewTasks, NewStreams
<1>6. work.groups \cap made = {} /\ work.tasks \cap Existing = {}
  BY <1>2 DEF NewTasks, Existing
<1>7. \A t \in work.tasks : GroupsOf[t] \subseteq made \cup work.groups
  BY <1>2, <1>4
<1> QED BY <1>5, <1>6, <1>7

LEMMA ProducedIsIdle ==
  ASSUME IInv, NEW work \in Work, work.tasks \cap Existing = {}
  PROVE  /\ Produced(work) \in [Tasks -> CompStates]
         /\ \A t \in Tasks : Produced(work)[t] # "none" <=> t \in Existing \cup work.tasks
         /\ \A t \in work.tasks : ~ Begun(Produced(work), t) /\ ~ Settled(Produced(work), t)
         /\ \A t \in Tasks \ work.tasks : Produced(work)[t] = comp[t]
         /\ \A t \in Tasks : Settled(comp, t) => Settled(Produced(work), t)
<1>1. comp \in [Tasks -> CompStates] /\ work.tasks \subseteq Tasks
  BY DEF IInv, TypeOK, Work
<1> QED BY <1>1 DEF Produced, CompStates, Existing, Begun, Settled

LEMMA IntegrateKept ==
  ASSUME NEW gr \in Graph, NEW work \in Work, NEW c, NEW d, NEW nodes,
         Bare(gr), Kept(gr, c, nodes),
         \A t \in work.tasks : ~ Begun(d, t),
         \A t \in Tasks \ work.tasks : d[t] = c[t]
  PROVE  Kept(Integrate(gr, work), d, nodes)
<1>1. gr.nodes \subseteq Groups /\ work.groups \subseteq Groups /\ work.tasks \subseteq Tasks
  BY DEF Graph, Work
<1> DEFINE new == Integrate(gr, work)
<1>2. new.nodes = gr.nodes \cup work.groups
  BY DEF Integrate
<1>3. \A g \in new.nodes : new.tasks[g] = gr.tasks[g] \cup TasksOf(work.tasks, g)
  BY <1>1 DEF Integrate
<1> HIDE DEF new
<1>4. ASSUME NEW g \in new.nodes, NEW t \in new.tasks[g], Begun(d, t)
      PROVE  t \in nodes
  <2>1. t \notin work.tasks /\ t \in gr.tasks[g]
    BY <1>3, <1>4 DEF TasksOf
  <2>2. g \in gr.nodes
    BY <1>1, <1>2, <2>1 DEF Bare
  <2>3. t \in Tasks
    BY <1>1, <2>1, <2>2 DEF Graph
  <2> QED BY <1>4, <2>1, <2>2, <2>3 DEF Kept, Begun
<1> QED BY <1>4 DEF Kept, new

\* _finish_group_success() reports proper events.
LEMMA FinishTyped ==
  ASSUME NEW gr \in Graph, NEW S \in SUBSET Groups, NEW order \in Orders(S),
         NEW nodes \in SUBSET Tasks, NEW hasValue,
         NEW streams \in [Tasks -> SUBSET Streams]
  PROVE  FinishEvents(gr, order, nodes, hasValue, streams) \in Seq(WorkQueueEvents)
<1> DEFINE rest == Remove(gr, {order[i] : i \in DOMAIN order})
           own(i) == {t \in gr.tasks[order[i]] \cap nodes :
                        \A j \in 1..(i - 1) : t \notin gr.tasks[order[j]]}
           event(i) == Event("groupSuccess", order[i], own(i) \cap hasValue,
                             Promoted(rest, gr.children[order[i]]),
                             UNION {streams[t] : t \in own(i)})
<1>1. Cardinality(S) \in Nat /\ DOMAIN order = 1..Cardinality(S)
      /\ \A i \in DOMAIN order : order[i] \in S
  BY GroupsAreFinite, OrdersAreSequences
<1>2. rest.nodes \subseteq Groups
  BY DEF Remove, Graph
<1>3. \A i \in DOMAIN order : event(i) \in WorkQueueEvents
  <2> SUFFICES ASSUME NEW i \in DOMAIN order PROVE event(i) \in WorkQueueEvents
    OBVIOUS
  <2>1. own(i) \subseteq Tasks
    OBVIOUS
  <2>2. Promoted(rest, gr.children[order[i]]) \subseteq Groups
    BY <1>2 DEF Promoted
  <2>3. UNION {streams[t] : t \in own(i)} \subseteq Streams
    BY <2>1
  <2>4. order[i] \in Nodes
    BY <1>1 DEF Nodes
  <2> HIDE DEF own, rest
  <2> QED BY <2>1, <2>2, <2>3, <2>4 DEF Event, WorkQueueEvents
<1>4. FinishEvents(gr, order, nodes, hasValue, streams) = [i \in DOMAIN order |-> event(i)]
  BY DEF FinishEvents
<1> HIDE DEF event
<1> QED BY <1>1, <1>3, <1>4

LEMMA InitInv == Init => IInv
<1> SUFFICES ASSUME Init PROVE IInv
  OBVIOUS
<1>1. PICK work \in [groups : SUBSET Groups, tasks : SUBSET Tasks, streams : SUBSET Streams] :
         /\ \A t \in work.tasks : GroupsOf[t] \subseteq work.groups
         /\ graph = Prune(Integrate(EmptyGraph, work), {g \in work.groups : Parent[g] = NoGroup})
         /\ rootGroups = Promoted(Integrate(EmptyGraph, work),
                                  {g \in work.groups : Parent[g] = NoGroup})
         /\ rootStreams = work.streams
         /\ comp = [t \in Tasks |-> IF t \in work.tasks THEN "idle" ELSE "none"]
         /\ queue = [s \in Streams |-> IF s \in work.streams THEN "open" ELSE "none"]
         /\ made = work.groups
         /\ announced = rootGroups \cup work.streams
  BY DEF Init
<1> DEFINE gr == Integrate(EmptyGraph, work)
           top == {g \in work.groups : Parent[g] = NoGroup}
<1>2. taskNodes = {} /\ valued = {} /\ delivered = {} /\ channel = <<>> /\ batch = <<>>
      /\ childStreams = [t \in Tasks |-> {}]
      /\ pump = [s \in Streams |-> "off"] /\ pumped = [s \in Streams |-> 0]
      /\ stopped = FALSE /\ phase = "new" /\ succeeded = {} /\ failed = {}
  BY DEF Init
<1>3. work \in Work
  BY DEF Work
<1>4. Existing = work.tasks /\ work.tasks \subseteq Tasks
  BY <1>1 DEF Existing
<1>5. Sound(EmptyGraph, {}, {}, {}, {})
  <2>1. EmptyGraph \in Graph
    BY DEF EmptyGraph, Graph
  <2> QED BY <2>1 DEF EmptyGraph, Sound, Bare, Entered, Counted
<1>6. Sound(gr, {} \cup work.groups, {} \cup work.tasks, {}, {})
  BY <1>3, <1>5, IntegrateSound
<1>7. Sound(gr, work.groups, work.tasks, {}, {})
  <2> {} \cup work.groups = work.groups /\ {} \cup work.tasks = work.tasks
    OBVIOUS
  <2> QED BY <1>6
<1>8. Sound(graph, made, Existing, valued, delivered)
  BY <1>1, <1>2, <1>4, <1>7, RemoveSound DEF Prune
<1>9. Promoted(gr, top) \subseteq Groups
  BY <1>7 DEF Promoted, Sound, Graph
<1>10. /\ comp \in [Tasks -> CompStates] /\ queue \in [Streams -> QueueStates]
       /\ made \subseteq Groups /\ rootStreams \subseteq Streams
  BY <1>1 DEF CompStates, QueueStates
<1>11. TypeOK
  <2>1. /\ graph \in Graph /\ rootGroups \subseteq Groups
        /\ announced \subseteq Nodes
    BY <1>1, <1>8, <1>9, <1>10 DEF Sound, Nodes
  <2>2. /\ childStreams \in [Tasks -> SUBSET Streams]
        /\ pump \in [Streams -> PumpStates] /\ pumped \in [Streams -> Nat]
        /\ phase \in PhaseStates
    BY <1>2 DEF PumpStates, PhaseStates
  <2>3. channel \in Seq(GraphEvents) /\ batch \in Seq(WorkQueueEvents)
    <3> HIDE DEF gr, top
    <3> QED BY <1>2
  <2>4. /\ taskNodes \subseteq Tasks /\ valued \subseteq Tasks /\ delivered \subseteq Tasks
        /\ succeeded \subseteq Nodes /\ failed \subseteq Nodes /\ stopped \in BOOLEAN
    BY <1>2
  <2> QED BY <1>10, <2>1, <2>2, <2>3, <2>4 DEF TypeOK
<1>12. NodesAreMade /\ PendingIsExact
  BY <1>8 DEF NodesAreMade, PendingIsExact, Sound, Bare, Counted
<1>13. TasksAreEntered
  BY <1>1, <1>4, <1>8 DEF TasksAreEntered, Sound, Entered, Existing
<1>14. OutcomesAreUnique
  BY <1>2 DEF OutcomesAreUnique
<1>15. NodesAreKept
  <2>1. \A t \in Tasks : comp[t] \notin {"running", "ok", "err"}
    BY <1>1
  <2>2. \A g \in graph.nodes : graph.tasks[g] \subseteq Tasks
    BY <1>8 DEF Sound, Graph
  <2> QED BY <1>2, <2>1, <2>2 DEF NodesAreKept
<1> QED BY <1>11, <1>12, <1>13, <1>14, <1>15 DEF IInv, GraphIsConsistent

LEMMA StartEventsInv == ASSUME IInv, StartEvents PROVE IInv'
<1> DEFINE T == RootTasks \ taskNodes
<1>1. /\ graph \in Graph /\ rootGroups \subseteq Groups /\ taskNodes \subseteq Tasks
      /\ comp \in [Tasks -> CompStates] /\ channel \in Seq(GraphEvents)
      /\ stopped \in BOOLEAN /\ rootStreams \subseteq Streams
      /\ pump \in [Streams -> PumpStates]
  BY DEF IInv, TypeOK
<1>2. RootTasks \subseteq Tasks /\ T \in SUBSET Tasks
  BY <1>1 DEF RootTasks, Graph
<1>3. \A t \in T : ~ Begun(comp, t) /\ comp[t] # "none"
  <2> SUFFICES ASSUME NEW t \in T PROVE ~ Begun(comp, t) /\ comp[t] # "none"
    OBVIOUS
  <2>1. PICK g \in rootGroups : t \in graph.tasks[g]
    BY DEF RootTasks
  <2>2. g \in graph.nodes
    BY <1>1, <2>1, FromInv DEF Sound, Bare
  <2> QED BY <2>1, <2>2, FromInv DEF Sound, Entered, Kept, Existing
<1>4. /\ StartTasks(T, comp, channel)
      /\ taskNodes' = taskNodes \cup RootTasks
      /\ pump' = StartPumps(rootStreams)
      /\ phase' \in {"crashed", "ended", "parked", "draining"}
      /\ UNCHANGED <<graph, rootGroups, rootStreams, valued, childStreams,
                     queue, pumped, stopped, batch, history>>
  BY DEF StartEvents, Receive
<1>5. \A t \in T : ~ Settled(comp, t)
  BY <1>3 DEF Settled, Begun
<1> HIDE DEF T
<1>6. /\ comp' \in [Tasks -> CompStates]
      /\ \A t \in T : comp'[t] \in {"ok", "err", "running"}
      /\ \A t \in Tasks \ T : comp'[t] = comp[t]
      /\ channel' \in Seq(GraphEvents)
      /\ ChannelOK(channel', comp', valued \cup delivered)
  BY <1>1, <1>2, <1>4, <1>5, FromInv, ChannelStart
<1>7. Existing' = Existing
  BY <1>2, <1>3, <1>6 DEF Existing
<1>8. Kept(graph', comp', taskNodes')
  <2> SUFFICES ASSUME NEW g \in graph.nodes, NEW t \in graph.tasks[g], Begun(comp', t)
               PROVE  t \in taskNodes'
    BY <1>4 DEF Kept
  <2>1. t \in Tasks
    BY <1>1 DEF Graph
  <2>2. CASE t \in T
    BY <1>4, <2>2 DEF T
  <2>3. CASE t \notin T
    BY <1>4, <1>6, <2>1, <2>3, FromInv DEF Kept, Begun
  <2> QED BY <2>2, <2>3
<1>9. TypeOK'
  <2>1. pump' \in [Streams -> PumpStates]
    BY <1>1, <1>4 DEF StartPumps, PumpStates
  <2>2. phase' \in PhaseStates
    BY <1>4 DEF PhaseStates
  <2>3. taskNodes' \subseteq Tasks
    BY <1>1, <1>2, <1>4
  <2> QED BY <1>4, <1>6, <2>1, <2>2, <2>3 DEF IInv, TypeOK, history
<1>10. valued' \subseteq taskNodes'
  BY <1>4, FromInv
<1> QED BY <1>4, <1>6, <1>7, <1>8, <1>9, <1>10, FromInv, ToInv DEF history

LEMMA HandleTaskFailureInv == ASSUME IInv, NEW t \in Tasks, HandleTaskFailure(t) PROVE IInv'
<1> DEFINE hit  == GroupsOf[t] \cap graph.nodes
           gone == Subtree(graph, hit)
           lost == Orphaned(graph, gone) \cup {t}
<1>1. /\ graph' = Remove(graph, gone)
      /\ rootGroups' = rootGroups \ hit
      /\ taskNodes' = taskNodes \ lost
      /\ valued' = valued \ lost
      /\ childStreams' = [u \in Tasks |-> IF u \in lost THEN {} ELSE childStreams[u]]
      /\ failed' = failed \cup hit
      /\ channel' = Tail(channel)
      /\ UNCHANGED <<rootStreams, asyncVars, stopped, phase,
                     made, announced, succeeded, delivered>>
  BY DEF HandleTaskFailure
<1>2. PICK order \in Orders(hit) :
         batch' = batch \o [i \in DOMAIN order |-> Event("groupFailure", order[i], {}, {}, {})]
  BY DEF HandleTaskFailure
<1>3. /\ graph \in Graph /\ graph.nodes \subseteq Groups
      /\ \A g \in graph.nodes : graph.tasks[g] \subseteq Tasks
  BY DEF IInv, TypeOK, Graph
<1>4. hit \subseteq gone /\ hit \in SUBSET Groups
  BY <1>3 DEF Subtree, Reached
<1>5. /\ Sound(graph', made, Existing, valued, delivered)
      /\ graph'.nodes = graph.nodes \ gone
      /\ \A g \in graph'.nodes : graph'.tasks[g] = graph.tasks[g]
  <2>1. Sound(graph, made, Existing, valued, delivered)
    BY FromInv
  <2> HIDE DEF gone
  <2> QED BY <1>1, <2>1, RemoveSound
<1>6. \A g \in graph'.nodes : \A u \in graph'.tasks[g] : u \notin lost
  <2> SUFFICES ASSUME NEW g \in graph'.nodes, NEW u \in graph'.tasks[g]
               PROVE  u \notin lost
    OBVIOUS
  <2>1. g \in GroupsOf[u] /\ g \in graph.nodes /\ g \notin gone
    BY <1>5 DEF Sound, Entered
  <2>2. u # t
    BY <1>4, <2>1
  <2>3. u \notin Orphaned(graph, gone)
    BY <2>1 DEF Orphaned
  <2> QED BY <2>2, <2>3
<1>7. Counted(graph', valued')
  <2>1. \A g \in graph'.nodes : graph'.tasks[g] \ valued' = graph'.tasks[g] \ valued
    BY <1>1, <1>6
  <2> QED BY <1>5, <2>1 DEF Sound, Counted
<1>8. Sound(graph', made', Existing', valued', delivered')
  <2>1. Existing' = Existing
    BY <1>1 DEF Existing, asyncVars
  <2> QED BY <1>1, <1>5, <1>7, <2>1 DEF Sound
<1>9. /\ channel' \in Seq(GraphEvents)
      /\ ChannelOK(channel', comp', valued' \cup delivered')
  <2>1. Handling("err", t)
    BY DEF HandleTaskFailure
  <2>2. ChannelOK(channel', comp, valued \cup delivered) /\ channel' \in Seq(GraphEvents)
    BY <1>1, <2>1, HandlingTail
  <2>3. UNCHANGED <<comp, delivered>> /\ valued' \cup delivered' \in SUBSET (valued \cup delivered)
    BY <1>1 DEF asyncVars
  <2> HIDE DEF lost
  <2> QED BY <2>2, <2>3, ChannelWeaker
<1>10. Kept(graph', comp', taskNodes')
  <2>1. Kept(graph, comp, taskNodes)
    BY FromInv
  <2> QED BY <1>1, <1>5, <1>6, <2>1 DEF Kept, asyncVars, Begun
<1>11. valued' \subseteq taskNodes'
  BY <1>1, FromInv
<1>12. batch' \in Seq(WorkQueueEvents)
  <2>1. /\ Cardinality(hit) \in Nat /\ DOMAIN order = 1..Cardinality(hit)
        /\ \A i \in DOMAIN order : order[i] \in hit
    BY <1>4, GroupsAreFinite, OrdersAreSequences
  <2>2. \A i \in DOMAIN order : Event("groupFailure", order[i], {}, {}, {}) \in WorkQueueEvents
    BY <1>4, <2>1 DEF Event, WorkQueueEvents, Nodes
  <2> DEFINE more == [i \in DOMAIN order |-> Event("groupFailure", order[i], {}, {}, {})]
             n == Cardinality(hit)
  <2>3. more \in Seq(WorkQueueEvents)
    <3> HIDE DEF hit
    <3>1. more \in [1..n -> WorkQueueEvents]
      BY <2>1, <2>2
    <3> HIDE DEF more
    <3> QED BY <2>1, <3>1
  <2>4. batch \in Seq(WorkQueueEvents)
    BY DEF IInv, TypeOK
  <2> HIDE DEF more
  <2> QED BY <1>2, <2>3, <2>4 DEF more
<1>13. TypeOK'
  <2>1. childStreams' \in [Tasks -> SUBSET Streams]
    BY <1>1 DEF IInv, TypeOK
  <2>2. failed' \subseteq Nodes
    BY <1>1, <1>4 DEF IInv, TypeOK, Nodes
  <2>3. rootGroups' \subseteq Groups /\ taskNodes' \subseteq Tasks /\ valued' \subseteq Tasks
    BY <1>1 DEF IInv, TypeOK
  <2> QED BY <1>1, <1>8, <1>9, <1>12, <2>1, <2>2, <2>3 DEF IInv, TypeOK, Sound, asyncVars
<1>14. \A u \in Existing' : GroupsOf[u] \subseteq made'
  BY <1>1, FromInv DEF Existing, asyncVars
<1> QED BY <1>8, <1>9, <1>10, <1>11, <1>13, <1>14, ToInv

\* New work that is integrated into the graph of the work queue.
LEMMA WorkIsIntegrated ==
  ASSUME IInv, NEW work, work \in RootWork \/ \E t \in Tasks : work \in TaskWork(t)
  PROVE  /\ work \in Work
         /\ Sound(Integrate(graph, work), made \cup work.groups,
                  Existing \cup work.tasks, valued, delivered)
         /\ Kept(Integrate(graph, work), Produced(work), taskNodes)
         /\ \A t \in Existing \cup work.tasks : GroupsOf[t] \subseteq made \cup work.groups
         /\ Existing \cup work.tasks \in SUBSET Tasks
         /\ made \cup work.groups \subseteq Groups
<1>1. /\ work \in Work
      /\ work.groups \cap made = {} /\ work.tasks \cap Existing = {}
      /\ \A t \in work.tasks : GroupsOf[t] \subseteq made \cup work.groups
  BY NewWork
<1>2. /\ Sound(graph, made, Existing, valued, delivered)
      /\ \A t \in Existing : GroupsOf[t] \subseteq made
      /\ Existing \in SUBSET Tasks /\ valued \in SUBSET Existing
      /\ Kept(graph, comp, taskNodes)
      /\ graph \in Graph /\ Bare(graph)
  BY FromInv DEF Sound
<1>3. Sound(Integrate(graph, work), made \cup work.groups,
            Existing \cup work.tasks, valued, delivered)
  BY <1>1, <1>2, IntegrateSound
<1>4. Kept(Integrate(graph, work), Produced(work), taskNodes)
  BY <1>1, <1>2, ProducedIsIdle, IntegrateKept
<1>5. work.tasks \subseteq Tasks /\ work.groups \subseteq Groups /\ made \subseteq Groups
  BY <1>1 DEF IInv, TypeOK, Work
<1> QED BY <1>1, <1>2, <1>3, <1>4, <1>5

\* Starting tasks that have not begun keeps what is begun among the task nodes.
LEMMA StartKept ==
  ASSUME NEW gr \in Graph, NEW c, NEW d, NEW T, NEW nodes, NEW more,
         Kept(gr, c, nodes),
         \A t \in Tasks \ T : d[t] = c[t],
         nodes \cup T \subseteq more
  PROVE  Kept(gr, d, more)
<1> SUFFICES ASSUME NEW g \in gr.nodes, NEW t \in gr.tasks[g], Begun(d, t)
             PROVE  t \in more
  BY DEF Kept
<1>1. t \in Tasks
  BY DEF Graph
<1> QED BY <1>1 DEF Kept, Begun

LEMMA HandleStreamItemsInv == ASSUME IInv, NEW s \in Streams, HandleStreamItems(s) PROVE IInv'
<1>1. PICK work \in RootWork : TakeItems(s, work)
  BY DEF HandleStreamItems
<1> DEFINE gr1      == Integrate(graph, work)
           top      == {g \in work.groups : Parent[g] = NoGroup}
           promoted == Promoted(gr1, top)
           starting == (UNION {gr1.tasks[g] : g \in promoted}) \ taskNodes
           isLast   == queue[s] = "stopped"
           produced == Existing \cup work.tasks
<1>2. /\ graph' = Prune(gr1, top)
      /\ rootGroups' = rootGroups \cup promoted
      /\ rootStreams' = (rootStreams \cup work.streams) \ (IF isLast THEN {s} ELSE {})
      /\ taskNodes' = taskNodes \cup starting
      /\ StartTasks(starting, Produced(work), Tail(channel))
      /\ queue' = [q \in Streams |-> IF q \in work.streams THEN "open" ELSE queue[q]]
      /\ pump' = [StartPumps(work.streams) EXCEPT
                    ![s] = IF @ = "handing" THEN "iterating" ELSE @]
      /\ batch' = batch \o <<Event("streamValues", s, {}, promoted, work.streams)>>
                        \o (IF isLast THEN <<Event("streamSuccess", s, {}, {}, {})>> ELSE <<>>)
      /\ made' = made \cup work.groups
      /\ announced' = announced \cup promoted \cup work.streams
      /\ succeeded' = IF isLast THEN succeeded \cup {s} ELSE succeeded
      /\ UNCHANGED <<valued, childStreams, pumped, stopped, phase, failed, delivered>>
  BY <1>1 DEF TakeItems
<1>3. /\ work \in Work
      /\ Sound(gr1, made \cup work.groups, produced, valued, delivered)
      /\ Kept(gr1, Produced(work), taskNodes)
      /\ \A t \in produced : GroupsOf[t] \subseteq made \cup work.groups
      /\ produced \in SUBSET Tasks
      /\ made \cup work.groups \subseteq Groups
  BY WorkIsIntegrated
<1>4. /\ gr1 \in Graph /\ gr1.nodes \subseteq Groups
      /\ \A g \in gr1.nodes : gr1.tasks[g] \subseteq produced
  BY <1>3 DEF Sound, Entered, Graph
<1>5. promoted \subseteq gr1.nodes
  BY DEF Promoted
<1>6. starting \in SUBSET produced
  BY <1>4, <1>5
<1>7. \A t \in starting : ~ Begun(Produced(work), t)
  <2> HIDE DEF gr1, promoted
  <2> QED BY <1>3, <1>5 DEF Kept
<1>8. /\ Produced(work) \in [Tasks -> CompStates]
      /\ \A t \in Tasks : Produced(work)[t] # "none" <=> t \in produced
      /\ \A t \in Tasks : Settled(comp, t) => Settled(Produced(work), t)
  BY <1>3, NewWork, ProducedIsIdle
<1>9. /\ Tail(channel) \in Seq(GraphEvents)
      /\ ChannelOK(Tail(channel), Produced(work), valued \cup delivered)
  BY <1>8, HandlingTail, ChannelWeaker DEF HandleStreamItems
<1>10. /\ Sound(graph', made', produced, valued', delivered')
       /\ graph'.nodes \subseteq gr1.nodes
       /\ \A g \in graph'.nodes : graph'.tasks[g] = gr1.tasks[g]
  <2> DEFINE R == Empty(gr1, top)
  <2>1. graph' = Remove(gr1, R) /\ UNCHANGED <<valued, delivered>>
    BY <1>2 DEF Prune
  <2> HIDE DEF gr1, produced, R
  <2>2. /\ Sound(Remove(gr1, R), made \cup work.groups, produced, valued, delivered)
        /\ Remove(gr1, R).nodes = gr1.nodes \ R
        /\ \A g \in gr1.nodes \ R : Remove(gr1, R).tasks[g] = gr1.tasks[g]
    BY <1>3, RemoveSound
  <2> QED BY <1>2, <2>1, <2>2
<1>a. /\ stopped \in BOOLEAN /\ rootGroups \subseteq Groups /\ rootStreams \subseteq Streams
      /\ taskNodes \subseteq Tasks /\ batch \in Seq(WorkQueueEvents)
      /\ queue \in [Streams -> QueueStates] /\ pump \in [Streams -> PumpStates]
      /\ announced \subseteq Nodes /\ succeeded \subseteq Nodes
  BY DEF IInv, TypeOK
<1>b. work.streams \subseteq Streams
  BY <1>3 DEF Work
<1> HIDE DEF gr1, top, promoted, starting, produced
<1>11. /\ comp' \in [Tasks -> CompStates]
       /\ \A t \in starting : comp'[t] \in {"ok", "err", "running"}
       /\ \A t \in Tasks \ starting : comp'[t] = Produced(work)[t]
       /\ channel' \in Seq(GraphEvents)
       /\ ChannelOK(channel', comp', valued \cup delivered)
  <2>1. starting \in SUBSET Tasks /\ \A t \in starting : ~ Settled(Produced(work), t)
    BY <1>3, <1>6, <1>7 DEF Settled, Begun
  <2> QED BY <1>2, <1>8, <1>9, <1>a, <2>1, ChannelStart
<1>12. Existing' = produced
  BY <1>3, <1>6, <1>8, <1>11 DEF Existing
<1>13. Kept(graph', comp', taskNodes')
  <2>1. gr1 \in Graph /\ Kept(gr1, Produced(work), taskNodes)
    BY <1>3, <1>4
  <2>2. \A t \in Tasks \ starting : comp'[t] = Produced(work)[t]
    BY <1>11
  <2>3. taskNodes \cup starting \subseteq taskNodes'
    BY <1>2
  <2>4. Kept(gr1, comp', taskNodes')
    BY <2>1, <2>2, <2>3, StartKept
  <2> QED BY <1>10, <2>4 DEF Kept
<1>14. TypeOK'
  <2>1. batch' \in Seq(WorkQueueEvents)
    <3>1. /\ Event("streamValues", s, {}, promoted, work.streams) \in WorkQueueEvents
          /\ Event("streamSuccess", s, {}, {}, {}) \in WorkQueueEvents
      BY <1>4, <1>5, <1>b DEF Event, WorkQueueEvents, Nodes
    <3> HIDE DEF isLast
    <3> QED BY <1>2, <1>a, <3>1
  <2>2. pump' \in [Streams -> PumpStates]
    <3>1. StartPumps(work.streams) \in [Streams -> PumpStates]
      BY <1>a DEF StartPumps, PumpStates
    <3> QED BY <1>2, <3>1 DEF PumpStates
  <2>3. queue' \in [Streams -> QueueStates]
    BY <1>2, <1>a DEF QueueStates
  <2>4. /\ rootGroups' \subseteq Groups /\ rootStreams' \subseteq Streams
        /\ taskNodes' \subseteq Tasks /\ made' \subseteq Groups
        /\ announced' \subseteq Nodes /\ succeeded' \subseteq Nodes
    BY <1>2, <1>3, <1>4, <1>5, <1>6, <1>a, <1>b DEF Nodes
  <2> QED BY <1>2, <1>10, <1>11, <2>1, <2>2, <2>3, <2>4 DEF IInv, TypeOK, Sound
<1>15. valued' \subseteq taskNodes'
  BY <1>2, FromInv
<1> QED BY <1>2, <1>3, <1>10, <1>11, <1>12, <1>13, <1>14, <1>15, ToInv

\* The steps of _task_success(): the graph with the new work in which the success has been
\* counted, the tasks with a node and those with a value then, the groups that are finished,
\* the tasks that are delivered with them, and the graph that remains.
SuccessGraph(t, work) == CountSuccess(Integrate(graph, work), t)
SuccessNodes(t, work) == taskNodes \cup AtOnce(work, SuccessGraph(t, work))
SuccessValued(t) == IF t \in taskNodes THEN valued \cup {t} ELSE valued
SuccessFinished(t, work) == Finished(SuccessGraph(t, work), t)
SuccessDone(t, work) ==
  (UNION {SuccessGraph(t, work).tasks[g] : g \in SuccessFinished(t, work)})
    \cap SuccessNodes(t, work)
SuccessRest(t, work) ==
  Forget(Remove(SuccessGraph(t, work), SuccessFinished(t, work)), SuccessDone(t, work))

\* Both graphs are sound, and a finished group delivers the values of all of its tasks.
LEMMA SuccessGraphs ==
  ASSUME IInv, NEW t \in Tasks, NEW work \in TaskWork(t), Handling("ok", t)
  PROVE  LET groups   == made \cup work.groups
             produced == Existing \cup work.tasks
             gr1      == SuccessGraph(t, work)
             valued1  == SuccessValued(t)
             finished == SuccessFinished(t, work)
             done     == SuccessDone(t, work)
             rest     == SuccessRest(t, work)
         IN  /\ t \in produced /\ Begun(Produced(work), t)
             /\ valued1 \subseteq produced
             /\ AtOnce(work, gr1) \subseteq work.tasks
             /\ Kept(gr1, Produced(work), taskNodes)
             /\ Sound(gr1, groups, produced, valued1, delivered)
             /\ finished \subseteq gr1.nodes
             /\ \A g \in finished : gr1.tasks[g] \subseteq done
             /\ done \subseteq valued1
             /\ Sound(rest, groups, produced, valued1 \ done, delivered \cup done)
             /\ rest.nodes = gr1.nodes \ finished
             /\ \A g \in rest.nodes : rest.tasks[g] = gr1.tasks[g] \ done
<1> DEFINE gr0      == Integrate(graph, work)
           gr1      == CountSuccess(gr0, t)
           atOnce   == AtOnce(work, gr1)
           nodes1   == taskNodes \cup atOnce
           valued1  == SuccessValued(t)
           finished == Finished(gr1, t)
           done     == (UNION {gr1.tasks[g] : g \in finished}) \cap nodes1
           gr2      == Forget(Remove(gr1, finished), done)
           produced == Existing \cup work.tasks
           groups   == made \cup work.groups
<1>3. /\ work \in Work
      /\ Sound(gr0, groups, produced, valued, delivered)
      /\ Kept(gr0, Produced(work), taskNodes)
      /\ \A u \in produced : GroupsOf[u] \subseteq groups
      /\ produced \in SUBSET Tasks
      /\ groups \subseteq Groups
  BY WorkIsIntegrated
<1>4. /\ Produced(work) \in [Tasks -> CompStates]
      /\ \A u \in Tasks : Produced(work)[u] # "none" <=> u \in produced
      /\ \A u \in work.tasks : ~ Begun(Produced(work), u)
      /\ \A u \in Tasks : Settled(comp, u) => Settled(Produced(work), u)
      /\ work.tasks \subseteq Tasks /\ work.streams \subseteq Streams
  BY <1>3, NewWork, ProducedIsIdle DEF Work
<1>5. /\ Tail(channel) \in Seq(GraphEvents)
      /\ Settled(comp, t) /\ t \notin valued \cup delivered
      /\ ChannelOK(Tail(channel), comp, valued \cup delivered \cup {t})
  BY HandlingTail
<1>6. t \in produced /\ Begun(Produced(work), t)
  BY <1>4, <1>5 DEF Settled, Begun
<1>7. /\ valued \subseteq taskNodes /\ valued \in SUBSET produced
      /\ taskNodes \subseteq Tasks
  BY FromInv DEF IInv, TypeOK
<1>8. gr0 \in Graph /\ gr1.nodes = gr0.nodes /\ gr1.tasks = gr0.tasks
  <2>1. gr0 \in Graph
    BY <1>3 DEF Sound
  <2> HIDE DEF gr0
  <2> QED BY <2>1 DEF CountSuccess, Graph
<1>9. Sound(gr1, groups, produced, valued1, delivered)
  <2> HIDE DEF gr0, groups, produced
  <2>1. CASE t \in taskNodes
    BY <1>3, <1>5, <1>6, <1>7, <2>1, CountSuccessSound DEF SuccessValued
  <2>2. CASE t \notin taskNodes
    <3>1. GroupsOf[t] \cap gr0.nodes = {}
      BY <1>3, <1>5, <1>6, <2>2 DEF Sound, Entered, Kept
    <3>2. gr1 = gr0
      BY <1>8, <3>1, CountNothing
    <3> QED BY <1>3, <2>2, <3>2 DEF SuccessValued
  <2> QED BY <2>1, <2>2
<1>10. /\ gr1 \in Graph /\ gr1.nodes \subseteq Groups
       /\ \A g \in gr1.nodes : gr1.tasks[g] \subseteq produced
       /\ Kept(gr1, Produced(work), taskNodes)
  <2> HIDE DEF gr0, gr1, produced, groups
  <2> QED BY <1>3, <1>8, <1>9 DEF Sound, Entered, Graph, Kept
<1>11. finished \subseteq gr1.nodes /\ \A g \in finished : gr1.tasks[g] \subseteq valued1
  <2> HIDE DEF gr1, valued1
  <2>1. finished \subseteq gr1.nodes /\ \A g \in finished : gr1.pending[g] = 0
    BY DEF Finished
  <2>2. ASSUME NEW g \in finished PROVE gr1.tasks[g] \subseteq valued1
    <3>1. Cardinality(gr1.tasks[g] \ valued1) = 0
      BY <1>9, <2>1 DEF Sound, Counted
    <3>2. IsFiniteSet(gr1.tasks[g] \ valued1)
      BY <1>3, <1>10, <2>1, TasksAreFinite
    <3>3. gr1.tasks[g] \ valued1 = {}
      BY <3>1, <3>2, FS_EmptySet
    <3> QED BY <3>3
  <2> QED BY <2>1, <2>2
<1>12. done \subseteq valued1 /\ atOnce \subseteq work.tasks /\ valued1 \subseteq produced
  BY <1>6, <1>7, <1>11 DEF AtOnce, SuccessValued
<1>13. /\ Sound(gr2, groups, produced, valued1 \ done, delivered \cup done)
       /\ gr2.nodes = gr1.nodes \ finished
       /\ \A g \in gr2.nodes : gr2.tasks[g] = gr1.tasks[g] \ done
  <2> DEFINE mid == Remove(gr1, finished)
  <2> HIDE DEF gr1, finished, done, valued1, groups, produced
  <2>1. /\ Sound(mid, groups, produced, valued1, delivered)
        /\ mid.nodes = gr1.nodes \ finished
        /\ \A g \in gr1.nodes \ finished : mid.tasks[g] = gr1.tasks[g]
    BY <1>9, RemoveSound
  <2> HIDE DEF mid
  <2>2. /\ Sound(Forget(mid, done), groups, produced, valued1 \ done, delivered \cup done)
        /\ Forget(mid, done).nodes = mid.nodes
        /\ \A g \in mid.nodes : Forget(mid, done).tasks[g] = mid.tasks[g] \ done
    <3>1. produced \in SUBSET Tasks /\ done \subseteq valued1
      BY <1>3, <1>12
    <3>2. Sound(mid, groups, produced, valued1, delivered)
      BY <2>1
    <3> QED BY <3>1, <3>2, ForgetSound
  <2>3. gr2 = Forget(mid, done)
    BY DEF mid
  <2> QED BY <2>1, <2>2, <2>3
<1>14. \A g \in finished : gr1.tasks[g] \subseteq done
  <2> HIDE DEF gr1, finished, valued1
  <2>1. valued1 \subseteq nodes1
    BY <1>7, <1>5 DEF valued1, SuccessValued
  <2> QED BY <1>11, <2>1
<1> HIDE DEF gr0, produced, groups, valued1
<1> QED BY <1>6, <1>9, <1>10, <1>11, <1>12, <1>13, <1>14
        DEF SuccessGraph, SuccessNodes, SuccessFinished, SuccessDone, SuccessRest, valued1,
            produced, groups, gr0

LEMMA HandleTaskSuccessInv == ASSUME IInv, NEW t \in Tasks, HandleTaskSuccess(t) PROVE IInv'
<1>1. PICK work \in TaskWork(t) : Succeed(t, work)
  BY DEF HandleTaskSuccess
<1> DEFINE gr1      == SuccessGraph(t, work)
           atOnce   == AtOnce(work, gr1)
           nodes1   == SuccessNodes(t, work)
           valued1  == SuccessValued(t)
           streams1 == [u \in Tasks |-> IF u = t /\ t \in taskNodes
                                       THEN childStreams[u] \cup work.streams
                                       ELSE childStreams[u]]
           finished == SuccessFinished(t, work)
           done     == SuccessDone(t, work)
           below    == UNION {gr1.children[g] : g \in finished}
           gr2      == SuccessRest(t, work)
           promoted == Promoted(gr2, below)
           opened   == UNION {streams1[u] : u \in done}
           starting == atOnce \cup ((UNION {gr2.tasks[g] : g \in promoted}) \ (nodes1 \ done))
           produced == Existing \cup work.tasks
           groups   == made \cup work.groups
<1>2. /\ graph' = Prune(gr2, below)
      /\ rootGroups' = (rootGroups \ finished) \cup promoted
      /\ rootStreams' = rootStreams \cup opened
      /\ taskNodes' = (nodes1 \ done) \cup starting
      /\ valued' = valued1 \ done
      /\ childStreams' = [u \in Tasks |-> IF u \in done THEN {} ELSE streams1[u]]
      /\ StartTasks(starting, Produced(work), Tail(channel))
      /\ phase' = IF Crashes(starting) THEN "crashed" ELSE "draining"
      /\ queue' = [s \in Streams |-> IF s \in work.streams THEN "open" ELSE queue[s]]
      /\ pump' = StartPumps(opened)
      /\ \E order \in Orders(finished) :
            batch' = batch \o FinishEvents(gr1, order, nodes1, valued1, streams1)
      /\ made' = groups
      /\ announced' = announced \cup promoted \cup opened
      /\ succeeded' = succeeded \cup finished
      /\ delivered' = delivered \cup (done \cap valued1)
      /\ UNCHANGED <<pumped, stopped, failed>>
  BY <1>1 DEF Succeed, SuccessGraph, SuccessNodes, SuccessValued, SuccessFinished, SuccessDone,
               SuccessRest
<1>3. /\ work \in Work
      /\ \A u \in produced : GroupsOf[u] \subseteq groups
      /\ produced \in SUBSET Tasks
      /\ groups \subseteq Groups
  BY WorkIsIntegrated
<1>4. /\ Produced(work) \in [Tasks -> CompStates]
      /\ \A u \in Tasks : Produced(work)[u] # "none" <=> u \in produced
      /\ \A u \in work.tasks : ~ Begun(Produced(work), u)
      /\ \A u \in Tasks : Settled(comp, u) => Settled(Produced(work), u)
      /\ work.tasks \subseteq Tasks /\ work.streams \subseteq Streams
  BY <1>3, NewWork, ProducedIsIdle DEF Work
<1>5. /\ Tail(channel) \in Seq(GraphEvents)
      /\ Settled(comp, t) /\ t \notin valued \cup delivered
      /\ ChannelOK(Tail(channel), comp, valued \cup delivered \cup {t})
  BY HandlingTail DEF HandleTaskSuccess
<1>7. /\ valued \subseteq taskNodes /\ valued \in SUBSET produced
      /\ taskNodes \subseteq Tasks /\ stopped \in BOOLEAN
      /\ rootGroups \subseteq Groups /\ rootStreams \subseteq Streams
      /\ childStreams \in [Tasks -> SUBSET Streams] /\ batch \in Seq(WorkQueueEvents)
      /\ queue \in [Streams -> QueueStates] /\ pump \in [Streams -> PumpStates]
      /\ announced \subseteq Nodes /\ succeeded \subseteq Nodes /\ delivered \subseteq Tasks
  BY FromInv DEF IInv, TypeOK
<1>8. /\ t \in produced /\ Begun(Produced(work), t)
      /\ Sound(gr1, groups, produced, valued1, delivered)
      /\ Kept(gr1, Produced(work), taskNodes)
      /\ finished \subseteq gr1.nodes
      /\ done \subseteq valued1 /\ atOnce \subseteq work.tasks /\ valued1 \subseteq produced
  BY SuccessGraphs DEF HandleTaskSuccess
<1>9. /\ Sound(gr2, groups, produced, valued1 \ done, delivered \cup done)
      /\ gr2.nodes = gr1.nodes \ finished
      /\ \A g \in gr2.nodes : gr2.tasks[g] = gr1.tasks[g] \ done
  BY SuccessGraphs DEF HandleTaskSuccess
<1>c. /\ nodes1 = taskNodes \cup atOnce
      /\ valued1 \subseteq valued \cup {t} /\ valued1 \subseteq nodes1
  BY <1>7 DEF SuccessNodes, SuccessValued
<1>10. /\ gr1 \in Graph /\ gr1.nodes \subseteq Groups
       /\ \A g \in gr1.nodes : gr1.tasks[g] \subseteq produced
  <2> HIDE DEF gr1, produced, groups, valued1
  <2> QED BY <1>8 DEF Sound, Entered, Graph
<1>14. delivered' = delivered \cup done /\ valued' = valued1 \ done
  BY <1>2, <1>8
<1>15. /\ Sound(graph', made', produced, valued', delivered')
       /\ graph'.nodes \subseteq gr2.nodes
       /\ \A g \in graph'.nodes : graph'.tasks[g] = gr2.tasks[g]
  <2> DEFINE R == Empty(gr2, below)
  <2>1. graph' = Remove(gr2, R) /\ made' = groups
    BY <1>2 DEF Prune
  <2> HIDE DEF gr2, R, groups, produced, done, valued1
  <2>2. /\ Sound(Remove(gr2, R), groups, produced, valued1 \ done, delivered \cup done)
        /\ Remove(gr2, R).nodes = gr2.nodes \ R
        /\ \A g \in gr2.nodes \ R : Remove(gr2, R).tasks[g] = gr2.tasks[g]
    BY <1>9, RemoveSound
  <2> QED BY <1>14, <2>1, <2>2
<1>16. promoted \subseteq gr2.nodes /\ gr2 \in Graph
  <2>1. gr2 \in Graph
    <3> HIDE DEF gr2
    <3> QED BY <1>9 DEF Sound
  <2> HIDE DEF gr2
  <2> QED BY <2>1 DEF Promoted
<1>17. /\ starting \in SUBSET produced
       /\ \A u \in starting : ~ Begun(Produced(work), u)
  <2> SUFFICES ASSUME NEW u \in starting
               PROVE  u \in produced /\ ~ Begun(Produced(work), u)
    OBVIOUS
  <2>1. CASE u \in atOnce
    BY <1>4, <1>8, <2>1
  <2>2. CASE u \notin atOnce
    <3>1. PICK g \in promoted : u \in gr2.tasks[g] /\ u \notin nodes1 \ done
      BY <2>2
    <3>2. g \in gr1.nodes /\ u \in gr1.tasks[g] /\ u \notin taskNodes
      <4> HIDE DEF gr1, gr2, promoted, done, nodes1
      <4> QED BY <1>9, <1>16, <1>c, <3>1
    <3> HIDE DEF gr1, produced
    <3> QED BY <1>8, <1>10, <3>2 DEF Kept
  <2> QED BY <2>1, <2>2
<1>18. ChannelOK(Tail(channel), Produced(work), valued' \cup delivered')
  <2>1. valued' \cup delivered' \in SUBSET (valued \cup delivered \cup {t})
    <3> HIDE DEF done, valued1
    <3> QED BY <1>8, <1>14, <1>c
  <2> QED BY <1>4, <1>5, <2>1, ChannelWeaker
<1>19. opened \subseteq Streams /\ streams1 \in [Tasks -> SUBSET Streams]
  <2>1. streams1 \in [Tasks -> SUBSET Streams]
    BY <1>4, <1>7
  <2>2. done \subseteq Tasks
    <3> HIDE DEF done, produced, valued1
    <3> QED BY <1>3, <1>8
  <2> HIDE DEF streams1, done
  <2> QED BY <2>1, <2>2
<1>20. nodes1 \subseteq Tasks /\ valued1 \subseteq nodes1
  BY <1>4, <1>7, <1>8, <1>c
<1> HIDE DEF gr1, atOnce, nodes1, valued1, streams1, finished, done, below, gr2,
             promoted, opened, starting, produced, groups
<1>21. /\ comp' \in [Tasks -> CompStates]
       /\ \A u \in starting : comp'[u] \in {"ok", "err", "running"}
       /\ \A u \in Tasks \ starting : comp'[u] = Produced(work)[u]
       /\ channel' \in Seq(GraphEvents)
       /\ ChannelOK(channel', comp', valued' \cup delivered')
  <2>1. starting \in SUBSET Tasks /\ \A u \in starting : ~ Settled(Produced(work), u)
    BY <1>3, <1>17 DEF Settled, Begun
  <2> QED BY <1>2, <1>4, <1>5, <1>7, <1>18, <2>1, ChannelStart
<1>22. Existing' = produced
  BY <1>3, <1>4, <1>17, <1>21 DEF Existing
<1>23. Kept(graph', comp', taskNodes')
  <2>1. Kept(gr2, Produced(work), nodes1 \ done)
    BY <1>8, <1>9, <1>c DEF Kept
  <2>2. Kept(gr2, comp', taskNodes')
    <3> DEFINE old == nodes1 \ done
    <3>1. old \cup starting \subseteq taskNodes' /\ gr2 \in Graph
      BY <1>2, <1>16
    <3>2. Kept(gr2, Produced(work), old)
      BY <2>1
    <3> HIDE DEF old
    <3> QED BY <1>21, <3>1, <3>2, StartKept
  <2> QED BY <1>15, <2>2 DEF Kept
<1>24. TypeOK'
  <2>1. batch' \in Seq(WorkQueueEvents)
    <3>1. PICK order \in Orders(finished) :
             batch' = batch \o FinishEvents(gr1, order, nodes1, valued1, streams1)
      BY <1>2
    <3>2. FinishEvents(gr1, order, nodes1, valued1, streams1) \in Seq(WorkQueueEvents)
      BY <1>10, <1>8, <1>19, <1>20, FinishTyped
    <3> QED BY <1>7, <3>1, <3>2
  <2>2. pump' \in [Streams -> PumpStates]
    BY <1>2, <1>7 DEF StartPumps, PumpStates
  <2>3. queue' \in [Streams -> QueueStates]
    BY <1>2, <1>7 DEF QueueStates
  <2>4. phase' \in PhaseStates
    BY <1>2 DEF PhaseStates
  <2>5. childStreams' \in [Tasks -> SUBSET Streams]
    BY <1>2, <1>19
  <2>6. promoted \subseteq Groups /\ finished \subseteq Groups
    BY <1>10, <1>8, <1>9, <1>16
  <2>7. /\ rootGroups' \subseteq Groups /\ rootStreams' \subseteq Streams
        /\ taskNodes' \subseteq Tasks /\ valued' \subseteq Tasks /\ delivered' \subseteq Tasks
        /\ made' \subseteq Groups /\ announced' \subseteq Nodes /\ succeeded' \subseteq Nodes
    BY <1>2, <1>3, <1>7, <1>8, <1>17, <1>19, <1>20, <2>6 DEF Nodes
  <2>8. graph' \in Graph
    BY <1>15 DEF Sound
  <2> QED BY <1>2, <1>21, <2>1, <2>2, <2>3, <2>4, <2>5, <2>7, <2>8 DEF IInv, TypeOK
<1>25. valued' \subseteq taskNodes'
  BY <1>2, <1>20
<1>26. \A u \in Existing' : GroupsOf[u] \subseteq made'
  BY <1>2, <1>3, <1>22
<1> QED BY <1>15, <1>21, <1>22, <1>23, <1>24, <1>25, <1>26, ToInv

LEMMA NextInv == ASSUME IInv, [Next]_vars PROVE IInv'
<1>1. CASE UNCHANGED vars
  <2>1. UNCHANGED <<graph, valued, made, delivered, taskNodes, comp, channel>> /\ TypeOK'
    BY <1>1 DEF vars, graphVars, asyncVars, loopVars, history, IInv, TypeOK
  <2> QED BY <2>1, FromInv, QuietStep
<1>2. CASE Cancel
  BY <1>2, CancelInv DEF Cancel, PhaseStates
<1>3. CASE StartEvents
  BY <1>3, StartEventsInv
<1>4. CASE Wake \/ EndBatch \/ Resume
  BY <1>4, LoopInv
<1>5. CASE HandleGraphEvent
  BY <1>5, HandleTaskSuccessInv, HandleTaskFailureInv, HandleStreamItemsInv, SkipInv
     DEF HandleGraphEvent
<1>6. ASSUME NEW t \in Tasks, PrimeEarly(t) \/ SettleTask(t) PROVE IInv'
  BY <1>6, PrimeEarlyInv, SettleTaskInv
<1>7. ASSUME NEW s \in Streams,
             PumpItems(s) \/ PumpSuccess(s) \/ PumpFailure(s) \/ PumpCancelled(s)
      PROVE  IInv'
  BY <1>7, PumpInv
<1> QED BY <1>1, <1>2, <1>3, <1>4, <1>5, <1>6, <1>7 DEF Next, Deliver

-----------------------------------------------------------------------------
(* The theorems.                                                            *)

\* The invariant holds in every reachable state of the work queue.
THEOREM Invariance == Spec => []IInv
<1>1. Init => IInv
  BY InitInv
<1>2. IInv /\ [Next]_vars => IInv'
  BY NextInv
<1> QED BY <1>1, <1>2, PTL DEF Spec

\* The state of the queue is well-typed; in particular no counter of a group gets
\* negative (_task_success() only counts tasks that _add_task() has counted).
THEOREM TypeCorrect == Spec => []TypeOK
<1>1. IInv => TypeOK
  BY DEF IInv
<1> QED BY <1>1, Invariance, PTL

\* Groups, tasks, task nodes and the channel agree at all times, whatever is shared
\* between groups, added late, finished, failed or cancelled.
THEOREM GraphIsConsistentHolds == Spec => []GraphIsConsistent
<1>1. IInv => GraphIsConsistent
  BY DEF IInv
<1> QED BY <1>1, Invariance, PTL

\* _GroupNode.pending counts exactly the tasks of the group that have not succeeded
\* yet: no group is delivered too early, and none waits for a task that is done.
THEOREM PendingIsExactHolds == Spec => []PendingIsExact
<1>1. IInv => PendingIsExact
  BY DEF IInv, GraphIsConsistent
<1> QED BY <1>1, Invariance, PTL
=============================================================================
