----------------------------- MODULE WorkQueue -----------------------------
(***************************************************************************)
(* The dependency-graph scheduler of incremental delivery                  *)
(* (execution/incremental/work_queue.py).                                  *)
(*                                                                         *)
(* A task belongs to one or more groups; a group is delivered when all of  *)
(* its tasks have succeeded, and fails as soon as one of them fails.       *)
(* Groups form a forest; only root groups are announced to the consumer,   *)
(* and the children of a group become roots when it is finished.           *)
(*                                                                         *)
(* Everything runs on one event loop: a handler of graph events runs to    *)
(* its end without being interrupted, and while the consumer drains the    *)
(* channel (phase = "draining") no other coroutine makes a step.  Between  *)
(* two batches the tasks, the pumps of the streams, the consumer and a     *)
(* canceller interleave freely.                                            *)
(*                                                                         *)
(* The dictionaries of the code are insertion ordered; here they are sets, *)
(* and where the code iterates over one the order is chosen freely.        *)
(***************************************************************************)
EXTENDS Integers, Sequences, FiniteSets

CONSTANTS Groups, Tasks, Streams,
          NoGroup,       \* the parent of a group without a parent
          Parent,        \* Group.parent: [Groups -> Groups \cup {NoGroup}]
          GroupsOf,      \* WorkTask.groups: [Tasks -> SUBSET Groups]
          Early,         \* enable_early_execution
          MaxBatches     \* bound: how many batches a stream delivers at most

\* The proper ancestors of a group: what is in every set that contains its parent
\* and, with a group, the parent of that group.
Ancestors ==
  [g \in Groups |->
     {a \in Groups : \A S \in SUBSET Groups :
        /\ Parent[g] \in Groups => Parent[g] \in S
        /\ \A h \in S : Parent[h] \in Groups => Parent[h] \in S
        => a \in S}]

Nodes == Groups \cup Streams     \* what can be announced to the consumer

ASSUME ShapeAssumption ==
    /\ Parent \in [Groups -> Groups \cup {NoGroup}]
    /\ GroupsOf \in [Tasks -> SUBSET Groups]
    /\ Early \in BOOLEAN
    /\ MaxBatches \in Nat

ASSUME DisjointAssumption ==
    /\ Groups \cap Streams = {}
    /\ Tasks \cap (Groups \cup Streams) = {}
    /\ NoGroup \notin Groups \cup Streams \cup Tasks

ASSUME FinitenessAssumption == IsFiniteSet(Groups) /\ IsFiniteSet(Tasks)

\* The parents form a forest, as a delivery group is created after its parent: proved in
\* DeferralProofs of what the executors produce, like the next one.
ASSUME ForestAssumption == \A g \in Groups : g \notin Ancestors[g]

\* get_filtered_defer_usage_set() removes every defer usage that has an ancestor
\* in the set: the groups of a task are never nested in each other.
ASSUME AntichainAssumption ==
    \A t \in Tasks : /\ GroupsOf[t] # {}
                     /\ \A g, h \in GroupsOf[t] : g \notin Ancestors[h]

VARIABLES
  graph,        \* _group_nodes: which groups have a node, and what it holds
  rootGroups,   \* _root_groups
  rootStreams,  \* _root_streams
  taskNodes,    \* the keys of _task_nodes: started and not yet removed tasks
  valued,       \* the tasks whose _TaskNode.value is set
  childStreams, \* _TaskNode.child_streams
  comp,         \* the computation of each task
  queue,        \* the stream item queue of each stream
  pump,         \* the pump task of each stream
  pumped,       \* how many batches each pump has pushed
  channel,      \* _channel: the graph events to be handled
  stopped,      \* _stopped
  phase,        \* where the consumer is in events()
  batch,        \* work_queue_events: the batch under construction, or yielded
  made,         \* the groups the execution has produced so far
  announced,    \* history: the groups and streams announced to the consumer
  succeeded,    \* history: those reported as completed
  failed,       \* history: those reported as failed
  delivered     \* history: the tasks whose value has been reported

graphVars  == <<graph, rootGroups, rootStreams, taskNodes, valued, childStreams>>
asyncVars  == <<comp, queue, pump, pumped>>
loopVars   == <<channel, stopped, phase, batch>>
history    == <<made, announced, succeeded, failed, delivered>>
vars       == <<graphVars, asyncVars, loopVars, history>>

CompStates  == {"none",      \* not produced yet
                "idle",      \* produced, not primed
                "early",     \* primed ahead of its start, still pending
                "earlyOk", "earlyErr",   \* settled ahead of its start
                "running",   \* started, settle_task() will report its outcome
                "ok", "err", \* started, and its outcome has been pushed
                "aborted"}
QueueStates == {"none", "open", "stopped", "aborted"}
PumpStates  == {"off", "iterating", "handing", "done",
                "cancelled"}  \* a CancelledError left it: no event is pushed
PhaseStates == {"new",       \* events() has not been iterated yet
                "parked",    \* at `await channel.get()'
                "draining",  \* handling graph events, synchronously
                "yielded",   \* at `yield work_queue_events'
                "ended",     \* events() has returned
                "crashed",   \* a CancelledError left events()
                "closed"}    \* the consumer has been cancelled or closed

Graph == [nodes    : SUBSET Groups,
          children : [Groups -> SUBSET Groups],
          tasks    : [Groups -> SUBSET Tasks],
          pending  : [Groups -> Nat]]

\* Graph events, and the events reported to the consumer.  A "groupSuccess" carries
\* the values of the GroupValuesEvent that the code reports just before it.
GraphEvents == [kind : {"ok", "err"}, node : Tasks]
         \cup [kind : {"items", "end", "fail"}, node : Streams]
         \cup [kind : {"stop"}, node : {NoGroup}]

TaskOk(t)      == [kind |-> "ok", node |-> t]
TaskErr(t)     == [kind |-> "err", node |-> t]
StreamItems(s) == [kind |-> "items", node |-> s]
StreamEnd(s)   == [kind |-> "end", node |-> s]
StreamFail(s)  == [kind |-> "fail", node |-> s]
STOP           == [kind |-> "stop", node |-> NoGroup]

WorkQueueEvents ==
  [kind : {"groupSuccess", "groupFailure", "streamValues",
           "streamSuccess", "streamFailure", "termination"},
   node : Nodes \cup {NoGroup}, values : SUBSET Tasks,
   newGroups : SUBSET Groups, newStreams : SUBSET Streams]

Event(kind, node, values, newGroups, newStreams) ==
  [kind |-> kind, node |-> node, values |-> values,
   newGroups |-> newGroups, newStreams |-> newStreams]

-----------------------------------------------------------------------------
(* The work graph.  Every operator takes a graph and returns the graph that *)
(* the method of the same purpose leaves behind.                            *)

EmptyGraph == [nodes    |-> {},
               children |-> [g \in Groups |-> {}],
               tasks    |-> [g \in Groups |-> {}],
               pending  |-> [g \in Groups |-> 0]]

\* The tasks of a set that belong to a group.
TasksOf(T, g) == {t \in T : g \in GroupsOf[t]}

\* Mutant: adding work resets the counter of a group.
IntegrateResetting(gr, work) ==
  LET nodes == gr.nodes \cup work.groups IN
  [nodes    |-> nodes,
   children |-> [g \in Groups |->
                   IF g \in nodes
                   THEN gr.children[g] \cup {c \in work.groups : Parent[c] = g}
                   ELSE {}],
   tasks    |-> [g \in Groups |->
                   IF g \in nodes
                   THEN gr.tasks[g] \cup TasksOf(work.tasks, g) ELSE {}],
   pending  |-> [g \in Groups |->
                   IF g \in nodes THEN Cardinality(TasksOf(work.tasks, g)) ELSE 0]]

\* _add_groups() and _add_task(): a new group gets a node, and is linked to its
\* parent if that has one; a new task is entered in each of its groups that has a
\* node, and counted there.
Integrate(gr, work) ==
  LET nodes == gr.nodes \cup work.groups IN
  [nodes    |-> nodes,
   children |-> [g \in Groups |->
                   IF g \in nodes
                   THEN gr.children[g] \cup {c \in work.groups : Parent[c] = g}
                   ELSE {}],
   tasks    |-> [g \in Groups |->
                   IF g \in nodes
                   THEN gr.tasks[g] \cup TasksOf(work.tasks, g) ELSE {}],
   pending  |-> [g \in Groups |->
                   IF g \in nodes
                   THEN gr.pending[g] + Cardinality(TasksOf(work.tasks, g))
                   ELSE 0]]

\* `del group_nodes[group]' for each group of R.
Remove(gr, R) ==
  [nodes    |-> gr.nodes \ R,
   children |-> [g \in Groups |-> IF g \in R THEN {} ELSE gr.children[g]],
   tasks    |-> [g \in Groups |-> IF g \in R THEN {} ELSE gr.tasks[g]],
   pending  |-> [g \in Groups |-> IF g \in R THEN 0 ELSE gr.pending[g]]]

\* Mutant: the success is counted in removed groups, too.
CountSuccessAlways(gr, t) ==
  [gr EXCEPT !.pending = [g \in Groups |->
     IF g \in GroupsOf[t] THEN gr.pending[g] - 1 ELSE gr.pending[g]]]

\* `group_node.pending -= 1' for each group of a task that still has a node.
CountSuccess(gr, t) ==
  [gr EXCEPT !.pending = [g \in Groups |->
     IF g \in GroupsOf[t] \cap gr.nodes THEN gr.pending[g] - 1 ELSE gr.pending[g]]]

\* _remove_task() for each task of T: they leave all groups.
Forget(gr, T) ==
  [gr EXCEPT !.tasks = [g \in Groups |-> gr.tasks[g] \ T]]

\* The groups a recursion over child_groups reaches from the groups S while it
\* only enters groups of U.
Reached(gr, U, S) ==
  {h \in U : \A R \in SUBSET U :
     /\ S \cap U \subseteq R
     /\ \A r \in R : gr.children[r] \cap U \subseteq R
     => h \in R}

\* _prune_empty_groups(): from the given groups on, groups without pending tasks
\* are removed, and the first groups below them that have some are promoted.
Empty(gr, S) == Reached(gr, {g \in gr.nodes : gr.pending[g] = 0}, S)
Prune(gr, S) == Remove(gr, Empty(gr, S))

\* Mutant: what is below a removed empty group is not looked at.
PromotedFlat(gr, S) == {g \in gr.nodes \cap S : gr.pending[g] # 0}

\* Mutant: the search for groups to promote does not stop at a non-empty one.
PromotedDeep(gr, S) == {g \in Reached(gr, gr.nodes, S) : gr.pending[g] # 0}

Promoted(gr, S) ==
  LET below == S \cup UNION {gr.children[e] : e \in Empty(gr, S)} IN
  {g \in gr.nodes \cap below : gr.pending[g] # 0}

\* _remove_group(): the groups that go with the groups S, and the tasks that are
\* left without any group.
Subtree(gr, S) == Reached(gr, gr.nodes, S)

\* Mutant: a task goes with the first of its groups that fails.
OrphanedEarly(gr, R) == UNION {gr.tasks[r] : r \in R}

Orphaned(gr, R) ==
  {t \in UNION {gr.tasks[r] : r \in R} : GroupsOf[t] \cap (gr.nodes \ R) = {}}

-----------------------------------------------------------------------------
(* The work the execution may hand over.                                    *)

Work == [groups : SUBSET Groups, tasks : SUBSET Tasks, streams : SUBSET Streams]

\* What has not been produced yet.
NewTasks   == {t \in Tasks : comp[t] = "none"}
NewStreams == {s \in Streams : queue[s] = "none"}

\* New work whose groups hang below the groups of scope, and whose tasks belong
\* to the new groups or to those of the scope.
WorkIn(scope, newGroups, newTasks, newStreams) ==
  {w \in [groups : SUBSET newGroups, tasks : SUBSET newTasks,
          streams : SUBSET newStreams] :
     /\ \A g \in w.groups : Parent[g] \in w.groups \cup scope
     /\ \A t \in w.tasks : GroupsOf[t] \subseteq w.groups \cup scope}

\* The initial result and the items of a stream are executed outside of any
\* deferred fragment.
RootWork == WorkIn({NoGroup}, Groups \ made, NewTasks, NewStreams)

\* An execution group is executed within its groups: it meets their fragments
\* and those nested in them.
TaskWork(t) ==
  WorkIn({g \in made : g \in GroupsOf[t] \/ GroupsOf[t] \cap Ancestors[g] # {}},
         Groups \ made, NewTasks, NewStreams)

-----------------------------------------------------------------------------
(* Starting tasks and streams.                                              *)

\* What result() may answer for a computation when its task is started: its outcome,
\* or a future ("running").
Answers(c) == CASE c = "idle"    -> {"ok", "err", "running"}
                [] c = "early"   -> {"running"}
                [] c = "earlyOk" -> {"ok"}
                [] OTHER         -> {"err"}

\* The sequences that hold every member of a finite set once.
Orders(S) == {f \in [1..Cardinality(S) -> S] :
                /\ \A i, j \in DOMAIN f : f[i] = f[j] => i = j
                /\ \A x \in S : \E i \in DOMAIN f : f[i] = x}

\* _start_task() for each task of T that has not been started yet, where c are the
\* computations and ch the channel before: the outcome of a settled computation is
\* pushed at once (_push() drops it when the queue has been stopped).
StartTasks(T, c, ch) ==
  \E answer \in [T -> {"ok", "err", "running"}] :
    /\ \A t \in T : answer[t] \in Answers(c[t])
    /\ comp' = [t \in Tasks |-> IF t \in T THEN answer[t] ELSE c[t]]
    /\ \E order \in Orders({t \in T : answer[t] # "running"}) :
         channel' = IF stopped THEN ch
                    ELSE ch \o [i \in DOMAIN order |->
                                 [kind |-> answer[order[i]], node |-> order[i]]]

\* Requesting the result of a computation that was aborted without a reason raises
\* a CancelledError, which _start_task() does not catch: it leaves events().
Crashes(T) == \E t \in T : comp[t] = "aborted"

\* The computations once the tasks of a work have been produced.
Produced(work) ==
  [t \in Tasks |-> IF t \in work.tasks THEN "idle" ELSE comp[t]]

\* _start_stream() for each stream of S: its pump begins to consume the queue.
StartPumps(S) == [s \in Streams |-> IF s \in S THEN "iterating" ELSE pump[s]]

-----------------------------------------------------------------------------
(* Handling graph events: one action per handler, each of which takes the   *)
(* first event of the channel and adds its events to the batch.             *)

Handling(kind, node) == /\ phase = "draining"
                        /\ channel # <<>>
                        /\ Head(channel) = [kind |-> kind, node |-> node]

\* Mutant: every group reports all of its tasks.
FinishEventsEach(gr, order, nodes, hasValue, streams) ==
  LET rest == Remove(gr, {order[i] : i \in DOMAIN order})
      own(i) == gr.tasks[order[i]] \cap nodes
  IN [i \in DOMAIN order |->
        Event("groupSuccess", order[i], own(i) \cap hasValue,
              Promoted(rest, gr.children[order[i]]),
              UNION {streams[t] : t \in own(i)})]

\* _finish_group_success() for the groups of `order', one after the other, in the
\* graph gr where their tasks have all succeeded (nodes are the started tasks): the
\* first group to hold a task reports its value and takes over its streams.
FinishEvents(gr, order, nodes, hasValue, streams) ==
  LET rest == Remove(gr, {order[i] : i \in DOMAIN order})
      own(i) == {t \in gr.tasks[order[i]] \cap nodes :
                   \A j \in 1..(i - 1) : t \notin gr.tasks[order[j]]}
  IN [i \in DOMAIN order |->
        Event("groupSuccess", order[i], own(i) \cap hasValue,
              Promoted(rest, gr.children[order[i]]),
              UNION {streams[t] : t \in own(i)})]

\* Mutant: a new task waits for the start of its group, which is over.
NoneAtOnce(work, gr) == {}

\* _add_task() starts the new tasks of a group that is a root already.
AtOnce(work, gr) == {t \in work.tasks : GroupsOf[t] \cap gr.nodes \cap rootGroups # {}}

\* Mutants: a group that has not been announced is finished, too; a group is
\* finished one task too early.
FinishedUnannounced(gr, t) == {g \in GroupsOf[t] \cap gr.nodes : gr.pending[g] = 0}
FinishedOffByOne(gr, t) ==
  {g \in GroupsOf[t] \cap gr.nodes \cap rootGroups : gr.pending[g] <= 1}

\* The groups that a success of a task completes in the graph gr.
Finished(gr, t) == {g \in GroupsOf[t] \cap gr.nodes \cap rootGroups : gr.pending[g] = 0}

\* _task_success().  The order of the steps matters: the new work is integrated
\* before the success is counted, so that a group which gets a further task by it
\* is not finished yet.
Succeed(t, work) ==
  LET gr1      == CountSuccess(Integrate(graph, work), t)
      atOnce   == AtOnce(work, gr1)
      nodes1   == taskNodes \cup atOnce
      valued1  == IF t \in taskNodes THEN valued \cup {t} ELSE valued
      streams1 == [u \in Tasks |-> IF u = t /\ t \in taskNodes
                                  THEN childStreams[u] \cup work.streams
                                  ELSE childStreams[u]]
      finished == Finished(gr1, t)
      done     == (UNION {gr1.tasks[g] : g \in finished}) \cap nodes1
      below    == UNION {gr1.children[g] : g \in finished}
      gr2      == Forget(Remove(gr1, finished), done)
      promoted == Promoted(gr2, below)
      opened   == UNION {streams1[u] : u \in done}
      starting == atOnce \cup ((UNION {gr2.tasks[g] : g \in promoted}) \ (nodes1 \ done))
  IN
  /\ graph' = Prune(gr2, below)
  /\ rootGroups' = (rootGroups \ finished) \cup promoted
  /\ rootStreams' = rootStreams \cup opened
  /\ taskNodes' = (nodes1 \ done) \cup starting
  /\ valued' = valued1 \ done
  /\ childStreams' = [u \in Tasks |-> IF u \in done THEN {} ELSE streams1[u]]
  /\ StartTasks(starting, Produced(work), Tail(channel))
  /\ phase' = IF Crashes(starting) THEN "crashed" ELSE "draining"
  /\ queue' = [s \in Streams |-> IF s \in work.streams THEN "open" ELSE queue[s]]
  /\ pump' = StartPumps(opened)
  /\ \E order \in Orders(finished) :
        batch' = batch \o FinishEvents(gr1, order, nodes1, valued1, streams1)
  /\ made' = made \cup work.groups
  /\ announced' = announced \cup promoted \cup opened
  /\ succeeded' = succeeded \cup finished
  /\ delivered' = delivered \cup (done \cap valued1)
  /\ UNCHANGED <<pumped, stopped, failed>>

HandleTaskSuccess(t) == /\ Handling("ok", t)
                        /\ \E work \in TaskWork(t) : Succeed(t, work)

\* _task_failure(): all groups of the task fail, with everything below them.
HandleTaskFailure(t) ==
  /\ Handling("err", t)
  /\ LET hit  == GroupsOf[t] \cap graph.nodes
         gone == Subtree(graph, hit)
         lost == Orphaned(graph, gone) \cup {t}
     IN
     /\ graph' = Remove(graph, gone)
     /\ rootGroups' = rootGroups \ hit
     /\ taskNodes' = taskNodes \ lost
     /\ valued' = valued \ lost
     /\ childStreams' = [u \in Tasks |-> IF u \in lost THEN {} ELSE childStreams[u]]
     /\ \E order \in Orders(hit) :
           batch' = batch \o [i \in DOMAIN order |->
                               Event("groupFailure", order[i], {}, {}, {})]
     /\ failed' = failed \cup hit
  /\ channel' = Tail(channel)
  /\ UNCHANGED <<rootStreams, asyncVars, stopped, phase,
                 made, announced, succeeded, delivered>>

\* _stream_items(): the work of the items is integrated at the root, and started;
\* then the pump may proceed.  The success of a stream that is known to have
\* stopped is reported right away.
TakeItems(s, work) ==
  LET gr1      == Integrate(graph, work)
      top      == {g \in work.groups : Parent[g] = NoGroup}
      promoted == Promoted(gr1, top)
      starting == (UNION {gr1.tasks[g] : g \in promoted}) \ taskNodes
      isLast   == queue[s] = "stopped"
  IN
  /\ graph' = Prune(gr1, top)
  /\ rootGroups' = rootGroups \cup promoted
  /\ rootStreams' = (rootStreams \cup work.streams) \ (IF isLast THEN {s} ELSE {})
  /\ taskNodes' = taskNodes \cup starting
  /\ StartTasks(starting, Produced(work), Tail(channel))
  /\ queue' = [q \in Streams |-> IF q \in work.streams THEN "open" ELSE queue[q]]
  /\ pump' = [StartPumps(work.streams) EXCEPT ![s] = IF @ = "handing" THEN "iterating" ELSE @]
  /\ batch' = batch \o <<Event("streamValues", s, {}, promoted, work.streams)>>
                    \o (IF isLast THEN <<Event("streamSuccess", s, {}, {}, {})>>
                        ELSE <<>>)
  /\ made' = made \cup work.groups
  /\ announced' = announced \cup promoted \cup work.streams
  /\ succeeded' = IF isLast THEN succeeded \cup {s} ELSE succeeded
  /\ UNCHANGED <<valued, childStreams, pumped, stopped, phase, failed, delivered>>

HandleStreamItems(s) == /\ Handling("items", s)
                        /\ \E work \in RootWork : TakeItems(s, work)

\* The end of a stream, unless _stream_items() has already reported it.
HandleStreamSuccess(s) ==
  /\ Handling("end", s)
  /\ rootStreams' = rootStreams \ {s}
  /\ IF s \in rootStreams
     THEN /\ batch' = Append(batch, Event("streamSuccess", s, {}, {}, {}))
          /\ succeeded' = succeeded \cup {s}
     ELSE UNCHANGED <<batch, succeeded>>
  /\ channel' = Tail(channel)
  /\ UNCHANGED <<graph, rootGroups, taskNodes, valued, childStreams, asyncVars,
                 stopped, phase, made, announced, failed, delivered>>

HandleStreamFailure(s) ==
  /\ Handling("fail", s)
  /\ rootStreams' = rootStreams \ {s}
  /\ batch' = Append(batch, Event("streamFailure", s, {}, {}, {}))
  /\ failed' = failed \cup {s}
  /\ channel' = Tail(channel)
  /\ UNCHANGED <<graph, rootGroups, taskNodes, valued, childStreams, asyncVars,
                 stopped, phase, made, announced, succeeded, delivered>>

\* The sentinel of cancel() only wakes up the consumer.  A step of the publisher: on
\* its own, the queue is cancelled together with its consumer.
SkipStop == /\ Handling("stop", NoGroup)
            /\ channel' = Tail(channel)
            /\ UNCHANGED <<graphVars, asyncVars, stopped, phase, batch, history>>

HandleGraphEvent == \/ \E t \in Tasks : HandleTaskSuccess(t) \/ HandleTaskFailure(t)
                    \/ \E s \in Streams : \/ HandleStreamItems(s)
                                          \/ HandleStreamSuccess(s)
                                          \/ HandleStreamFailure(s)

-----------------------------------------------------------------------------
(* The consumer: events().                                                  *)

\* __init__(): the initial work is integrated and pruned, nothing is started yet.
\* A work queue is only built for work with tasks or streams.
Init ==
  /\ \E work \in [groups : SUBSET Groups, tasks : SUBSET Tasks, streams : SUBSET Streams] :
       LET gr  == Integrate(EmptyGraph, work)
           top == {g \in work.groups : Parent[g] = NoGroup}
       IN
       /\ \A g \in work.groups : Parent[g] \in work.groups \cup {NoGroup}
       /\ \A t \in work.tasks : GroupsOf[t] \subseteq work.groups
       /\ work.tasks # {} \/ work.streams # {}
       /\ graph = Prune(gr, top)
       /\ rootGroups = Promoted(gr, top)
       /\ rootStreams = work.streams
       /\ comp = [t \in Tasks |-> IF t \in work.tasks THEN "idle" ELSE "none"]
       /\ queue = [s \in Streams |-> IF s \in work.streams THEN "open" ELSE "none"]
       /\ made = work.groups
       /\ announced = Promoted(gr, top) \cup work.streams
  /\ taskNodes = {}
  /\ valued = {}
  /\ childStreams = [t \in Tasks |-> {}]
  /\ pump = [s \in Streams |-> "off"]
  /\ pumped = [s \in Streams |-> 0]
  /\ channel = <<>>
  /\ stopped = FALSE
  /\ phase = "new"
  /\ batch = <<>>
  /\ succeeded = {}
  /\ failed = {}
  /\ delivered = {}

\* channel.get() returns at once if there is something in the channel.
Receive(ch) == IF ch = <<>> THEN "parked" ELSE "draining"

RootTasks == UNION {graph.tasks[g] : g \in rootGroups}

\* The first iteration step of events() starts the root groups and streams, even
\* if the queue has been stopped in the meantime.
StartEvents ==
  /\ phase = "new"
  /\ taskNodes' = taskNodes \cup RootTasks
  /\ StartTasks(RootTasks \ taskNodes, comp, channel)
  /\ pump' = StartPumps(rootStreams)
  /\ phase' = IF Crashes(RootTasks) THEN "crashed"
              ELSE IF stopped THEN "ended" ELSE Receive(channel')
  /\ UNCHANGED <<graph, rootGroups, rootStreams, valued, childStreams,
                 queue, pumped, stopped, batch, history>>

\* The pending get() of the consumer returns.
Wake == /\ phase = "parked"
        /\ channel # <<>>
        /\ phase' = "draining"
        /\ UNCHANGED <<graphVars, asyncVars, channel, stopped, batch, history>>

\* The channel has been drained: without any root work left the queue stops, and
\* a batch with events is yielded.
EndBatch ==
  /\ phase = "draining"
  /\ channel = <<>>
  /\ LET finished == rootGroups = {} /\ rootStreams = {} IN
     /\ stopped' = (stopped \/ finished)
     /\ batch' = IF finished
                 THEN Append(batch, Event("termination", NoGroup, {}, {}, {}))
                 ELSE batch
     /\ phase' = IF batch' # <<>> THEN "yielded"
                 ELSE IF stopped' THEN "ended" ELSE "parked"
  /\ UNCHANGED <<graphVars, asyncVars, channel, history>>

\* The consumer has taken the batch and asks for the next one.
Resume == /\ phase = "yielded"
          /\ batch' = <<>>
          /\ phase' = IF stopped THEN "ended" ELSE Receive(channel)
          /\ UNCHANGED <<graphVars, asyncVars, channel, stopped, history>>

-----------------------------------------------------------------------------
(* The tasks and the pumps, which run between the steps of the consumer.    *)

Idle == phase # "draining"

Push(event) == channel' = IF stopped THEN channel ELSE Append(channel, event)

\* prime_now(), prime_soon(): with early execution, a task is primed before its
\* group is deliverable.
PrimeEarly(t) ==
  /\ Early /\ Idle
  /\ comp[t] = "idle"
  /\ \E c \in {"early", "earlyOk", "earlyErr"} : comp' = [comp EXCEPT ![t] = c]
  /\ UNCHANGED <<graphVars, queue, pump, pumped, loopVars, history>>

\* The computation of a task settles: settle_task() pushes the outcome if the task
\* has been started.
SettleTask(t) ==
  /\ Idle
  /\ \E ok \in BOOLEAN :
       \/ /\ comp[t] = "early"
          /\ comp' = [comp EXCEPT ![t] = IF ok THEN "earlyOk" ELSE "earlyErr"]
          /\ UNCHANGED channel
       \/ /\ comp[t] = "running"
          /\ comp' = [comp EXCEPT ![t] = IF ok THEN "ok" ELSE "err"]
          /\ Push(IF ok THEN TaskOk(t) ELSE TaskErr(t))
  /\ UNCHANGED <<graphVars, queue, pump, pumped, stopped, phase, batch, history>>

\* The pump of a stream gets a batch, and waits until it has been handled.  The
\* queue may have seen the end of the source behind the batch.
PumpItems(s) ==
  /\ Idle
  /\ pump[s] = "iterating" /\ queue[s] = "open"
  /\ pumped[s] < MaxBatches
  /\ pumped' = [pumped EXCEPT ![s] = @ + 1]
  /\ \E q \in {"open", "stopped"} : queue' = [queue EXCEPT ![s] = q]
  /\ pump' = [pump EXCEPT ![s] = "handing"]
  /\ Push(StreamItems(s))
  /\ UNCHANGED <<graphVars, comp, stopped, phase, batch, history>>

PumpSuccess(s) ==
  /\ Idle
  /\ pump[s] = "iterating" /\ queue[s] # "aborted"
  /\ queue' = [queue EXCEPT ![s] = "stopped"]
  /\ pump' = [pump EXCEPT ![s] = "done"]
  /\ Push(StreamEnd(s))
  /\ UNCHANGED <<graphVars, comp, pumped, stopped, phase, batch, history>>

PumpFailure(s) ==
  /\ Idle
  /\ pump[s] = "iterating" /\ queue[s] = "open"
  /\ pump' = [pump EXCEPT ![s] = "done"]
  /\ Push(StreamFail(s))
  /\ UNCHANGED <<graphVars, comp, queue, pumped, stopped, phase, batch, history>>

\* The futures in the queue of a stream are cancelled when its source fails, which only
\* happens with early execution (see FailureIsRaised in StreamItemQueue).
PumpCancelled(s) ==
  /\ Early /\ Idle
  /\ pump[s] = "iterating" /\ queue[s] = "open"
  /\ pump' = [pump EXCEPT ![s] = "cancelled"]
  /\ UNCHANGED <<graphVars, comp, queue, pumped, loopVars, history>>

-----------------------------------------------------------------------------
(* Cancellation.                                                            *)

\* Mutant: only the tasks of the root groups themselves are cancelled.
CancelledRootTasks == UNION {graph.tasks[g] : g \in rootGroups}

\* _cancel_group() reaches everything below the root groups.
CancelledTasks == UNION {graph.tasks[g] : g \in Subtree(graph, rootGroups)}
CancelledStreams == rootStreams \cup UNION {childStreams[t] : t \in CancelledTasks \cap taskNodes}

WakeUp == Append(channel, STOP)

\* cancel(): every task and stream that is reached, and every pump, is aborted; a
\* parked consumer is woken up.
CancelWork ==
  /\ stopped' = TRUE
  /\ channel' = WakeUp
  /\ comp' = [t \in Tasks |-> IF t \in CancelledTasks /\ comp[t] \in {"idle", "early", "running"}
                              THEN "aborted" ELSE comp[t]]
  /\ queue' = [s \in Streams |-> IF s \in CancelledStreams /\ queue[s] = "open"
                                 THEN "aborted" ELSE queue[s]]
  /\ pump' = [s \in Streams |-> IF pump[s] = "off" THEN "off" ELSE "done"]
  /\ UNCHANGED <<graphVars, pumped, batch, history>>

\* The publisher cancels the queue when it does not ask for a batch, or when it
\* has just cancelled the request for one: the consumer never runs again.  (With an
\* abort signal the request may survive: this is what the sentinel is for, see
\* CancelClient in IncrementalPublisher.)
Cancel == /\ phase \in {"new", "parked", "yielded", "ended"}
          /\ phase' = "closed"
          /\ CancelWork

-----------------------------------------------------------------------------
Deliver == \/ StartEvents \/ Wake \/ HandleGraphEvent \/ EndBatch \/ Resume
           \/ \E t \in Tasks : PrimeEarly(t) \/ SettleTask(t)
           \/ \E s \in Streams : PumpItems(s) \/ PumpSuccess(s) \/ PumpFailure(s)
                                 \/ PumpCancelled(s)

Next == Deliver \/ Cancel

\* The consumer keeps asking for batches, and the loop runs what is ready.
ConsumerFairness == WF_vars(StartEvents \/ Wake \/ HandleGraphEvent \/ EndBatch \/ Resume)

Spec == Init /\ [][Next]_vars /\ ConsumerFairness

-----------------------------------------------------------------------------
(* Properties.                                                              *)

\* graph, ..., delivered have the types given at their declaration; the counters
\* of the groups never get negative.
TypeOK ==
  /\ graph \in Graph
  /\ rootGroups \subseteq Groups
  /\ rootStreams \subseteq Streams
  /\ taskNodes \subseteq Tasks
  /\ valued \subseteq Tasks
  /\ childStreams \in [Tasks -> SUBSET Streams]
  /\ comp \in [Tasks -> CompStates]
  /\ queue \in [Streams -> QueueStates]
  /\ pump \in [Streams -> PumpStates]
  /\ pumped \in [Streams -> Nat]
  /\ channel \in Seq(GraphEvents)
  /\ stopped \in BOOLEAN
  /\ phase \in PhaseStates
  /\ batch \in Seq(WorkQueueEvents)
  /\ made \subseteq Groups
  /\ announced \subseteq Nodes
  /\ succeeded \subseteq Nodes
  /\ failed \subseteq Nodes
  /\ delivered \subseteq Tasks

\* The counter of a group is exact: it counts the tasks of the group that have not
\* succeeded yet (_add_task, _task_success), however its tasks are shared with
\* other groups that finish or fail in the meantime.
PendingIsExact ==
  \A g \in graph.nodes : graph.pending[g] = Cardinality(graph.tasks[g] \ valued)

\* What PendingIsExact rests on.  A group without a node holds nothing; every task
\* is entered in all of its groups that have one until its value is delivered; the
\* outcome of a task is in the channel at most once, and its value is not set
\* before that outcome is handled; and a started task keeps its task node for as
\* long as one of its groups holds it (_add_group, _add_task, _remove_task,
\* _start_task).
NodesAreMade ==
  /\ graph.nodes \subseteq made
  /\ \A g \in Groups \ graph.nodes : graph.tasks[g] = {} /\ graph.pending[g] = 0

TasksAreEntered ==
  /\ \A t \in Tasks : comp[t] # "none" => GroupsOf[t] \subseteq made
  /\ \A g \in graph.nodes : \A t \in graph.tasks[g] : g \in GroupsOf[t] /\ comp[t] # "none"
  /\ \A g \in graph.nodes : \A t \in Tasks :
        g \in GroupsOf[t] /\ comp[t] # "none" /\ t \notin delivered => t \in graph.tasks[g]

OutcomesAreUnique ==
  /\ \A t \in Tasks : comp[t] \notin {"ok", "err"} =>
        /\ t \notin valued \cup delivered
        /\ \A i \in DOMAIN channel : channel[i].node # t
  /\ \A i, j \in DOMAIN channel :
        channel[i].node \in Tasks /\ channel[i].node = channel[j].node => i = j
  /\ \A i \in DOMAIN channel : channel[i].node \notin valued \cup delivered

NodesAreKept ==
  /\ valued \subseteq taskNodes
  /\ \A g \in graph.nodes : \A t \in graph.tasks[g] :
        comp[t] \in {"running", "ok", "err"} => t \in taskNodes

GraphIsConsistent == /\ NodesAreMade
                     /\ TasksAreEntered
                     /\ OutcomesAreUnique
                     /\ NodesAreKept
                     /\ PendingIsExact

\* A group is only announced when nothing above it is left in the graph: two root
\* groups are never nested (_prune_empty_groups, _finish_group_success).
RootsAreOutermost ==
  \A g \in rootGroups : /\ g \in graph.nodes
                         /\ graph.nodes \cap Ancestors[g] = {}

\* Nothing announced is stuck: as long as the queue runs, each missing task of a
\* root group is running or its outcome is in the channel, and each root stream is
\* being pumped or its end is in the channel (_start_new_work, _start_task); but with
\* early execution a stream can be stuck for good.
InChannel(kinds, n) == \E i \in DOMAIN channel : channel[i].kind \in kinds /\ channel[i].node = n
RootsAreServed ==
  ~ stopped /\ phase # "new" =>
    /\ \A g \in rootGroups :
         /\ graph.tasks[g] \ valued # {}
         /\ \A t \in graph.tasks[g] \ valued :
              comp[t] = "running" \/ InChannel({"ok", "err"}, t)
    /\ \A s \in rootStreams :
         \/ pump[s] = "iterating"
         \/ pump[s] = "handing" /\ InChannel({"items"}, s)
         \/ pump[s] = "done" /\ InChannel({"end", "fail"}, s)
         \/ pump[s] = "cancelled" /\ Early

\* A group below a failed one never becomes deliverable.
Doomed(g) == g \in failed \/ failed \cap Ancestors[g] # {}

\* When a group is reported as successful, the values of all its tasks have been
\* reported, those that it shares with other groups included
\* (_finish_group_success).
SuccessIsComplete ==
  \A g \in succeeded \cap Groups : \A t \in Tasks :
     g \in GroupsOf[t] /\ comp[t] # "none" => t \in delivered

\* When the queue stops by itself, everything announced has been reported as
\* completed, what is left in the graph is below a failed group, and the value of
\* a task is only missing if one of its groups has failed (events).
Terminated == stopped /\ phase \in {"yielded", "ended"}
NothingLeftBehind ==
  Terminated => /\ announced \subseteq succeeded \cup failed
                /\ \A g \in graph.nodes : Doomed(g)
                /\ \A t \in Tasks : comp[t] = "ok" /\ t \notin delivered
                                      => \E g \in GroupsOf[t] : Doomed(g)

\* "All work has been delivered; the work queue terminates." (the docstring of
\* WorkQueueTerminationEvent): a value is only missing if all groups of its task
\* have failed.  The code violates this.
AllWorkDelivered ==
  Terminated => \A t \in Tasks : comp[t] = "ok" /\ t \notin delivered
                                 => \A g \in GroupsOf[t] : Doomed(g)

\* Once the queue has been cancelled, a task that is still pending belonged to
\* groups that failed before: everything else has been aborted (cancel).
CancelReachesLiveWork ==
  phase = "closed" =>
    \A t \in Tasks : comp[t] \in {"idle", "early", "running"}
                      => \A g \in GroupsOf[t] : Doomed(g)

\* The events a step adds to the batch.
NewEvents == {batch'[i] : i \in (Len(batch) + 1)..Len(batch')}

\* No group or stream is announced twice, and none is reported on after its
\* completion (a late event of a removed task or a stopped stream is dropped); what is
\* reported as successful, or with values, has been announced before, and without
\* early execution no task is started before one of its groups is
\* (_finish_group_success, _stream_items, _start_group, _add_task).
ReportsOnce ==
  [][/\ \A e \in NewEvents :
          /\ (e.newGroups \cup e.newStreams) \cap announced = {}
          /\ e.node \notin succeeded \cup failed
          /\ e.kind \notin {"groupFailure", "termination"} => e.node \in announced
     /\ ~ Early => \A t \in Tasks : comp'[t] = "running" /\ comp[t] # "running"
                                      => GroupsOf[t] \cap announced' # {}]_vars

\* The value of a task is reported once, although each of its groups holds it.
ValuesOnce ==
  [][/\ \A e \in NewEvents : e.values \cap delivered = {}
     /\ \A e, f \in NewEvents : e # f => e.values \cap f.values = {}]_vars
=============================================================================
