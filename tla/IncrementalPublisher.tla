------------------------ MODULE IncrementalPublisher ------------------------
(***************************************************************************)
(* The publisher of incremental results                                    *)
(* (execution/incremental/incremental_publisher.py), composed with the     *)
(* work queue it consumes, with the client that iterates over the          *)
(* subsequent results, and with the abort signal of the operation.         *)
(*                                                                         *)
(* The publisher numbers the groups and streams that the work queue        *)
(* announces, and translates each batch of events into one subsequent      *)
(* result.  The client asks for results, closes the iteration, or is       *)
(* cancelled while it waits; the abort signal may fire at any time.        *)
(***************************************************************************)
EXTENDS WorkQueue

CONSTANTS PathLength,   \* the length of the path of a delivery group
          HasSignal     \* whether the operation has an abort signal

\* Finitely many streams: _ensure_id() counts what it gives an id to.
ASSUME PublisherAssumption == /\ PathLength \in [Groups -> Nat]
                              /\ HasSignal \in BOOLEAN
                              /\ IsFiniteSet(Streams)

VARIABLES
  ids,         \* _ids: the number of each group or stream, or NoId
  nextId,      \* _next_id
  sub,         \* where the generator _subscribe() is
  aborted,     \* abort_signal.aborted
  closing,     \* how far the finally block of _subscribe() has got
  tracked,     \* pending_incremental_futures: primed early, and still pending
  rootTasks,   \* the tasks of the executor of the operation itself
  result,      \* the last subsequent result
  open,        \* the client's view: the ids that are pending
  received     \* history: the tasks whose values the client has received

pubVars == <<ids, nextId, sub, aborted, closing, tracked, rootTasks, result, open,
             received>>
allVars == <<vars, pubVars>>

NoId == -1

SubStates == {"unstarted",     \* the client has not asked for a result yet
              "asking",        \* a request for the next batch is scheduled
              "waiting",       \* events() works on it
              "yielding",      \* at the yield, with more results to come
              "last",          \* at the yield of the last result
              "returned",      \* ended after the last result
              "aborted",       \* ended with the error of the abort signal
              "closed",        \* closed by the client at a yield
              "cancelled",     \* the client was cancelled while it waited
              "detachedAsking", "detached",  \* ... but the request was not
              "abandoned"}     \* closed by the client before it was started

ClosingStates == {"no", "queue", "executor", "done"}

Results == [pending : SUBSET Nat,
            incremental : SUBSET [id : Nat, task : Tasks \cup {NoGroup}],
            completed : SUBSET [id : Nat, ok : BOOLEAN],
            hasNext : BOOLEAN]

NoResult == [pending |-> {}, incremental |-> {}, completed |-> {}, hasNext |-> TRUE]

-----------------------------------------------------------------------------
(* Translating events.  The state of the translation holds the ids, the     *)
(* next id, and the parts of the result collected so far.                   *)

\* Mutant: every node gets a new id.
EnsureNewIds(st, S) ==
  LET order == CHOOSE f \in Orders(S) : TRUE
      place == [n \in S |-> CHOOSE i \in DOMAIN order : order[i] = n]
  IN [st EXCEPT !.ids = [n \in Nodes |-> IF n \in S THEN st.next + place[n] - 1
                                         ELSE st.ids[n]],
                !.next = st.next + Cardinality(S)]

\* _ensure_id() for each node of S, in some order.
EnsureIds(st, S) ==
  LET fresh == {n \in S : st.ids[n] = NoId}
      order == CHOOSE f \in Orders(fresh) : TRUE
      place == [n \in fresh |-> CHOOSE i \in DOMAIN order : order[i] = n]
  IN [st EXCEPT !.ids = [n \in Nodes |-> IF n \in fresh THEN st.next + place[n] - 1
                                         ELSE st.ids[n]],
                !.next = st.next + Cardinality(fresh)]

\* _to_pending_results()
Announce(st, S) ==
  LET st1 == EnsureIds(st, S)
  IN [st1 EXCEPT !.pending = st.pending \cup {st1.ids[n] : n \in S}]

\* A completed node gives up its id.
Complete(st, n, ok) ==
  LET st1 == EnsureIds(st, {n})
  IN [st1 EXCEPT !.completed = st.completed \cup {[id |-> st1.ids[n], ok |-> ok]},
                 !.ids = [st1.ids EXCEPT ![n] = NoId]]

\* Mutant: the id of a group that has not been announced may be chosen.
BestIdLongest(st, g, t) ==
  LET best == CHOOSE h \in GroupsOf[t] :
                \A k \in GroupsOf[t] : PathLength[k] <= PathLength[h]
  IN IF PathLength[best] > PathLength[g] THEN st.ids[best] ELSE st.ids[g]

\* _get_best_id_and_sub_path(): the value of a task is reported under the group
\* with an id whose path is the longest, but under the completed group g if no
\* other path is longer.
BestId(st, g, t) ==
  LET known == {h \in GroupsOf[t] : h # g /\ st.ids[h] # NoId}
      best  == CHOOSE h \in known : \A k \in known : PathLength[k] <= PathLength[h]
  IN IF \E h \in known : PathLength[h] > PathLength[g] THEN st.ids[best]
     ELSE st.ids[g]

\* Mutant: the values that belong to a deeper group as well are left to that group.
OwnIncremental(st, e) ==
  {[id |-> st.ids[e.node], task |-> t] :
     t \in {u \in e.values : BestId(st, e.node, u) = st.ids[e.node]}}

\* The data of a group: the values of its tasks, each under the best id for it.
GroupIncremental(st, e) ==
  {[id |-> BestId(st, e.node, t), task |-> t] : t \in e.values}

\* _handle_work_queue_event()
HandleEvent(st, e) ==
  CASE e.kind = "groupSuccess" ->
         LET st1 == EnsureIds(st, {e.node})
         IN Announce([Complete(st1, e.node, TRUE) EXCEPT
                        !.incremental = st.incremental \cup GroupIncremental(st1, e)],
                     e.newGroups \cup e.newStreams)
    [] e.kind = "streamValues" ->
         LET st1 == EnsureIds(st, {e.node})
         IN Announce([st1 EXCEPT !.incremental = st.incremental \cup
                        {[id |-> st1.ids[e.node], task |-> NoGroup]}],
                     e.newGroups \cup e.newStreams)
    [] e.kind = "streamSuccess" -> Complete(st, e.node, TRUE)
    [] e.kind \in {"groupFailure", "streamFailure"} -> Complete(st, e.node, FALSE)
    [] e.kind = "termination" -> [st EXCEPT !.hasNext = FALSE]

\* _handle_batch()
HandleBatch(events) ==
  LET st[i \in 0..Len(events)] ==
        IF i = 0
        THEN [ids |-> ids, next |-> nextId, pending |-> {}, incremental |-> {},
              completed |-> {}, hasNext |-> TRUE]
        ELSE HandleEvent(st[i - 1], events[i])
  IN st[Len(events)]

-----------------------------------------------------------------------------
\* build_response(): the work queue is built, and what it announces at first is
\* part of the initial result.
PublisherInit ==
  /\ Init
  /\ LET st == Announce([ids |-> [n \in Nodes |-> NoId], next |-> 0, pending |-> {}],
                        announced)
     IN ids = st.ids /\ nextId = st.next /\ open = st.pending
  /\ sub = "unstarted"
  /\ aborted = FALSE
  /\ closing = "no"
  /\ tracked = {}
  /\ rootTasks = {t \in Tasks : comp[t] # "none"}
  /\ result = NoResult
  /\ received = {}

\* track_incremental_future(): a future is discarded when it is done.
Track == tracked' = {t \in tracked \cup {u \in Tasks : comp'[u] = "early"} :
                       comp'[t] \in {"early", "running"}}

\* The steps of the work queue that need no step of the publisher.  Tasks are only
\* primed early as long as the futures that do so have not been cancelled.
QueueStep ==
  /\ \/ Wake \/ HandleGraphEvent \/ SkipStop \/ EndBatch
     \/ \E t \in Tasks : \/ SettleTask(t)
                         \/ closing \in {"no", "queue"} /\ PrimeEarly(t)
     \/ \E s \in Streams : PumpItems(s) \/ PumpSuccess(s) \/ PumpFailure(s)
                            \/ PumpCancelled(s)
  /\ Track
  /\ UNCHANGED <<ids, nextId, sub, aborted, closing, rootTasks, result, open, received>>

\* The client asks for the next result: the request for a batch is scheduled,
\* unless the operation has been aborted.
Request ==
  /\ Idle
  /\ sub \in {"unstarted", "yielding"}
  /\ ~ aborted
  /\ sub' = "asking"
  /\ UNCHANGED <<vars, ids, nextId, aborted, closing, tracked, rootTasks,
                 result, open, received>>

\* The scheduled request runs.
Begin ==
  /\ \/ sub = "asking" /\ sub' = "waiting"
     \/ sub = "detachedAsking" /\ sub' = "detached"
  /\ StartEvents \/ Resume
  /\ Track
  /\ UNCHANGED <<ids, nextId, aborted, closing, rootTasks, result, open, received>>

\* A batch has arrived, and the signal has not fired: its result is yielded.
Publish ==
  /\ Idle
  /\ sub = "waiting"
  /\ phase = "yielded"
  /\ ~ aborted
  /\ LET st == HandleBatch(batch) IN
     /\ ids' = st.ids
     /\ nextId' = st.next
     /\ result' = [pending |-> st.pending, incremental |-> st.incremental,
                   completed |-> st.completed, hasNext |-> st.hasNext]
     /\ open' = (open \cup st.pending) \ {c.id : c \in st.completed}
     /\ received' = received \cup ({i.task : i \in st.incremental} \ {NoGroup})
     /\ sub' = IF st.hasNext THEN "yielding" ELSE "last"
  /\ UNCHANGED <<vars, aborted, closing, tracked, rootTasks>>

-----------------------------------------------------------------------------
(* The end of the iteration.                                                *)

\* The finally block begins with `await work_queue.cancel()'; the request for a
\* batch, if there is one, has been cancelled with its awaiter.
Finally(state) ==
  /\ Cancel
  /\ sub' = state
  /\ closing' = "queue"
  /\ Track
  /\ UNCHANGED <<ids, nextId, aborted, rootTasks, result, open, received>>

\* After the last result, the next request ends the iteration.
Return == sub = "last" /\ Finally("returned")

\* Mutant: the abort signal is only noticed at a request.
AbortAtRequest == /\ Idle
                  /\ aborted
                  /\ sub \in {"unstarted", "yielding"}
                  /\ Finally("aborted")

\* The abort signal is noticed at a request, or while waiting for a batch, which
\* is dropped even if it has just arrived.
AbortWins == /\ Idle
             /\ aborted
             /\ sub \in {"unstarted", "yielding", "asking", "waiting"}
             /\ Finally("aborted")

\* aclose() by the client raises GeneratorExit at the yield; a generator that has
\* not been started is closed without running its finally block.
Close == \/ /\ sub \in {"yielding", "last"}
            /\ Finally("closed")
         \/ /\ Idle
            /\ sub = "unstarted"
            /\ sub' = "abandoned"
            /\ UNCHANGED <<vars, ids, nextId, aborted, closing, tracked, rootTasks,
                           result, open, received>>

\* The task of the client is cancelled while it waits.  Without an abort signal it
\* awaits the request itself, which is cancelled as well; asyncio.wait(), used
\* with a signal, does not cancel what it waits for.
CancelClient ==
  /\ Idle
  /\ sub \in {"asking", "waiting"}
  /\ IF HasSignal
     THEN /\ sub' = IF sub = "asking" THEN "detachedAsking" ELSE "detached"
          /\ CancelWork
          /\ UNCHANGED phase
          /\ closing' = "queue"
          /\ Track
          /\ UNCHANGED <<ids, nextId, aborted, rootTasks, result, open, received>>
     ELSE Finally("cancelled")

\* Mutant: the futures that prime nested tasks early are not cancelled.
CancelRootTasksOnly ==
  /\ Idle
  /\ closing = "queue"
  /\ closing' = "executor"
  /\ comp' = [t \in Tasks |->
                IF t \in rootTasks /\ comp[t] \in {"idle", "early", "running"}
                THEN "aborted" ELSE comp[t]]
  /\ Track
  /\ UNCHANGED <<graphVars, queue, pump, pumped, loopVars, history,
                 ids, nextId, sub, aborted, rootTasks, result, open, received>>

\* cancel_incremental_work(): the tasks of the executor itself are aborted, and the
\* tracked futures cancelled.
CancelIncrementalWork ==
  /\ Idle
  /\ closing = "queue"
  /\ closing' = "executor"
  /\ comp' = [t \in Tasks |->
                IF \/ t \in rootTasks /\ comp[t] \in {"idle", "early", "running"}
                   \/ t \in tracked
                THEN "aborted" ELSE comp[t]]
  /\ Track
  /\ UNCHANGED <<graphVars, queue, pump, pumped, loopVars, history,
                 ids, nextId, sub, aborted, rootTasks, result, open, received>>

\* run_async_work_finished_hook()
RunHook ==
  /\ Idle
  /\ closing = "executor"
  /\ closing' = "done"
  /\ UNCHANGED <<vars, ids, nextId, sub, aborted, tracked, rootTasks,
                 result, open, received>>

\* The abort signal fires.
FireAbort ==
  /\ Idle
  /\ HasSignal /\ ~ aborted
  /\ aborted' = TRUE
  /\ UNCHANGED <<vars, ids, nextId, sub, closing, tracked, rootTasks,
                 result, open, received>>

PublisherNext == \/ QueueStep \/ Request \/ Begin \/ Publish \/ Return
                 \/ AbortWins \/ Close \/ CancelClient
                 \/ CancelIncrementalWork \/ RunHook \/ FireAbort

\* A client that keeps asking, on a loop that runs what is ready; resolvers come to an
\* end as long as the operation is not aborted.
PublisherFairness ==
  /\ WF_allVars(Request)
  /\ WF_allVars(Begin \/ Publish \/ Return \/ AbortWins)
  /\ WF_allVars(CancelIncrementalWork \/ RunHook)
  /\ WF_allVars((Wake \/ HandleGraphEvent \/ SkipStop \/ EndBatch) /\ QueueStep)
  /\ WF_allVars((\E t \in Tasks : ~ aborted /\ SettleTask(t)) /\ QueueStep)

PublisherSpec == PublisherInit /\ [][PublisherNext]_allVars /\ PublisherFairness

-----------------------------------------------------------------------------
(* Properties.                                                              *)

\* The variables have the types given at their declaration.
PublisherTypeOK ==
  /\ ids \in [Nodes -> Nat \cup {NoId}]
  /\ nextId \in Nat
  /\ sub \in SubStates
  /\ aborted \in BOOLEAN
  /\ closing \in ClosingStates
  /\ tracked \subseteq Tasks
  /\ rootTasks \subseteq Tasks
  /\ result \in Results
  /\ open \subseteq Nat
  /\ received \subseteq Tasks

\* Between two results, the publisher and its client agree on what is pending: the
\* ids in use are the ids the client has been told of and not seen completed, no
\* two nodes share one, and, as long as no batch is under way, they are the ids of
\* what the queue still owes (_ensure_id, _handle_work_queue_event, _handle_batch).
IdsMatchClient ==
  /\ PublisherTypeOK
  /\ open = {ids[n] : n \in Nodes} \ {NoId}
  /\ \A m, n \in Nodes : m # n /\ ids[m] # NoId => ids[m] # ids[n]
  /\ sub = "yielding" => {n \in Nodes : ids[n] # NoId} = rootGroups \cup rootStreams

\* The results are what incremental delivery promises (Delivery): an id is announced
\* once, values and successes are only reported for ids that are pending, completions
\* are final, no value is delivered twice, and a result says that it is the last, and is,
\* exactly when it leaves nothing pending (_handle_batch, has_next).
Contract == INSTANCE Delivery WITH Values <- Tasks, Item <- NoGroup,
                                   used <- 0..(nextId - 1)
ImplementsDelivery == Contract!DeliverySpec

\* A client that has been told of the success of a group has the values of all its
\* tasks, those included that were reported under the ids of other groups; and when
\* it is told that nothing follows, it has the value of every task that has succeeded,
\* but for those of which a group has failed.  No value gets lost between the queue
\* and the client (_handle_work_queue_event, _get_best_id_and_sub_path, events).
ClientIsComplete ==
  sub \in {"yielding", "last"} =>
    /\ \A g \in succeeded \cap Groups : \A t \in Tasks :
          g \in GroupsOf[t] /\ comp[t] # "none" => t \in received
    /\ sub = "last" => \A t \in Tasks : comp[t] = "ok" /\ t \notin received
                                           => \E g \in GroupsOf[t] : Doomed(g)

\* The publisher assigns the ids of the pending results (the docstring of
\* IncrementalPublisher): every completed id was announced as pending.  The code
\* violates this for a group that fails before it is announced.
CompletedWasPending ==
  [][result' # result =>
       \A c \in result'.completed : c.id \in open \cup result'.pending]_allVars

\* The finally block leaves no task behind that was primed early, or belongs to
\* the operation itself (cancel_incremental_work).
NoTrackedWorkLeft ==
  closing = "done" => \A t \in Tasks : t \in rootTasks \cup tracked
                                         => comp[t] \notin {"early", "running"}

\* The iteration ends: after the last result, when the client gives up, or with the
\* error of an abort, which does not wait for resolvers that never end; and then the
\* finally block runs to its end.  A request for a batch that survives the client
\* ends as well, also when it was parked on the empty channel (_subscribe, cancel).
IterationEnds ==
  /\ <>(closing = "done" \/ sub = "abandoned")
  /\ sub = "detachedAsking" ~> sub = "detached"
  /\ sub = "detached" ~> phase \in {"yielded", "ended", "closed", "crashed"}
=============================================================================
