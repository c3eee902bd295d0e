------------------------------- MODULE Execution -------------------------------
(***************************************************************************)
(* The execution of an operation (execution/executor.py): the positions of *)
(* the response are completed by coroutines of one event loop, errors null *)
(* the nearest nullable position, siblings are cancelled or left to settle *)
(* in the background, an abort signal interrupts it all, and a hook tells  *)
(* when nothing is running any more.                                       *)
(*                                                                         *)
(* A position stands for a Path.  Positions are numbered in the order in   *)
(* which a purely synchronous execution visits them; 0 is the root, which  *)
(* is the path None.  One step runs a coroutine up to its next await, with *)
(* all that it calls.                                                      *)
(***************************************************************************)
EXTENDS Integers, FiniteSets

CONSTANTS
  N,         \* the positions are 0..N
  Parent,    \* the object or list that a position other than 0 belongs to
  NonNull,   \* the positions with a non-null type
  Lists,     \* the positions with a list type: their sub-positions are items
  Sources,   \* the lists that may be given as an asynchronous iterable
  Deferred,  \* the objects with a deferred fragment
  Aborters   \* the resolvers that may trigger the abort signal themselves

Positions == 0..N

ASSUME TreeAssumption ==
  /\ N \in Nat
  /\ Parent \in [1..N -> Positions] /\ \A p \in 1..N : Parent[p] < p
  /\ NonNull \subseteq 1..N
  /\ Sources \subseteq Lists /\ Lists \subseteq 1..N
  /\ Deferred \subseteq Positions /\ Aborters \subseteq 1..N

VARIABLES
  signal,     \* an abort signal is given
  serial,     \* the root fields are executed serially
  resolver,   \* what each resolver returns: an answer, an "iterator", or "async"
  become,     \* what comes of that at once, before any await
  state,      \* how far the completion of each position has got
  doomed,     \* the coroutines that have been asked to cancel themselves
  running,    \* the positions whose resolver or source has asynchronous work to do
  background, \* the awaitables handed to settle_in_background()
  nulled,     \* collected_errors: the positions of the errors
  work,       \* the positions of the execution groups created
  aborted,    \* abort_signal.aborted
  sent,       \* the positions of the execution groups that are delivered
  outcome,    \* what the caller gets
  hook        \* the hook async_work_finished

given == <<signal, serial, resolver, become>>
vars == <<given, state, doomed, running, background, nulled, work, aborted, sent, outcome, hook>>

Answers == {"value", "null", "error"}
Returned(p) == Answers \cup (IF p \in Sources THEN {"iterator"} ELSE {})
Done == {"value", "null", "failed"}            \* completed; "failed": null, for an error
Settled == Done \cup {"raised", "cancelled", "dropped"}
Iterating == {"iterating", "closing"}          \* at anext(), or at the early return
Unfinished == {"waiting", "gathering", "failing"} \cup Iterating

Sub(p) == {c \in 1..N : Parent[c] = p}

\* The positions above p (Path.prev).
Above ==
  [p \in Positions |->
     {a \in Positions : \A S \in SUBSET Positions :
        /\ p # 0 => Parent[p] \in S
        /\ \A q \in S \ {0} : Parent[q] \in S
        => a \in S}]
Below(p) == {q \in Positions : p \in Above[q]}

\* Mutant: the positions above are not looked at.
HasNulledHere(p) == p \in nulled

\* collected_errors.has_nulled_position().
HasNulled(p) == nulled \cap ({p} \cup Above[p] \cup {0}) # {}

-----------------------------------------------------------------------------
(* The synchronous part: what a coroutine does before its next await.      *)

\* Mutant: a null is let through whatever the type.
NullIsFine(p, a, f) == a = "error" \/ (a = "value" /\ \E c \in Sub(p) : f[c] = "raised")

\* complete_value() raises, when the resolver of p has answered a and the
\* sub-positions of p have come out as in f.
Raises(p, a, f) ==
  \/ a = "error"
  \/ a = "null" /\ p \in NonNull
  \/ a = "value" /\ \E c \in Sub(p) : f[c] = "raised"

\* complete_value() with handle_field_error() around it.
Completed(p, a, f) ==
  IF Raises(p, a, f) THEN IF p \in NonNull THEN "raised" ELSE "failed"
  ELSE IF a = "iterator" THEN "iterating"
  ELSE IF a = "value" /\ \E c \in Sub(p) : f[c] \in Unfinished THEN "gathering" ELSE a

Answer(p) == IF resolver[p] = "abort" THEN "value" ELSE resolver[p]

\* execute_field(), complete_list_item_value(): what becomes of p at once.
AtOnce[p \in 1..N] ==
  IF resolver[p] = "async" THEN "waiting"
  ELSE Completed(p, Answer(p), [c \in Sub(p) |-> AtOnce[c]])

\* An earlier field of the selection set, or item of the list, has raised.
Stopped(c) == \E s \in Sub(Parent[c]) : s < c /\ become[s] = "raised"

\* The positions completed when those in F are, sub-positions included.
Visited(F) ==
  {q \in Positions : \E c \in F :
     /\ q \in {c} \cup Below(c)
     /\ \A a \in ({q} \cup Above[q]) \ ({c} \cup Above[c]) :
           ~Stopped(a) /\ Answer(Parent[a]) = "value"}

\* The fields or items of p that are executed, if it has a value.
Executed(p) == {c \in Sub(p) : ~Stopped(c)}

\* When one of them raises, the awaitables of the others, and those that the
\* iterator of a list still holds, are settled in the background; a list with an
\* asynchronous iterator first closes that.
RaisedBeside(q, V) == \E s \in V \cap Sub(Parent[q]) : become[s] = "raised"
Abandoned(V) == {q \in V : become[q] \in Unfinished /\ RaisedBeside(q, V)}
Drained(V) ==
  {q \in (1..N) \ V : /\ Parent[q] \in Lists /\ state[Parent[q]] # "iterating"
                      /\ resolver[q] = "async" /\ RaisedBeside(q, V)}
Collected(p) == {c \in Sub(p) : state[p] = "closing" /\ state[c] \in Unfinished}

\* p comes out as r, after the positions V have been visited.
Step(p, r, V) ==
  \E new \in {[q \in {p} \cup V |-> IF q = p THEN r ELSE become[q]]}, drained \in {Drained(V)} :
     /\ state' = [q \in Positions |-> IF q \in DOMAIN new THEN new[q]
                                     ELSE IF q \in drained THEN "drained" ELSE state[q]]
     /\ nulled' = nulled \cup {q \in DOMAIN new : new[q] = "failed" /\ ~HasNulled(q)}
     /\ background' = background \cup Abandoned(V) \cup drained \cup Collected(p)
     /\ work' = work \cup {q \in Deferred \cap DOMAIN new : new[q] \in {"value", "gathering"}}
     /\ aborted' = (aborted \/ \E q \in V : resolver[q] = "abort")

\* The resolvers called among V return awaitables or iterators, whose work is under way.
Launched(V) == {q \in V \cup Drained(V) : resolver[q] \in {"async", "iterator"}}

\* Mutant: an awaitable that raises stays in the set.
BackgroundSucceeded == \A b \in background : state[b] \in Done \cup {"dropped"}

\* The futures of settle_in_background() are done, and gone from the set.
BackgroundDone == \A b \in background : state[b] \in Settled

\* Mutant: the fragments are taken from the plan.
Planned == {t \in Deferred : ~HasNulled(t)}

\* get_incremental_work(): what was created under a position nulled since is
\* filtered out.
Deliverable == IF nulled = {} THEN work ELSE {t \in work : ~HasNulled(t)}

\* build_response() once the root is complete, and finish() when that happens
\* before the caller has got an awaitable; the root may be rejected as well.
Respond(atOnce) ==
  LET finished == IF BackgroundDone' THEN "run" ELSE "waiting"
      open     == state[0] \in {"idle", "gathering", "failing"}
  IN \/ /\ open /\ state'[0] \in {"value", "failed"}
        /\ sent' = Deliverable'
        /\ hook' = IF sent' = {} THEN finished ELSE hook
        /\ outcome' = IF outcome # "pending" \/ (signal /\ ~atOnce) THEN outcome
                      ELSE IF atOnce /\ aborted' THEN "aborted" ELSE "result"
     \/ /\ open /\ state'[0] = "rejected"
        /\ hook' = IF atOnce THEN hook ELSE finished
        /\ outcome' = IF atOnce THEN "raised" ELSE outcome
        /\ UNCHANGED sent
     \/ /\ ~open \/ state'[0] \notin {"value", "failed", "rejected"}
        /\ UNCHANGED <<sent, hook, outcome>>

-----------------------------------------------------------------------------
(* The root.                                                               *)

\* Mutant: an awaitable field does not hold up the next one.
RaisesOrAborts(c) ==
  become[c] = "raised" \/ \E q \in Visited({c}) : resolver[q] = "abort"

\* execute_fields_serially(): the fields from a given one on that are executed
\* before the next await, or before the loop ends.
Interrupts(c) ==
  \/ become[c] \in Unfinished \cup {"raised"}
  \/ \E q \in Visited({c}) : resolver[q] = "abort"
From(first) == {c \in Sub(0) : c >= first}
SerialFields(first) ==
  IF aborted THEN {} ELSE {c \in From(first) : \A s \in From(first) : s < c => ~Interrupts(s)}
SerialResult(first) ==
  LET F == SerialFields(first)
  IN IF \E c \in F : become[c] = "raised" THEN "failed"
     ELSE IF \E c \in F : become[c] \in Unfinished THEN "gathering"
     ELSE IF F = From(first) THEN "value" ELSE "rejected"

Init ==
  /\ signal \in BOOLEAN /\ serial \in BOOLEAN
  /\ resolver \in [1..N -> Answers \cup {"iterator", "async", "abort"}]
  /\ \A p \in 1..N : /\ resolver[p] = "iterator" => p \in Sources
                     /\ resolver[p] = "abort" => signal /\ p \in Aborters
  /\ become = AtOnce
  /\ state = [p \in Positions |-> "idle"]
  /\ doomed = {} /\ running = {} /\ background = {}
  /\ nulled = {} /\ work = {} /\ sent = {}
  /\ aborted \in (IF signal THEN BOOLEAN ELSE {FALSE})
  /\ outcome = "pending" /\ hook = "none"

\* execute_operation(), up to its first await.
Start ==
  /\ state[0] = "idle" /\ ~aborted
  /\ \E V \in {Visited(IF serial THEN SerialFields(1) ELSE Executed(0))} :
        /\ Step(0, IF serial THEN SerialResult(1) ELSE Completed(0, "value", become), V)
        /\ running' = Launched(V)
  /\ Respond(TRUE)
  /\ UNCHANGED <<given, doomed>>

StartAborted ==
  /\ state[0] = "idle" /\ aborted
  /\ state' = [state EXCEPT ![0] = "rejected"]
  /\ hook' = "run" /\ outcome' = "raised"
  /\ UNCHANGED <<given, doomed, running, background, nulled, work, aborted, sent>>

\* The reducer goes on when the field it has been waiting for is complete.
SerialNext ==
  /\ serial /\ state[0] = "gathering"
  /\ \A c \in Sub(0) : state[c] \in Done \cup {"idle"}
  /\ \E last \in {c \in Sub(0) : /\ state[c] # "idle"
                                 /\ \A d \in Sub(0) : d > c => state[d] = "idle"} :
     \E V \in {Visited(SerialFields(last + 1))} :
        /\ Step(0, SerialResult(last + 1), V)
        /\ running' = running \cup Launched(V)
  /\ Respond(FALSE)
  /\ UNCHANGED <<given, doomed>>

-----------------------------------------------------------------------------
(* The coroutines of the positions.                                        *)

\* Mutant: an answer that arrives together with the signal is used.
AllAnswers(p) == Returned(p)

\* with_abort_signal(): after an abort, whatever the resolver answers is
\* discarded and the abort error is raised.
Arriving(p) == IF aborted THEN {"error"} ELSE Returned(p)

\* complete_awaitable_value(), complete_awaitable_list_item_value(): the
\* resolver of p has come to an end.
Resolved(p) ==
  /\ state[p] = "waiting"
  /\ signal /\ p \in doomed => aborted
  /\ \E a \in Arriving(p) :
     \E V \in {IF a = "value" THEN Visited(Executed(p)) ELSE {}} :
          /\ Step(p, Completed(p, a, become), V)
          /\ running' = (IF a = "iterator" THEN running ELSE running \ {p}) \cup Launched(V)
  /\ Respond(FALSE)
  /\ UNCHANGED <<given, doomed>>

\* complete_async_iterator_value(): the source of p has the next item, which is
\* completed as far as it goes; its coroutine is not started before all items are there.
NextItem(p) ==
  /\ state[p] = "iterating" /\ ~aborted /\ ~(signal /\ p \in doomed)
  /\ \E c \in Sub(p) :
       /\ state[c] = "idle" /\ \A d \in Sub(p) : d < c => state[d] # "idle"
       /\ \E V \in {Visited({c})} :
            /\ Step(p, IF become[c] = "raised" THEN "closing" ELSE "iterating", V)
            /\ running' = running \cup Launched(V)
  /\ Respond(FALSE)
  /\ UNCHANGED <<given, doomed>>

\* The source of p has no more items ...
NoMoreItems(p) ==
  /\ state[p] = "iterating" /\ ~aborted /\ ~(signal /\ p \in doomed)
  /\ \A c \in Sub(p) : state[c] # "idle"
  /\ Step(p, Completed(p, "value", become), {})
  /\ running' = running \ {p}
  /\ Respond(FALSE)
  /\ UNCHANGED <<given, doomed>>

\* ... or fails, or is aborted: it is closed ...
SourceFails(p) ==
  /\ state[p] = "iterating"
  /\ signal /\ p \in doomed => aborted
  /\ state' = [state EXCEPT ![p] = "closing"]
  /\ UNCHANGED <<given, doomed, running, background, nulled, work, aborted, sent, outcome, hook>>

\* ... before the items collected so far are settled in the background.
SourceClosed(p) ==
  /\ state[p] = "closing"
  /\ Step(p, Completed(p, "error", become), {})
  /\ running' = running \ {p}
  /\ Respond(FALSE)
  /\ UNCHANGED <<given, doomed>>

\* All that p awaits, or holds until it will.
Holds(p) ==
  {q \in Below(p) : \A a \in ({q} \cup Above[q]) \ ({p} \cup Above[p]) :
                       state[a] \in Unfinished /\ a \notin background}

\* The items of an asynchronous iterator are not awaited while it is consumed.
Unstarted == UNION {Holds(p) : p \in {s \in Sources : state[s] \in Iterating}}

\* A coroutine that waits for its resolver, or for its source, is cancelled.  The
\* resolver, or the source, is cancelled with it, unless with_abort_signal() has made
\* a task of its own for it: the wait for that task and the signal ends, not the task.
\* The source is not closed, and the items collected so far are dropped.
Interrupted(p) ==
  /\ state[p] \in {"waiting"} \cup Iterating /\ p \in doomed
  /\ state' = [q \in Positions |-> IF q \in {p} \cup Holds(p) THEN "cancelled" ELSE state[q]]
  /\ running' = IF signal /\ state[p] # "closing" THEN running ELSE running \ {p}
  /\ UNCHANGED <<given, doomed, background, nulled, work, aborted, sent, outcome, hook>>

\* Asynchronous work that no coroutine completes a value with.
WorkEnds(p) ==
  /\ p \in running /\ state[p] \in {"cancelled", "drained"}
  /\ running' = running \ {p}
  /\ state' = [state EXCEPT ![p] = IF @ = "drained" THEN "dropped" ELSE @]
  /\ UNCHANGED <<given, doomed, background, nulled, work, aborted, sent, outcome, hook>>

Awaited(p) == {c \in Sub(p) : become[c] \in Unfinished}

\* The sub-positions are awaited with gather_with_cancel().
Several(p) == Cardinality(Awaited(p)) > 1 /\ ~(p = 0 /\ serial)

\* What task.cancel() reaches below p: all that is being awaited.
LiveBelow(p) == Holds(p) \ Unstarted

\* get_results(), get_completed_results(): everything awaited is there.  A
\* cancelled gather() raises also when no part of it was cancelled.
Collect(p) ==
  /\ state[p] = "gathering" /\ ~(p = 0 /\ serial)
  /\ \A c \in Sub(p) : state[c] \in Done
  /\ Step(p, IF p \in doomed /\ Several(p) THEN "cancelled" ELSE "value", {})
  /\ Respond(FALSE)
  /\ UNCHANGED <<given, doomed, running>>

\* The first exception cancels what else is awaited ...
SiblingFails(p) ==
  /\ state[p] = "gathering" /\ Several(p)
  /\ \E c \in Sub(p) : state[c] = "raised"
  /\ state' = [state EXCEPT ![p] = "failing"]
  /\ doomed' = (doomed \ {p}) \cup LiveBelow(p)
  /\ UNCHANGED <<given, running, background, nulled, work, aborted, sent, outcome, hook>>

\* ... and is raised once all of that has come to an end.
Fails(p) ==
  /\ \/ state[p] = "failing" /\ \A c \in Awaited(p) : state[c] \in Settled
     \/ state[p] = "gathering" /\ ~Several(p) /\ \E c \in Sub(p) : state[c] = "raised"
  /\ Step(p, IF state[p] = "failing" /\ p \in doomed THEN "cancelled"
             ELSE Completed(p, "error", become), {})
  /\ Respond(FALSE)
  /\ UNCHANGED <<given, doomed, running>>

\* gather(), or the await of a single coroutine, ends with the first
\* cancellation among what it waits for.
CancelSpreads(p) ==
  /\ state[p] = "gathering" /\ \E c \in Sub(p) : state[c] = "cancelled"
  /\ state' = [state EXCEPT ![p] = "cancelled"]
  /\ UNCHANGED <<given, doomed, running, background, nulled, work, aborted, sent, outcome, hook>>

-----------------------------------------------------------------------------
(* The abort signal, the result and the hook.                              *)

\* External: the abort controller is told to abort.
Abort ==
  /\ signal /\ ~aborted /\ outcome = "pending"
  /\ aborted' = TRUE
  /\ UNCHANGED <<given, state, doomed, running, background, nulled, work, sent, outcome, hook>>

\* with_aborted_execution_error(), when the result or the signal is there.
Deliver ==
  /\ outcome = "pending" /\ signal /\ state[0] # "idle"
  /\ aborted \/ state[0] \in {"value", "failed", "rejected"}
  /\ outcome' = IF aborted THEN "aborted" ELSE "result"
  /\ UNCHANGED <<given, state, doomed, running, background, nulled, work, aborted, sent, hook>>

\* wait_and_run_hook().
RunHook ==
  /\ hook = "waiting" /\ BackgroundDone
  /\ hook' = "run"
  /\ UNCHANGED <<given, state, doomed, running, background, nulled, work, aborted, sent, outcome>>

Coroutine(p) ==
  \/ Interrupted(p) \/ Collect(p) \/ SiblingFails(p) \/ Fails(p) \/ CancelSpreads(p)
Resolver(p) == Resolved(p) \/ WorkEnds(p)
Source(p) == NextItem(p) \/ NoMoreItems(p) \/ SourceFails(p) \/ SourceClosed(p)
Progress ==
  \/ Start \/ StartAborted \/ SerialNext \/ Deliver \/ RunHook
  \/ \E p \in Positions \ Unstarted : Coroutine(p) \/ Resolver(p) \/ Source(p)
Next == Progress \/ Abort

\* The event loop runs what is ready, and resolvers come to an end.
Spec == Init /\ [][Next]_vars /\ WF_vars(Progress)

-----------------------------------------------------------------------------
\* The types of the variables; execution groups are announced only if they
\* have been created (incremental_executor.py:517-555).
TypeOK ==
  /\ signal \in BOOLEAN /\ serial \in BOOLEAN /\ aborted \in BOOLEAN
  /\ resolver \in [1..N -> Answers \cup {"iterator", "async", "abort"}]
  /\ become \in [1..N -> Done \cup {"raised", "waiting", "gathering", "iterating"}]
  /\ state \in [Positions -> Settled \cup Unfinished \cup {"idle", "drained", "rejected"}]
  /\ doomed \subseteq Positions /\ running \subseteq Positions
  /\ background \subseteq Positions /\ nulled \subseteq Positions
  /\ work \subseteq Deferred /\ sent \subseteq work
  /\ outcome \in {"pending", "result", "aborted", "raised"}
  /\ hook \in {"none", "waiting", "run"}

\* build_response() has been called.
Built == state[0] \in {"value", "failed"}

\* The client reaches the position p in the data.
InData(p) == \A a \in Above[p] : state[a] = "value"

\* The response is well-formed (executor.py:852-925): every position in the
\* data is complete, none with a non-null type is null, and those which are
\* null for an error are exactly those for which an error is reported.
ResponseIsSound ==
  Built => \A p \in Positions : InData(p) =>
             /\ state[p] \in {"value"} \cup (IF p \in NonNull THEN {} ELSE {"null", "failed"})
             /\ state[p] = "failed" <=> p \in nulled

\* The list of errors is final when the response is built, although it is
\* handed out as it is and siblings of a nulled position are still running
\* (executor.py:182-206, 1058).
ErrorsAreFinal == [][Built => nulled' = nulled]_vars

\* The deferred fragments announced with the initial result are those whose
\* position the client finds in the data (incremental_executor.py:517-555).
WorkHasParent == Built => sent = {t \in Deferred : InData(t) /\ state[t] = "value"}

\* A root field of a mutation, or anything below it, is only executed when
\* the ones before it are complete, with all that is in their data; what is
\* left below a null may still run (executor.py:573-619, settle_in_background).
Complete(c) == \A q \in {c} \cup Below(c) :
                  (\A a \in Above[q] \ {0} : state[a] = "value") => state[q] \in Done
SerialOrder ==
  serial => \A c, d \in Sub(0) : c < d /\ (\E q \in {d} \cup Below(d) : state[q] # "idle")
                                   => Complete(c)

\* Once the signal has been triggered, no coroutine goes on to execute
\* fields: a late answer is discarded (executor.py:932-962, 592-596).
NoCallAfterAbort ==
  [][aborted => \A p \in Positions : state[p] = "idle" => state'[p] = "idle" \/ p = 0]_vars

\* The hook is run after every response without incremental work, also when
\* awaitables that raise are settled in the background
\* (executor.py:1102-1128).
HookFollows == (Built /\ sent = {}) ~> (hook = "run")
================================================================================
