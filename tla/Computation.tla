---------------------------- MODULE Computation ----------------------------
(***************************************************************************)
(* The memoized abortable computation behind every execution group and     *)
(* every early stream item (execution/incremental/computation.py).         *)
(*                                                                         *)
(* The event loop is part of the model: the future that wraps an awaitable *)
(* result first gets done, and only in a later loop iteration runs its     *)
(* done callback `_settle'.  Any number of callers may prime, request the  *)
(* result of, or abort the computation in between.                         *)
(***************************************************************************)
EXTENDS Naturals

CONSTANTS Values,      \* what the function can return or its awaitable yield
          Reasons,     \* the exceptions it can raise, and the abort reasons
          NoReason,    \* abort() without a reason (Python's None)
          Cancelled,   \* a CancelledError
          NoOutcome    \* nothing memoized yet

VARIABLES status,      \* _status
          memo,        \* _value, once it is no longer the future
          future,      \* the future held by _value: its state
          result,      \* what the done future holds
          callback,    \* _settle is registered and has not run yet
          cancelling,  \* cancel() has been requested from the future
          fnCalls,     \* how often _fn has been called
          hookCalls,   \* how often _on_abort has been called
          returned     \* the settled outcomes result() has reported so far

vars == <<status, memo, future, result, callback, cancelling,
          fnCalls, hookCalls, returned>>

Fulfilled == [kind : {"value"}, val : Values]
Rejected  == [kind : {"error"}, val : Reasons \cup {NoReason, Cancelled}]
Outcomes  == Fulfilled \cup Rejected

ASSUME NoOutcomeAssumption == NoOutcome \notin Outcomes

Ok(v)  == [kind |-> "value", val |-> v]
Err(e) == [kind |-> "error", val |-> e]

\* What a coroutine can end with by itself: a value, an exception, or (when it
\* is cancelled by somebody, or raises it itself) a CancelledError.
FutureResults == Fulfilled \cup [kind : {"error"}, val : Reasons \cup {Cancelled}]

Init == /\ status = "new"
        /\ memo = NoOutcome
        /\ future = "none"
        /\ result = NoOutcome
        /\ callback = FALSE
        /\ cancelling = FALSE
        /\ fnCalls = 0
        /\ hookCalls = 0
        /\ returned = {}

-----------------------------------------------------------------------------
\* The function is called for the first and only time: it returns a value,
\* raises, or returns an awaitable which is scheduled as a future.
RunFn == /\ status = "new"
         /\ fnCalls' = fnCalls + 1
         /\ \/ \E v \in Values : /\ status' = "fulfilled"
                                 /\ memo' = Ok(v)
                                 /\ UNCHANGED <<future, callback>>
            \/ \E e \in Reasons : /\ status' = "rejected"
                                  /\ memo' = Err(e)
                                  /\ UNCHANGED <<future, callback>>
            \/ /\ status' = "pending"
               /\ future' = "running"
               /\ callback' = TRUE
               /\ UNCHANGED memo
         /\ UNCHANGED <<result, cancelling, hookCalls>>

\* prime(): the early return leaves everything as it is.
Prime == RunFn /\ UNCHANGED returned

\* What result() reports for a settled memo: a rejection without a reason is
\* reported as a CancelledError.
Reported(m) == IF m = Err(NoReason) THEN Err(Cancelled) ELSE m

\* result(): primes, then returns the value, raises, or hands out the future.
Result == /\ \/ RunFn
             \/ /\ status # "new"
                /\ UNCHANGED <<status, memo, future, result, callback,
                               cancelling, fnCalls, hookCalls>>
          /\ returned' = IF status' = "pending" THEN returned
                         ELSE returned \cup {Reported(memo')}

\* Mutant: the abort callback is run for a function that was never called.
PoisonWithHook(reason) == /\ status = "new"
                          /\ status' = "rejected"
                          /\ memo' = Err(reason)
                          /\ hookCalls' = hookCalls + 1
                          /\ UNCHANGED <<future, result, callback, cancelling,
                                         fnCalls, returned>>

\* abort() before the function has run: it will never run.
Poison(reason) == /\ status = "new"
                  /\ status' = "rejected"
                  /\ memo' = Err(reason)
                  /\ UNCHANGED <<future, result, callback, cancelling,
                                 fnCalls, hookCalls, returned>>

\* Mutant: the future is not cancelled.
AbortKeepingFuture(reason) ==
    /\ status = "pending"
    /\ status' = "rejected"
    /\ memo' = Err(reason)
    /\ hookCalls' = hookCalls + 1
    /\ UNCHANGED <<future, result, callback, cancelling, fnCalls, returned>>

\* abort() while the memo is still pending.  The future may already be done
\* with `_settle' waiting in the loop: cancel() then has no effect.
AbortPending(reason) ==
    /\ status = "pending"
    /\ status' = "rejected"
    /\ memo' = Err(reason)
    /\ cancelling' = (cancelling \/ future = "running")
    /\ hookCalls' = hookCalls + 1
    /\ UNCHANGED <<future, result, callback, fnCalls, returned>>

Abort == \E reason \in Reasons \cup {NoReason} :
            Poison(reason) \/ AbortPending(reason)

\* Mutants: the callback settles an aborted computation; it drops an exception; it
\* memoizes the bare exception in the place of a rejection.
SettleAborted ==
    /\ callback
    /\ future = "done"
    /\ callback' = FALSE
    /\ status' = IF result.kind = "value" THEN "fulfilled" ELSE "rejected"
    /\ memo' = result
    /\ UNCHANGED <<future, result, cancelling, fnCalls, hookCalls, returned>>
SettleBare ==
    /\ callback
    /\ future = "done"
    /\ callback' = FALSE
    /\ IF status = "pending"
       THEN /\ status' = IF result.kind = "value" THEN "fulfilled" ELSE "rejected"
            /\ memo' = IF result.kind = "value" THEN result ELSE result.val
       ELSE UNCHANGED <<status, memo>>
    /\ UNCHANGED <<future, result, cancelling, fnCalls, hookCalls, returned>>

\* _settle(): the done callback of the future.
SettleCallback ==
    /\ callback
    /\ future = "done"
    /\ callback' = FALSE
    /\ IF status = "pending"
       THEN /\ status' = IF result.kind = "value" THEN "fulfilled" ELSE "rejected"
            /\ memo' = result
       ELSE UNCHANGED <<status, memo>>
    /\ UNCHANGED <<future, result, cancelling, fnCalls, hookCalls, returned>>

-----------------------------------------------------------------------------
\* The coroutine behind the future: it may end on its own, be cancelled from
\* outside, or react to a cancellation in any way.
FutureDone == /\ future = "running"
              /\ future' = "done"
              /\ result' \in FutureResults
              /\ UNCHANGED <<status, memo, callback, cancelling,
                             fnCalls, hookCalls, returned>>

Next == Prime \/ Result \/ Abort \/ SettleCallback \/ FutureDone

\* The loop runs scheduled callbacks, and a coroutine whose cancellation has
\* been requested ends; one that nobody cancels may run forever.
Fairness == /\ WF_vars(SettleCallback)
            /\ WF_vars(cancelling /\ FutureDone)

Spec == Init /\ [][Next]_vars /\ Fairness

-----------------------------------------------------------------------------
TypeOK == /\ status \in {"new", "pending", "fulfilled", "rejected"}
          /\ memo \in Outcomes \cup {NoOutcome}
          /\ future \in {"none", "running", "done"}
          /\ result \in FutureResults \cup {NoOutcome}
          /\ callback \in BOOLEAN
          /\ cancelling \in BOOLEAN
          /\ fnCalls \in Nat
          /\ hookCalls \in Nat
          /\ returned \subseteq Outcomes

\* All callers of result() that get a settled outcome get the same one, however
\* their calls interleave with an abort and with the loop (result, _settle).
OneOutcome == \A o1, o2 \in returned : o1 = o2

\* The abort callback runs at most once, and only for a computation whose
\* function has been started (abort): an unprimed or settled one is not cleaned
\* up, so a computation that memoized a value has never run it.
HookOnlyForStarted == /\ hookCalls <= fnCalls
                      /\ fnCalls <= 1
                      /\ status = "fulfilled" => hookCalls = 0

\* The future is never left behind: while the memo is pending there is a future
\* whose callback will settle it (prime registers `_settle').
PendingHasCallback == status = "pending" => future # "none" /\ callback

\* Once the future is done the computation settles (_settle), and an aborted
\* computation does not leave its coroutine running (abort cancels the future).
DoneSettles == /\ (future = "done") ~> (status \in {"fulfilled", "rejected"})
               /\ (status = "rejected" /\ future = "running") ~> (future = "done")

\* The computation implements a write-once memo cell, of which result() reports the content.
Content(m) == IF m = NoOutcome THEN NoOutcome ELSE Reported(m)
Cell == INSTANCE MemoCell WITH starts <- fnCalls, outcome <- Content(memo), answers <- returned
ImplementsCell == Cell!CellSpec
=============================================================================
