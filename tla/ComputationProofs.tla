------------------------- MODULE ComputationProofs -------------------------
(***************************************************************************)
(* Computation keeps its type, reports one outcome only, and implements    *)
(* the write-once cell of MemoCell, for all values and reasons.            *)
(***************************************************************************)
EXTENDS Computation, TLAPS

\* The bookkeeping behind the properties: what each status says of the memo, of
\* the future, and of the calls made so far.
NewIsUntouched == status = "new" => /\ memo = NoOutcome
                                    /\ future = "none"
                                    /\ fnCalls = 0
                                    /\ hookCalls = 0
                                    /\ returned = {}

PendingIsRunning == status = "pending" => /\ memo = NoOutcome
                                          /\ future # "none"
                                          /\ callback
                                          /\ fnCalls = 1
                                          /\ hookCalls = 0
                                          /\ returned = {}

SettledIsFinal == /\ status = "fulfilled" => memo \in Fulfilled /\ hookCalls = 0
                  /\ status = "rejected" => memo \in Rejected
                  /\ \A o \in returned : o = Reported(memo)

CallsAreBounded == /\ fnCalls \in {0, 1}
                   /\ hookCalls <= fnCalls
                   /\ future = "done" => result \in FutureResults

IInv == /\ TypeOK
        /\ NewIsUntouched
        /\ PendingIsRunning
        /\ SettledIsFinal
        /\ CallsAreBounded

\* What a rejection without a reason is reported as is an outcome again.
LEMMA ReportedIsOutcome ==
  ASSUME NEW m \in Outcomes
  PROVE  Reported(m) \in Outcomes
BY DEF Reported, Outcomes, Rejected, Fulfilled, Err

LEMMA InitInv == Init => IInv
<1> SUFFICES ASSUME Init PROVE IInv
  OBVIOUS
<1>1. TypeOK
  BY DEF Init, TypeOK
<1>2. NewIsUntouched /\ PendingIsRunning /\ SettledIsFinal
  BY DEF Init, NewIsUntouched, PendingIsRunning, SettledIsFinal
<1>3. CallsAreBounded
  BY DEF Init, CallsAreBounded
<1> QED BY <1>1, <1>2, <1>3 DEF IInv

\* Calling the function keeps the invariant, whatever `returned' becomes.
LEMMA RunFnInv ==
  ASSUME IInv, RunFn
  PROVE  /\ status' \in {"pending", "fulfilled", "rejected"}
         /\ status' = "pending" => /\ memo' = NoOutcome
                                   /\ future' = "running"
                                   /\ callback'
         /\ status' = "fulfilled" => memo' \in Fulfilled
         /\ status' = "rejected" => memo' \in Rejected
         /\ memo' \in Outcomes \cup {NoOutcome}
         /\ status' # "pending" => memo' \in Outcomes
         /\ future' \in {"none", "running"}
         /\ callback' \in BOOLEAN
         /\ fnCalls' = 1
         /\ hookCalls' = 0
         /\ returned = {}
         /\ UNCHANGED <<result, cancelling>>
<1>1. /\ status = "new" /\ memo = NoOutcome /\ future = "none"
      /\ fnCalls = 0 /\ hookCalls = 0 /\ returned = {}
      /\ callback \in BOOLEAN
  BY DEF RunFn, IInv, NewIsUntouched, TypeOK
<1>2. CASE \E v \in Values : /\ status' = "fulfilled"
                             /\ memo' = Ok(v)
                             /\ UNCHANGED <<future, callback>>
  <2>1. memo' \in Fulfilled
    BY <1>2 DEF Ok, Fulfilled
  <2> QED
    BY <1>1, <1>2, <2>1 DEF RunFn, Outcomes
<1>3. CASE \E e \in Reasons : /\ status' = "rejected"
                              /\ memo' = Err(e)
                              /\ UNCHANGED <<future, callback>>
  <2>1. memo' \in Rejected
    BY <1>3 DEF Err, Rejected
  <2> QED
    BY <1>1, <1>3, <2>1 DEF RunFn, Outcomes
<1>4. CASE /\ status' = "pending"
           /\ future' = "running"
           /\ callback' = TRUE
           /\ UNCHANGED memo
  BY <1>1, <1>4 DEF RunFn
<1> QED
  BY <1>2, <1>3, <1>4 DEF RunFn

LEMMA NextInv == IInv /\ [Next]_vars => IInv'
<1> SUFFICES ASSUME IInv, [Next]_vars
             PROVE  IInv'
  OBVIOUS
<1> USE DEF IInv
<1>1. CASE Prime
  BY <1>1, RunFnInv DEF Prime, TypeOK, NewIsUntouched, PendingIsRunning,
     SettledIsFinal, CallsAreBounded
<1>2. CASE Result
  <2>1. CASE RunFn
    <3>1. returned' = IF status' = "pending" THEN {} ELSE {Reported(memo')}
      BY <1>2, <2>1, RunFnInv DEF Result
    <3>2. returned' \subseteq Outcomes
      BY <2>1, <3>1, RunFnInv, ReportedIsOutcome
    <3> QED
      BY <2>1, <3>1, <3>2, RunFnInv DEF TypeOK, NewIsUntouched,
         PendingIsRunning, SettledIsFinal, CallsAreBounded
  <2>2. CASE /\ status # "new"
             /\ UNCHANGED <<status, memo, future, result, callback,
                            cancelling, fnCalls, hookCalls>>
    <3>1. CASE status = "pending"
      BY <1>2, <2>2, <3>1 DEF Result, TypeOK, NewIsUntouched,
         PendingIsRunning, SettledIsFinal, CallsAreBounded
    <3>2. CASE status # "pending"
      <4>1. memo \in Outcomes
        BY <2>2, <3>2 DEF TypeOK, SettledIsFinal, Outcomes
      <4>2. Reported(memo) \in Outcomes
        BY <4>1, ReportedIsOutcome
      <4>3. returned' = returned \cup {Reported(memo)}
        BY <1>2, <2>2, <3>2 DEF Result, Reported
      <4>4. Reported(memo)' = Reported(memo)
        BY <2>2 DEF Reported
      <4> QED
        BY <2>2, <3>2, <4>2, <4>3, <4>4 DEF TypeOK, NewIsUntouched,
           PendingIsRunning, SettledIsFinal, CallsAreBounded
    <3> QED BY <3>1, <3>2
  <2> QED BY <1>2, <2>1, <2>2 DEF Result
<1>3. CASE Abort
  <2>1. PICK reason \in Reasons \cup {NoReason} :
               Poison(reason) \/ AbortPending(reason)
    BY <1>3 DEF Abort
  <2>2. Err(reason) \in Rejected
    BY DEF Err, Rejected
  <2>3. CASE Poison(reason)
    BY <2>2, <2>3 DEF Poison, TypeOK, NewIsUntouched, PendingIsRunning,
       SettledIsFinal, CallsAreBounded, Outcomes
  <2>4. CASE AbortPending(reason)
    BY <2>2, <2>4 DEF AbortPending, TypeOK, NewIsUntouched, PendingIsRunning,
       SettledIsFinal, CallsAreBounded, Outcomes
  <2> QED BY <2>1, <2>3, <2>4
<1>4. CASE SettleCallback
  <2>1. result \in FutureResults
    BY <1>4 DEF SettleCallback, CallsAreBounded
  <2>2. /\ result.kind = "value" => result \in Fulfilled
        /\ result.kind # "value" => result \in Rejected
    BY <2>1 DEF FutureResults, Fulfilled, Rejected
  <2>3. CASE status = "pending"
    <3>1. /\ status' \in {"fulfilled", "rejected"}
          /\ memo' \in Outcomes
          /\ status' = "fulfilled" => memo' \in Fulfilled
          /\ status' = "rejected" => memo' \in Rejected
          /\ returned' = {} /\ hookCalls' = 0 /\ callback' = FALSE
      BY <1>4, <2>2, <2>3 DEF SettleCallback, PendingIsRunning, Outcomes
    <3> QED
      BY <1>4, <3>1 DEF SettleCallback, TypeOK, NewIsUntouched,
         PendingIsRunning, SettledIsFinal, CallsAreBounded
  <2>4. CASE status # "pending"
    BY <1>4, <2>4 DEF SettleCallback, TypeOK, NewIsUntouched,
       PendingIsRunning, SettledIsFinal, CallsAreBounded, Reported
  <2> QED BY <2>3, <2>4
<1>5. CASE FutureDone
  BY <1>5 DEF FutureDone, TypeOK, NewIsUntouched, PendingIsRunning,
     SettledIsFinal, CallsAreBounded, Reported
<1>6. CASE UNCHANGED vars
  BY <1>6 DEF vars, TypeOK, NewIsUntouched, PendingIsRunning,
     SettledIsFinal, CallsAreBounded, Reported
<1> QED
  BY <1>1, <1>2, <1>3, <1>4, <1>5, <1>6 DEF Next

\* The strengthened invariant holds in every reachable state.
THEOREM Invariance == Spec => []IInv
BY InitInv, NextInv, PTL DEF Spec

\* Every variable keeps its type (execution/incremental/computation.py).
THEOREM TypeCorrect == Spec => []TypeOK
<1>1. IInv => TypeOK
  BY DEF IInv
<1> QED BY Invariance, <1>1, PTL

\* All callers of result() that get a settled outcome get the same one.
THEOREM OneOutcomeHolds == Spec => []OneOutcome
<1>1. IInv => OneOutcome
  BY DEF IInv, SettledIsFinal, OneOutcome
<1> QED BY Invariance, <1>1, PTL

\* The abort callback runs at most once, only for a computation whose function
\* has been started, and never for one that memoized a value.
THEOREM HookOnlyForStartedHolds == Spec => []HookOnlyForStarted
<1>1. IInv => HookOnlyForStarted
  BY DEF IInv, TypeOK, SettledIsFinal, CallsAreBounded, HookOnlyForStarted
<1> QED BY Invariance, <1>1, PTL

\* A pending memo always has a future whose callback will settle it.
THEOREM PendingHasCallbackHolds == Spec => []PendingHasCallback
<1>1. IInv => PendingHasCallback
  BY DEF IInv, PendingIsRunning, PendingHasCallback
<1> QED BY Invariance, <1>1, PTL

\* What is reported of a memo is an outcome, exactly if there is one.
LEMMA ContentIsReported ==
  /\ Content(NoOutcome) = NoOutcome
  /\ \A m \in Outcomes : Content(m) = Reported(m) /\ Content(m) \in Outcomes /\ Content(m) # NoOutcome
BY NoOutcomeAssumption, ReportedIsOutcome DEF Content

\* Every behaviour of the computation is one of the write-once cell: its
\* function runs at most once, never after an abort, its outcome is final, and
\* all callers are given this outcome.
THEOREM ImplementsCellHolds == Spec => ImplementsCell
<1>1. Init => Cell!CellInit
  BY ContentIsReported DEF Init, Cell!CellInit
<1>2. ASSUME IInv, [Next]_vars
      PROVE  Cell!CellNext \/ UNCHANGED <<fnCalls, Content(memo), returned>>
  <2> DEFINE Stays == UNCHANGED <<fnCalls, Content(memo)>>
             Answers == \/ Content(memo') # NoOutcome /\ returned' = returned \cup {Content(memo')}
                        \/ UNCHANGED returned
  <2>1. ASSUME RunFn PROVE Cell!Start \/ Cell!StartAndSettle
    <3>1. fnCalls = 0 /\ Content(memo) = NoOutcome
      BY <1>2, <2>1, ContentIsReported DEF IInv, RunFn, NewIsUntouched
    <3>2. CASE status' = "pending"
      BY <1>2, <2>1, <3>1, <3>2, RunFnInv, ContentIsReported DEF Cell!Start
    <3>3. CASE status' # "pending"
      BY <1>2, <2>1, <3>1, <3>3, RunFnInv, ContentIsReported DEF Cell!StartAndSettle
    <3> QED BY <3>2, <3>3
  <2>2. ASSUME Abort PROVE Cell!Settle /\ UNCHANGED returned
    <3>1. PICK reason \in Reasons \cup {NoReason} :
                 Poison(reason) \/ AbortPending(reason)
      BY <2>2 DEF Abort
    <3>2. Err(reason) \in Outcomes
      BY DEF Err, Outcomes, Rejected
    <3>3. memo = NoOutcome /\ memo' = Err(reason) /\ UNCHANGED <<fnCalls, returned>>
      BY <1>2, <3>1 DEF IInv, Poison, AbortPending, NewIsUntouched, PendingIsRunning
    <3> QED BY <3>2, <3>3, ContentIsReported DEF Cell!Settle
  <2>3. ASSUME SettleCallback PROVE (Cell!Settle \/ Stays) /\ UNCHANGED returned
    <3>1. CASE status = "pending"
      <4>1. memo = NoOutcome /\ memo' = result /\ UNCHANGED <<fnCalls, returned>>
        BY <1>2, <2>3, <3>1 DEF IInv, SettleCallback, PendingIsRunning
      <4>2. result \in FutureResults
        BY <1>2, <2>3 DEF IInv, SettleCallback, CallsAreBounded
      <4>3. result \in Outcomes
        BY <4>2 DEF FutureResults, Outcomes, Rejected, Fulfilled
      <4> QED BY <4>1, <4>3, ContentIsReported DEF Cell!Settle
    <3>2. CASE status # "pending"
      BY <2>3, <3>2 DEF SettleCallback, Content, Reported
    <3> QED BY <3>1, <3>2
  <2>4. ASSUME Result PROVE Answers
    <3>1. status' # "pending" => memo' \in Outcomes
      <4>1. CASE RunFn
        BY <1>2, <4>1, RunFnInv
      <4>2. CASE status # "new" /\ UNCHANGED <<status, memo>>
        BY <1>2, <4>2 DEF IInv, TypeOK, SettledIsFinal, Outcomes
      <4> QED BY <2>4, <4>1, <4>2 DEF Result
    <3>2. returned' = IF status' = "pending" THEN returned ELSE returned \cup {Reported(memo')}
      BY <2>4 DEF Result
    <3>3. memo' \in Outcomes => Content(memo') = Reported(memo') /\ Content(memo') # NoOutcome
      BY ContentIsReported
    <3> QED BY <3>1, <3>2, <3>3
  <2>5. ASSUME Result, ~ RunFn PROVE Stays
    BY <2>5 DEF Result, Content, Reported
  <2>6. ASSUME FutureDone \/ UNCHANGED vars PROVE Stays /\ UNCHANGED returned
    BY <2>6 DEF FutureDone, vars, Content, Reported
  <2>7. Cell!Answer <=> Content(memo)' # NoOutcome /\ returned' = returned \cup {Content(memo)'}
    BY DEF Cell!Answer
  <2> QED BY <1>2, <2>1, <2>2, <2>3, <2>4, <2>5, <2>6, <2>7 DEF Next, Prime, Cell!CellNext, Content, Reported
<1> QED
  BY <1>1, <1>2, Invariance, PTL DEF Spec, ImplementsCell, Cell!CellSpec, Cell!cellVars
=============================================================================
