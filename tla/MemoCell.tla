------------------------------ MODULE MemoCell ------------------------------
(***************************************************************************)
(* What a memoized computation promises, independently of how it is run:   *)
(* the function is started at most once, and never after the cell has been *)
(* settled; the cell is settled at most once, its outcome is final, and    *)
(* everybody who is given an outcome is given that one.                    *)
(* The module Computation is shown to implement this specification.        *)
(***************************************************************************)
CONSTANTS Outcomes,   \* everything the cell can be settled with
          NoOutcome   \* the content of an unsettled cell

VARIABLES starts,     \* how often the function has been started
          outcome,    \* NoOutcome, or the final outcome
          answers     \* the outcomes that callers have been given

cellVars == <<starts, outcome, answers>>

CellInit == /\ starts = 0
            /\ outcome = NoOutcome
            /\ answers = {}

\* The function runs and its outcome is still to come.
Start == /\ starts = 0
         /\ outcome = NoOutcome
         /\ starts' = 1
         /\ UNCHANGED outcome

\* The running function ends, or the cell is given up (whether or not the
\* function has been started).
Settle == /\ outcome = NoOutcome
          /\ outcome' \in Outcomes
          /\ UNCHANGED starts

\* The function runs and ends within one call.
StartAndSettle == /\ starts = 0
                  /\ outcome = NoOutcome
                  /\ starts' = 1
                  /\ outcome' \in Outcomes

\* A caller is given the outcome, as soon as there is one.
Answer == outcome' # NoOutcome /\ answers' = answers \cup {outcome'}

CellNext == /\ Start \/ Settle \/ StartAndSettle \/ UNCHANGED <<starts, outcome>>
            /\ Answer \/ UNCHANGED answers

CellSpec == CellInit /\ [][CellNext]_cellVars
=============================================================================
