------------------------------ MODULE Delivery ------------------------------
(***************************************************************************)
(* What incremental delivery promises to a client, independently of how    *)
(* the work is grouped and scheduled: a sequence of results, of which each *)
(* may announce ids as pending, deliver values for ids that are pending,   *)
(* and complete ids; every value is delivered at most once, nothing is     *)
(* said of an id before it is announced or after it is completed, and a    *)
(* result is known to be the last exactly when it leaves nothing pending.  *)
(*                                                                         *)
(* There is one exception, for which the code is responsible: a failure    *)
(* may be reported for an id that has never been announced.  Such an id is *)
(* new, and no value is ever delivered for it.  The module                 *)
(* IncrementalPublisher is shown to implement this specification.          *)
(***************************************************************************)
EXTENDS Integers

CONSTANTS Values,   \* what is delivered with the deferred groups
          Item      \* stands for the items of a stream

VARIABLES open,     \* the ids that are pending for the client
          used,     \* the ids that may not be announced any more
          received, \* the values that the client has received
          result    \* the last result

clientVars == <<open, used, received, result>>

\* What a result delivers, and which ids it completes.
Delivered(r)    == {i.task : i \in r.incremental} \ {Item}
CompletedIds(r) == {c.id : c \in r.completed}

DeliveryInit == /\ used \subseteq Nat
                /\ open \subseteq used
                /\ received = {}
                /\ result.hasNext

\* Ids are announced once.
AnnouncesNew(r) == /\ r.pending \cap used = {}
                   /\ r.pending \subseteq used'

\* Values are delivered once, for an id that is pending.
DeliversOnce(r) ==
  /\ \A i \in r.incremental : i.id \in open \cup r.pending
  /\ Delivered(r) \subseteq Values \ received
  /\ \A i, j \in r.incremental : i.task = j.task /\ i.task # Item => i = j
  /\ received' = received \cup Delivered(r)

\* What is completed is pending, or the failure of something the client has not been
\* told of; and it is over.
CompletesPending(r) ==
  /\ \A c \in r.completed : \/ c.id \in open \cup r.pending
                            \/ ~ c.ok /\ c.id \in used' \ used
  /\ \A c, d \in r.completed : c.id = d.id => c = d
  /\ open' = (open \cup r.pending) \ CompletedIds(r)

\* A result, which follows another one that was not the last.
Send(r) == /\ result.hasNext
           /\ used \subseteq used' /\ used' \subseteq Nat
           /\ AnnouncesNew(r)
           /\ DeliversOnce(r)
           /\ CompletesPending(r)
           /\ r.hasNext <=> open' # {}

DeliverySpec == DeliveryInit /\ [][Send(result')]_clientVars
=============================================================================
