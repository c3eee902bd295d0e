----------------------- MODULE StreamItemQueueProofs -----------------------
(***************************************************************************)
(* The queue of a stream delivers the items in the order of the source and *)
(* without gaps, is bounded, and runs its cleanup last, for any capacity   *)
(* and any number of items and aborts.                                     *)
(***************************************************************************)
EXTENDS StreamItemQueue, TLAPS

Markers == {END, ERROR}

\* The consumer may still deliver something.
Live == consumer \in {"new", "getting", "awaiting", "yielded"}

\* The producer may still pull an item.
CanPull == producer \in {"starting", "pulling", "pushing"} /\ ~ cancelling

\* The items that have left the queue for a batch, or to be held back.
Passed == Len(delivered) + (IF held \in Items THEN 1 ELSE 0)

\* As long as something may be delivered, what is held back and what is in the queue
\* are the next items of the source.
ItemsFollow ==
  Live => /\ held \in Items => held = Len(delivered) + 1
          /\ \A i \in DOMAIN entries : entries[i] \in Items => entries[i] = Passed + i

\* Nothing comes behind the end or the failure of the source.
MarkerIsLast ==
  /\ \A i \in DOMAIN entries :
        entries[i] \in Markers => i = Len(entries) /\ producer = "done"
  /\ held \in Markers => entries = <<>> /\ producer = "done"

\* What has been pulled is delivered, held back, in the queue, or about to be pushed:
\* for as long as the producer may pull more, and when the consumer sees the end.
NothingIsLost ==
  /\ producer \in {"none", "starting"} =>
        pulled = 0 /\ entries = <<>> /\ held = NONE /\ delivered = <<>>
  /\ CanPull => pulled = Passed + Len(entries) + (IF producer = "pushing" THEN 1 ELSE 0)
  /\ Live /\ producer = "parked" /\ finished => pulled = Passed + Len(entries)
  /\ Live => \A i \in DOMAIN entries :
        entries[i] = END => finished /\ pulled = Passed + Len(entries) - 1
  /\ Live /\ held = END => finished /\ pulled = Len(delivered)
  /\ Live /\ stopped => held = END

\* The producer of a queue that is finished or aborted pulls nothing more, and items
\* are only cancelled then, or with the consumer.
AbortedIsFinal ==
  /\ finished => producer \in {"parked", "done", "cancelled"}
  /\ aborted => ~ CanPull
  /\ consumer = "cleanup" => aborted
  /\ \A i \in Items : item[i] \in {"cancelling", "cancelled"} =>
        aborted \/ consumer = "cancelled"

\* A cleanup that awaits the items, or is done, finds no producer.
NothingResumes ==
  /\ consumer = "settling" => ~ Running
  /\ cleaner # "none" => aborted
  /\ cleaner \in {"settling", "done"} => ~ Running
  /\ cleaner = "done" => Pending = {}

QueueInv == OrderIsKept /\ ItemsFollow /\ MarkerIsLast /\ NothingIsLost

IInv == BoundedAhead /\ QueueInv /\ AbortedIsFinal /\ NothingResumes

LEMMA InitInv == Init => IInv
<1> SUFFICES ASSUME Init PROVE IInv
  OBVIOUS
<1>1. TypeOK
  <2>1. /\ pulled \in 0..MaxItems /\ closings \in Nat /\ aborts \in 0..MaxAborts
        /\ entries \in Seq(Items \cup {END, ERROR}) /\ Len(entries) <= Capacity
        /\ delivered \in Seq(Items)
    BY QueueAssumption DEF Init
  <2>2. /\ producer \in {"none", "starting"}
        /\ item \in [Items -> {"none", "pending", "cancelling", "ok", "failed", "cancelled"}]
    BY DEF Init
  <2> QED BY <2>1, <2>2 DEF Init, TypeOK
<1>2. QueueInv
  BY DEF Init, QueueInv, OrderIsKept, ItemsFollow, MarkerIsLast, NothingIsLost, CanPull, Passed,
         Markers, Items, NONE, END, ERROR
<1>3. AbortedIsFinal /\ NothingResumes
  BY DEF Init, AbortedIsFinal, NothingResumes
<1>4. pulled - Len(delivered) <= Capacity + 2
  BY QueueAssumption DEF Init
<1> QED BY <1>1, <1>2, <1>3, <1>4 DEF IInv, BoundedAhead

-----------------------------------------------------------------------------
(* Steps that leave the queue alone.                                        *)

queueVars == <<entries, held, delivered, pulled, finished, stopped>>

\* Neither side gets any further than it was.
QuietSides ==
  /\ UNCHANGED queueVars
  /\ Live' => Live
  /\ producer' = "done" <=> producer = "done"
  /\ producer' = "parked" => producer = "parked"
  /\ producer' \in {"none", "starting"} => producer \in {"none", "starting"}
  /\ CanPull' => /\ CanPull \/ producer = "none"
                 /\ producer' = "pushing" <=> producer = "pushing"

LEMMA QuietInv ==
  ASSUME IInv, QuietSides
  PROVE  QueueInv' /\ pulled' - Len(delivered') <= Capacity + 2
<1>1. /\ UNCHANGED <<entries, held, delivered, pulled, finished, stopped>>
      /\ UNCHANGED Passed
  BY DEF QuietSides, queueVars, Passed
<1>2. OrderIsKept' /\ ItemsFollow' /\ MarkerIsLast'
  BY <1>1 DEF QuietSides, IInv, QueueInv, OrderIsKept, ItemsFollow, MarkerIsLast
<1>3. NothingIsLost'
  <2>1. CanPull' => pulled' = Passed' + Len(entries')
                                      + (IF producer' = "pushing" THEN 1 ELSE 0)
    <3>1. CASE producer = "none"
      <4>1. Len(delivered) = 0 /\ Len(entries) = 0 /\ pulled = 0 /\ held = NONE
        BY <3>1 DEF IInv, QueueInv, NothingIsLost
      <4> QED BY <1>1, <3>1, <4>1 DEF QuietSides, Passed, Items, NONE
    <3>2. CASE CanPull
      BY <1>1, <3>2 DEF QuietSides, IInv, QueueInv, NothingIsLost
    <3> QED BY <3>1, <3>2 DEF QuietSides
  <2> QED BY <1>1, <2>1 DEF QuietSides, IInv, QueueInv, NothingIsLost
<1>4. pulled' - Len(delivered') <= Capacity + 2
  BY <1>1 DEF IInv, BoundedAhead
<1> QED BY <1>2, <1>3, <1>4 DEF QueueInv

\* Cancelling the items keeps their type, and leaves none that was not pending.
LEMMA CancelledItems ==
  ASSUME TypeOK, item' = CancelItems
  PROVE  /\ item' \in [Items -> {"none", "pending", "cancelling", "ok", "failed", "cancelled"}]
         /\ Pending' = Pending
BY DEF TypeOK, CancelItems, Pending

LEMMA RunProducerInv == IInv /\ RunProducer => IInv'
<1> SUFFICES ASSUME IInv, RunProducer PROVE IInv'
  OBVIOUS
<1>1. TypeOK'
  BY DEF IInv, BoundedAhead, TypeOK, RunProducer, Produce, consVars, abortVars
<1>2. QuietSides
  BY DEF RunProducer, Produce, consVars, QuietSides, queueVars, Live, CanPull
<1>3. AbortedIsFinal' /\ NothingResumes'
  BY DEF IInv, AbortedIsFinal, NothingResumes, RunProducer, Produce, consVars, abortVars,
         CanPull, Running, Pending
<1> QED BY <1>1, <1>2, <1>3, QuietInv DEF IInv, BoundedAhead

LEMMA SourceFailsInv == IInv /\ SourceFails => IInv'
<1> SUFFICES ASSUME IInv, SourceFails PROVE IInv'
  OBVIOUS
<1>1. TypeOK' /\ Pending' = Pending
  BY CancelledItems
     DEF IInv, BoundedAhead, TypeOK, SourceFails, Produce, consVars, abortVars
<1>2. QuietSides
  BY DEF SourceFails, Produce, consVars, QuietSides, queueVars, Live, CanPull
<1>3. AbortedIsFinal' /\ NothingResumes'
  BY <1>1 DEF IInv, AbortedIsFinal, NothingResumes, SourceFails, Produce, consVars, abortVars,
              CanPull, Running
<1> QED BY <1>1, <1>2, <1>3, QuietInv DEF IInv, BoundedAhead

LEMMA CloseSourceInv == IInv /\ CloseSource => IInv'
<1> SUFFICES ASSUME IInv, CloseSource PROVE IInv'
  OBVIOUS
<1>1. TypeOK'
  BY DEF IInv, BoundedAhead, TypeOK, CloseSource, Produce, consVars, abortVars
<1>2. QuietSides
  BY DEF CloseSource, Produce, consVars, QuietSides, queueVars, Live, CanPull
<1>3. AbortedIsFinal' /\ NothingResumes'
  BY DEF IInv, AbortedIsFinal, NothingResumes, CloseSource, Produce, consVars, abortVars,
         CanPull, Running, Pending
<1> QED BY <1>1, <1>2, <1>3, QuietInv DEF IInv, BoundedAhead

LEMMA ProducerCancelledInv == IInv /\ ProducerCancelled => IInv'
<1> SUFFICES ASSUME IInv, ProducerCancelled PROVE IInv'
  OBVIOUS
<1>1. TypeOK'
  BY DEF IInv, BoundedAhead, TypeOK, ProducerCancelled, consVars, abortVars
<1>2. QuietSides
  BY DEF ProducerCancelled, Running, consVars, QuietSides, queueVars, Live, CanPull
<1>3. AbortedIsFinal' /\ NothingResumes'
  BY DEF IInv, AbortedIsFinal, NothingResumes, ProducerCancelled, consVars, abortVars,
         CanPull, Running, Pending
<1> QED BY <1>1, <1>2, <1>3, QuietInv DEF IInv, BoundedAhead

LEMMA ItemEndsInv == ASSUME IInv, NEW i \in Items, ItemEnds(i) PROVE IInv'
<1>1. PICK r \in {"ok", "failed", "cancelled"} :
        /\ r = "cancelled" => item[i] = "cancelling"
        /\ item' = [item EXCEPT ![i] = r]
  BY DEF ItemEnds
<1>2. UNCHANGED <<eager, prodVars, entries, finished, aborted, consVars, abortVars, closings>>
  BY DEF ItemEnds
<1>3. TypeOK' /\ Pending' \subseteq Pending
  BY <1>1, <1>2 DEF IInv, BoundedAhead, TypeOK, prodVars, consVars, abortVars, Pending
<1>4. QuietSides
  BY <1>2 DEF prodVars, consVars, QuietSides, queueVars, Live, CanPull
<1>5. AbortedIsFinal'
  BY <1>1, <1>2 DEF IInv, BoundedAhead, TypeOK, AbortedIsFinal, prodVars, consVars, CanPull
<1>6. NothingResumes'
  BY <1>2, <1>3 DEF IInv, NothingResumes, prodVars, consVars, abortVars, Running
<1> QED BY <1>3, <1>4, <1>5, <1>6, QuietInv DEF IInv, BoundedAhead

LEMMA StartBatchesInv == IInv /\ StartBatches => IInv'
<1> SUFFICES ASSUME IInv, StartBatches PROVE IInv'
  OBVIOUS
<1>1. TypeOK'
  BY DEF IInv, BoundedAhead, TypeOK, StartBatches, abortVars
<1>2. QuietSides
  BY DEF StartBatches, QuietSides, queueVars, Live, CanPull
<1>3. AbortedIsFinal' /\ NothingResumes'
  BY DEF IInv, AbortedIsFinal, NothingResumes, StartBatches, abortVars,
         CanPull, Running, Pending
<1> QED BY <1>1, <1>2, <1>3, QuietInv DEF IInv, BoundedAhead

LEMMA NextBatchInv == IInv /\ NextBatch => IInv'
<1> SUFFICES ASSUME IInv, NextBatch PROVE IInv'
  OBVIOUS
<1>1. TypeOK'
  BY DEF IInv, BoundedAhead, TypeOK, NextBatch, prodVars, abortVars
<1>2. QuietSides
  BY DEF NextBatch, prodVars, QuietSides, queueVars, Live, CanPull
<1>3. AbortedIsFinal' /\ NothingResumes'
  BY DEF IInv, AbortedIsFinal, NothingResumes, NextBatch, prodVars, abortVars,
         CanPull, Running, Pending
<1> QED BY <1>1, <1>2, <1>3, QuietInv DEF IInv, BoundedAhead

LEMMA CancelConsumerInv == IInv /\ CancelConsumer => IInv'
<1> SUFFICES ASSUME IInv, CancelConsumer PROVE IInv'
  OBVIOUS
<1>1. TypeOK' /\ Pending' = Pending
  <2>1. item \in [Items -> {"none", "pending", "cancelling", "ok", "failed", "cancelled"}]
    BY DEF IInv, BoundedAhead, TypeOK
  <2>2. /\ item' \in [Items -> {"none", "pending", "cancelling", "ok", "failed", "cancelled"}]
        /\ Pending' = Pending
    BY <2>1 DEF CancelConsumer, Pending
  <2>3. consumer' = "cancelled" /\ dropped' = TRUE
    BY DEF CancelConsumer
  <2>4. UNCHANGED <<eager, prodVars, entries, finished, aborted, held, delivered, stopped,
                    cleaner, closes, aborts, closings>>
    BY DEF CancelConsumer
  <2> QED BY <2>2, <2>3, <2>4 DEF IInv, BoundedAhead, TypeOK, prodVars
<1>2. QuietSides
  BY DEF CancelConsumer, prodVars, QuietSides, queueVars, Live, CanPull
<1>3. AbortedIsFinal' /\ NothingResumes'
  BY <1>1 DEF IInv, AbortedIsFinal, NothingResumes, CancelConsumer, prodVars, CanPull, Running
<1> QED BY <1>1, <1>2, <1>3, QuietInv DEF IInv, BoundedAhead

LEMMA ConsumerCleanupInv == IInv /\ ConsumerCleanup => IInv'
<1> SUFFICES ASSUME IInv, ConsumerCleanup PROVE IInv'
  OBVIOUS
<1>1. TypeOK' /\ Pending' = Pending
  BY CancelledItems
     DEF IInv, BoundedAhead, TypeOK, ConsumerCleanup, Settle, prodVars, abortVars, Pending
<1>2. QuietSides
  BY DEF ConsumerCleanup, Settle, prodVars, QuietSides, queueVars, Live, CanPull
<1>3. AbortedIsFinal'
  BY DEF IInv, BoundedAhead, TypeOK, AbortedIsFinal, ConsumerCleanup, Settle, CancelItems,
         prodVars, CanPull
<1>4. NothingResumes'
  BY <1>1 DEF IInv, NothingResumes, ConsumerCleanup, Settle, prodVars, abortVars, Running
<1> QED BY <1>1, <1>2, <1>3, <1>4, QuietInv DEF IInv, BoundedAhead

LEMMA AbortInv == IInv /\ Abort => IInv'
<1> SUFFICES ASSUME IInv, Abort PROVE IInv'
  OBVIOUS
<1>1. UNCHANGED <<eager, producer, pulled, entries, finished, consVars, dropped>>
  BY DEF Abort
<1>2. /\ aborts < MaxAborts /\ aborts' = aborts + 1
      /\ aborted' = TRUE
      /\ item' = IF aborted THEN item ELSE CancelItems
      /\ cancelling' = (cancelling \/ (producer = "parked" /\ ~ cancelling)
                          \/ (Running /\ ~ aborted /\ ~ finished))
      /\ \/ cleaner' = "cleanup" /\ closes' \in BOOLEAN
         \/ UNCHANGED <<cleaner, closes>>
      /\ cleaner' # cleaner =>
            producer = "parked" \/ ~ aborted
      /\ closings' \in {closings, closings + 1}
  BY DEF Abort
<1>3. /\ item' \in [Items -> {"none", "pending", "cancelling", "ok", "failed", "cancelled"}]
      /\ Pending' = Pending
  BY <1>2, CancelledItems DEF IInv, BoundedAhead, TypeOK, Pending
<1>4. TypeOK'
  <2>1. aborts' \in 0..MaxAborts /\ closings' \in Nat
    BY <1>2, QueueAssumption DEF IInv, BoundedAhead, TypeOK
  <2>2. cancelling' \in BOOLEAN
    BY <1>2 DEF IInv, BoundedAhead, TypeOK
  <2> QED BY <1>1, <1>2, <1>3, <2>1, <2>2 DEF IInv, BoundedAhead, TypeOK, consVars
<1>5. QuietSides
  BY <1>1, <1>2 DEF consVars, QuietSides, queueVars, Live, CanPull
<1>6. AbortedIsFinal'
  <2>1. ~ CanPull'
    BY <1>1, <1>2 DEF IInv, AbortedIsFinal, CanPull, Running
  <2> QED BY <1>1, <1>2, <2>1 DEF IInv, AbortedIsFinal, consVars
<1>7. NothingResumes'
  BY <1>1, <1>2, <1>3 DEF IInv, NothingResumes, Running, consVars
<1> QED BY <1>4, <1>5, <1>6, <1>7, QuietInv DEF IInv, BoundedAhead

LEMMA AbortCleanupInv == IInv /\ AbortCleanup => IInv'
<1> SUFFICES ASSUME IInv, AbortCleanup PROVE IInv'
  OBVIOUS
<1>1. TypeOK' /\ Pending' = Pending
  BY CancelledItems
     DEF IInv, BoundedAhead, TypeOK, AbortCleanup, Settle, prodVars, consVars, Pending
<1>2. QuietSides
  BY DEF AbortCleanup, Settle, prodVars, consVars, QuietSides, queueVars, Live, CanPull
<1>3. AbortedIsFinal' /\ NothingResumes'
  BY <1>1 DEF IInv, BoundedAhead, TypeOK, AbortedIsFinal, NothingResumes, AbortCleanup, Settle,
              CancelItems, prodVars, consVars, CanPull, Running
<1> QED BY <1>1, <1>2, <1>3, QuietInv DEF IInv, BoundedAhead

-----------------------------------------------------------------------------
(* Steps of the producer that put an entry into the queue.                  *)

\* The queue with an entry behind the others.
LEMMA AppendEntry ==
  ASSUME TypeOK, NEW e \in Items \cup {END, ERROR}, Len(entries) < Capacity,
         entries' = Append(entries, e)
  PROVE  /\ entries' \in Seq(Items \cup {END, ERROR})
         /\ Len(entries') = Len(entries) + 1 /\ Len(entries') <= Capacity
         /\ entries'[Len(entries')] = e
         /\ \A i \in DOMAIN entries' : i = Len(entries') \/ i \in DOMAIN entries
         /\ \A i \in DOMAIN entries : entries'[i] = entries[i] /\ i < Len(entries')
BY QueueAssumption DEF TypeOK

LEMMA LengthsAreNatural ==
  ASSUME TypeOK
  PROVE  /\ Len(entries) \in Nat /\ Len(delivered) \in Nat /\ pulled \in Nat
         /\ Passed \in Nat /\ Passed <= Len(delivered) + 1
BY QueueAssumption DEF TypeOK, Passed

\* A producer that is not done has put no marker.
LEMMA NoMarkers ==
  ASSUME IInv, producer # "done"
  PROVE  /\ held \notin Markers
         /\ \A i \in DOMAIN entries : entries[i] \in Items
BY DEF IInv, BoundedAhead, TypeOK, QueueInv, MarkerIsLast, Markers

\* An item that has been pulled is pushed, if there is room.
LEMMA PushInv ==
  ASSUME IInv, TypeOK', producer \in {"pulling", "pushing"}, ~ cancelling,
         pulled' = (IF producer = "pulling" THEN pulled + 1 ELSE pulled),
         Put(pulled', "pushing", "pulling"),
         UNCHANGED <<cancelling, consVars, finished>>
  PROVE  QueueInv' /\ pulled' - Len(delivered') <= Capacity + 2
<1>1. /\ UNCHANGED <<consumer, held, delivered, stopped, finished>>
      /\ Passed' = Passed /\ Live' = Live
      /\ TypeOK
  BY DEF consVars, Passed, Live, IInv, BoundedAhead
<1>2. /\ pulled' = Passed + Len(entries) + 1
      /\ ~ finished
  BY <1>1, LengthsAreNatural DEF IInv, QueueInv, NothingIsLost, CanPull, AbortedIsFinal
<1>3. held \notin Markers /\ \A i \in DOMAIN entries : entries[i] \in Items
  BY NoMarkers
<1>4. pulled' - Len(delivered') <= Capacity + 2
  BY <1>1, <1>2, LengthsAreNatural, QueueAssumption DEF TypeOK
<1>5. OrderIsKept'
  BY <1>1, <1>2 DEF IInv, QueueInv, OrderIsKept
<1>6. CASE Len(entries) < Capacity
  <2>1. entries' = Append(entries, pulled') /\ producer' = "pulling"
    BY <1>6 DEF Put
  <2>2. pulled' \in Items
    BY <1>1, <1>2, LengthsAreNatural DEF TypeOK, Items
  <2>3. /\ Len(entries') = Len(entries) + 1
        /\ entries'[Len(entries')] = pulled'
        /\ \A i \in DOMAIN entries' : i = Len(entries') \/ i \in DOMAIN entries
        /\ \A i \in DOMAIN entries : entries'[i] = entries[i]
    BY <1>1, <1>6, <2>1, <2>2, AppendEntry
  <2>4. ItemsFollow'
    <3>1. ASSUME Live, NEW i \in DOMAIN entries', entries'[i] \in Items
          PROVE  entries'[i] = Passed + i
      <4>1. CASE i = Len(entries')
        BY <1>1, <1>2, <2>3, <4>1, LengthsAreNatural
      <4>2. CASE i \in DOMAIN entries
        BY <2>3, <3>1, <4>2 DEF IInv, QueueInv, ItemsFollow
      <4> QED BY <2>3, <4>1, <4>2
    <3> QED BY <1>1, <3>1 DEF IInv, QueueInv, ItemsFollow
  <2>5. \A i \in DOMAIN entries' : entries'[i] \in Items
    BY <1>3, <2>2, <2>3
  <2>6. MarkerIsLast'
    BY <1>1, <1>3, <2>5 DEF MarkerIsLast, Markers, Items, END, ERROR
  <2>7. pulled' = Passed' + Len(entries')
    BY <1>1, <1>2, <2>3, LengthsAreNatural
  <2>8. NothingIsLost'
    BY <1>1, <1>2, <1>3, <2>1, <2>5, <2>7
       DEF IInv, QueueInv, NothingIsLost, Markers, Items, END
  <2> QED BY <1>4, <1>5, <2>4, <2>6, <2>8 DEF QueueInv
<1>7. CASE ~ Len(entries) < Capacity
  <2>1. entries' = entries /\ producer' = "pushing"
    BY <1>7 DEF Put
  <2>2. ItemsFollow'
    BY <1>1, <2>1 DEF IInv, QueueInv, ItemsFollow
  <2>3. MarkerIsLast'
    BY <1>1, <1>3, <2>1 DEF MarkerIsLast, Markers, Items, END, ERROR
  <2>4. NothingIsLost'
    BY <1>1, <1>2, <1>3, <2>1 DEF IInv, QueueInv, NothingIsLost, Markers, Items, END
  <2> QED BY <1>4, <1>5, <2>2, <2>3, <2>4 DEF QueueInv
<1> QED BY <1>6, <1>7

\* The end or the failure of the source is put, if there is room.
LEMMA PutMarkerInv ==
  ASSUME IInv, TypeOK', producer \in {"pulling", "parked", "closing"},
         NEW e \in Markers,
         Put(e, "parked", "done"),
         UNCHANGED <<cancelling, consVars, pulled>>,
         finished' <=> e = END,
         e = END /\ Live => pulled = Passed + Len(entries),
         finished => finished'
  PROVE  QueueInv' /\ pulled' - Len(delivered') <= Capacity + 2
<1>1. /\ UNCHANGED <<consumer, held, delivered, stopped, pulled>>
      /\ Passed' = Passed /\ Live' = Live
      /\ TypeOK
  BY DEF consVars, Passed, Live, IInv, BoundedAhead
<1>2. held \notin Markers /\ \A i \in DOMAIN entries : entries[i] \in Items
  BY NoMarkers
<1>3. pulled' - Len(delivered') <= Capacity + 2
  BY <1>1 DEF IInv, BoundedAhead
<1>4. OrderIsKept'
  BY <1>1 DEF IInv, QueueInv, OrderIsKept
<1>5. CASE Len(entries) < Capacity
  <2>1. entries' = Append(entries, e) /\ producer' = "done"
    BY <1>5 DEF Put
  <2>2. /\ Len(entries') = Len(entries) + 1
        /\ entries'[Len(entries')] = e
        /\ \A i \in DOMAIN entries' : i = Len(entries') \/ i \in DOMAIN entries
        /\ \A i \in DOMAIN entries : entries'[i] = entries[i]
    BY <1>1, <1>5, <2>1, AppendEntry DEF Markers
  <2>3. ItemsFollow'
    <3>1. e \notin Items
      BY DEF Markers, Items, END, ERROR
    <3> QED BY <1>1, <2>2, <3>1 DEF IInv, QueueInv, ItemsFollow
  <2>4. \A i \in DOMAIN entries : entries[i] \notin Markers
    BY <1>2 DEF Markers, Items, END, ERROR
  <2>5. MarkerIsLast'
    BY <1>1, <1>2, <2>1, <2>2, <2>4 DEF MarkerIsLast
  <2>6. ASSUME Live', NEW i \in DOMAIN entries', entries'[i] = END
        PROVE  finished' /\ pulled' = Passed' + Len(entries') - 1
    <3>1. i = Len(entries') /\ e = END
      BY <2>2, <2>4, <2>6 DEF Markers
    <3> QED BY <1>1, <2>2, <2>6, <3>1, LengthsAreNatural
  <2>7. NothingIsLost'
    BY <1>1, <1>2, <2>1, <2>6 DEF IInv, QueueInv, NothingIsLost, CanPull, Markers
  <2> QED BY <1>3, <1>4, <2>3, <2>5, <2>7 DEF QueueInv
<1>6. CASE ~ Len(entries) < Capacity
  <2>1. entries' = entries /\ producer' = "parked"
    BY <1>6 DEF Put
  <2>2. ItemsFollow'
    BY <1>1, <2>1 DEF IInv, QueueInv, ItemsFollow
  <2>3. MarkerIsLast'
    BY <1>1, <1>2, <2>1 DEF MarkerIsLast, Markers, Items, END, ERROR
  <2>4. \A i \in DOMAIN entries : entries[i] # END
    BY <1>2 DEF Items, END
  <2>5. NothingIsLost'
    BY <1>1, <1>2, <2>1, <2>4 DEF IInv, QueueInv, NothingIsLost, CanPull, Markers
  <2> QED BY <1>3, <1>4, <2>2, <2>3, <2>5 DEF QueueInv
<1> QED BY <1>5, <1>6

\* Pushing leaves the entries well-typed.
LEMMA PutType ==
  ASSUME TypeOK, NEW e \in Items \cup {END, ERROR}, NEW before, NEW after,
         Put(e, before, after)
  PROVE  /\ entries' \in Seq(Items \cup {END, ERROR}) /\ Len(entries') <= Capacity
         /\ producer' \in {before, after}
<1>1. CASE Len(entries) < Capacity
  BY <1>1, AppendEntry DEF Put
<1>2. CASE ~ Len(entries) < Capacity
  BY <1>2 DEF Put, TypeOK
<1> QED BY <1>1, <1>2

LEMMA PullItemInv == IInv /\ PullItem => IInv'
<1> SUFFICES ASSUME IInv, PullItem PROVE IInv'
  OBVIOUS
<1>1. /\ producer = "pulling" /\ ~ cancelling
      /\ UNCHANGED <<eager, cancelling, consVars, abortVars, finished, aborted, closings>>
      /\ pulled < MaxItems /\ pulled' = pulled + 1
      /\ Put(pulled', "pushing", "pulling")
  BY DEF PullItem, Produce
<1>2. PICK r \in {"ok", "pending"} : item' = [item EXCEPT ![pulled + 1] = r]
  BY DEF PullItem
<1>3. TypeOK
  BY DEF IInv, BoundedAhead
<1>4. pulled' \in Items /\ pulled' \in 0..MaxItems
  BY <1>1, <1>3, QueueAssumption DEF TypeOK, Items
<1>5. item' \in [Items -> {"none", "pending", "cancelling", "ok", "failed", "cancelled"}]
  BY <1>2, <1>3 DEF TypeOK
<1>6. /\ entries' \in Seq(Items \cup {END, ERROR}) /\ Len(entries') <= Capacity
      /\ producer' \in {"pushing", "pulling"}
  BY <1>1, <1>3, <1>4, PutType
<1>7. TypeOK'
  BY <1>1, <1>3, <1>4, <1>5, <1>6 DEF TypeOK, consVars, abortVars
<1>8. QueueInv' /\ pulled' - Len(delivered') <= Capacity + 2
  BY <1>1, <1>7, PushInv
<1>9. AbortedIsFinal'
  BY <1>1, <1>2, <1>3, <1>4 DEF IInv, TypeOK, AbortedIsFinal, CanPull, consVars
<1>10. NothingResumes'
  BY <1>1 DEF IInv, NothingResumes, Running, consVars, abortVars
<1> QED BY <1>7, <1>8, <1>9, <1>10 DEF IInv, BoundedAhead

\* The other steps that put an entry: neither the items nor the flags of an abort change.
LEMMA PutOnly ==
  ASSUME IInv, Running, ~ cancelling,
         UNCHANGED <<eager, cancelling, consVars, abortVars, item, aborted, closings, pulled>>,
         finished' \in BOOLEAN,
         NEW e \in Items \cup {END, ERROR}, NEW before, NEW after,
         before \in {"pushing", "parked"}, after \in {"pulling", "done"},
         Put(e, before, after),
         producer' \in {"pushing", "pulling"} => producer = "pushing",
         finished' => producer' \in {"parked", "done"}
  PROVE  TypeOK' /\ AbortedIsFinal' /\ NothingResumes'
<1>1. TypeOK
  BY DEF IInv, BoundedAhead
<1>2. /\ entries' \in Seq(Items \cup {END, ERROR}) /\ Len(entries') <= Capacity
      /\ producer' \in {before, after}
  BY <1>1, PutType
<1>3. TypeOK'
  BY <1>1, <1>2 DEF TypeOK, consVars, abortVars
<1>4. AbortedIsFinal'
  BY <1>2 DEF IInv, AbortedIsFinal, CanPull, consVars
<1>5. NothingResumes'
  BY DEF IInv, NothingResumes, Running, Pending, consVars, abortVars
<1> QED BY <1>3, <1>4, <1>5

LEMMA UnblockInv == IInv /\ Unblock => IInv'
<1> SUFFICES ASSUME IInv, Unblock PROVE IInv'
  OBVIOUS
<1>1. /\ ~ cancelling /\ Len(entries) < Capacity
      /\ UNCHANGED <<eager, cancelling, consVars, abortVars, pulled, item, finished, aborted,
                     closings>>
      /\ TypeOK /\ finished' \in BOOLEAN
  BY DEF Unblock, Produce, IInv, BoundedAhead, TypeOK
<1>2. CASE producer = "pushing" /\ Put(pulled, "pushing", "pulling")
  <2>1. pulled \in Items
    BY <1>1, <1>2, LengthsAreNatural
       DEF IInv, QueueInv, NothingIsLost, CanPull, TypeOK, Items
  <2>2. ~ finished'
    BY <1>1, <1>2 DEF IInv, AbortedIsFinal
  <2>3. Running
    BY <1>2 DEF Running
  <2>4. TypeOK' /\ AbortedIsFinal' /\ NothingResumes'
    BY <1>1, <1>2, <2>1, <2>2, <2>3, PutOnly
  <2>5. QueueInv' /\ pulled' - Len(delivered') <= Capacity + 2
    BY <1>1, <1>2, <2>4, PushInv
  <2> QED BY <2>4, <2>5 DEF IInv, BoundedAhead
<1>3. ASSUME producer = "parked", Put(IF finished THEN END ELSE ERROR, "parked", "done")
      PROVE  IInv'
  <2> DEFINE e == IF finished THEN END ELSE ERROR
  <2>1. e \in Markers /\ e \in Items \cup {END, ERROR} /\ (finished' <=> e = END)
    BY <1>1 DEF Markers, END, ERROR, TypeOK
  <2>2. Put(e, "parked", "done")
    BY <1>3
  <2>3. e = END /\ Live => pulled = Passed + Len(entries)
    BY <1>1, <1>3, <2>1 DEF IInv, QueueInv, NothingIsLost
  <2>4. Running /\ producer' = "done"
    BY <1>1, <1>3 DEF Running, Put
  <2> HIDE DEF e
  <2>5. TypeOK' /\ AbortedIsFinal' /\ NothingResumes'
    BY <1>1, <2>1, <2>2, <2>4, PutOnly
  <2>6. QueueInv' /\ pulled' - Len(delivered') <= Capacity + 2
    BY <1>1, <1>3, <2>1, <2>2, <2>3, <2>5, PutMarkerInv
  <2> QED BY <2>5, <2>6 DEF IInv, BoundedAhead
<1> QED BY <1>2, <1>3 DEF Unblock, Produce

LEMMA SourceEndsInv == IInv /\ SourceEnds => IInv'
<1> SUFFICES ASSUME IInv, SourceEnds PROVE IInv'
  OBVIOUS
<1>1. /\ producer = "pulling" /\ ~ cancelling /\ finished' = TRUE
      /\ UNCHANGED <<eager, cancelling, consVars, abortVars, pulled, item, aborted, closings>>
      /\ Put(END, "parked", "done")
  BY DEF SourceEnds, Produce
<1>2. END \in Markers /\ END \in Items \cup {END, ERROR} /\ Running
  BY <1>1 DEF Markers, Running
<1>3. producer' \in {"parked", "done"}
  BY <1>1 DEF Put
<1>4. TypeOK' /\ AbortedIsFinal' /\ NothingResumes'
  BY <1>1, <1>2, <1>3, PutOnly
<1>5. pulled = Passed + Len(entries)
  BY <1>1, LengthsAreNatural
     DEF IInv, BoundedAhead, QueueInv, NothingIsLost, CanPull
<1>6. QueueInv' /\ pulled' - Len(delivered') <= Capacity + 2
  BY <1>1, <1>2, <1>4, <1>5, PutMarkerInv
<1> QED BY <1>4, <1>6 DEF IInv, BoundedAhead

LEMMA PushErrorInv == IInv /\ PushError => IInv'
<1> SUFFICES ASSUME IInv, PushError PROVE IInv'
  OBVIOUS
<1>1. /\ producer = "closing" /\ ~ cancelling
      /\ UNCHANGED <<eager, cancelling, consVars, abortVars, pulled, item, finished, aborted,
                     closings>>
      /\ Put(ERROR, "parked", "done")
  BY DEF PushError, Produce
<1>2. ERROR \in Markers /\ ERROR \in Items \cup {END, ERROR} /\ Running
  BY <1>1 DEF Markers, Running
<1>3. producer' \in {"parked", "done"} /\ ~ finished' /\ finished' \in BOOLEAN /\ ERROR # END
  BY <1>1 DEF Put, IInv, BoundedAhead, TypeOK, AbortedIsFinal, ERROR, END
<1>4. TypeOK' /\ AbortedIsFinal' /\ NothingResumes'
  BY <1>1, <1>2, <1>3, PutOnly
<1>5. QueueInv' /\ pulled' - Len(delivered') <= Capacity + 2
  BY <1>1, <1>2, <1>3, <1>4, PutMarkerInv
<1> QED BY <1>4, <1>5 DEF IInv, BoundedAhead

-----------------------------------------------------------------------------
(* Steps of the consumer that take an entry.                                *)

\* The entry e is taken, with rest behind it.
TakenFrom(e, rest) ==
  /\ e \in Items \cup Markers
  /\ rest \in Seq(Items \cup Markers) /\ Len(rest) <= Capacity
  /\ e \in Items => /\ e = Len(delivered) + 1
                    /\ \A i \in DOMAIN rest : rest[i] \in Items => rest[i] = e + i
  /\ \A i \in DOMAIN rest : rest[i] \in Markers => i = Len(rest) /\ producer = "done"
  /\ e \in Markers => rest = <<>> /\ producer = "done"
  /\ e = END => finished /\ pulled = Len(delivered)
  /\ \A i \in DOMAIN rest : rest[i] = END => finished /\ pulled = Len(delivered) + Len(rest)
  /\ producer \notin {"none", "starting"}
  /\ CanPull => pulled = Len(delivered) + 1 + Len(rest)
                           + (IF producer = "pushing" THEN 1 ELSE 0)
  /\ producer = "parked" /\ finished => pulled = Len(delivered) + 1 + Len(rest)
  /\ stopped => e = END

LEMMA HeadIsTaken ==
  ASSUME IInv, Live, held = NONE, entries # <<>>
  PROVE  TakenFrom(Head(entries), Tail(entries))
<1> DEFINE e == Head(entries)
           rest == Tail(entries)
<1>1. /\ e = entries[1] /\ 1 \in DOMAIN entries
      /\ Len(rest) = Len(entries) - 1 /\ Len(rest) \in Nat
      /\ rest \in Seq(Items \cup Markers)
      /\ \A i \in DOMAIN rest : i + 1 \in DOMAIN entries /\ rest[i] = entries[i + 1]
      /\ e \in Items \cup Markers
      /\ Len(rest) <= Capacity
  BY QueueAssumption DEF IInv, BoundedAhead, TypeOK, Markers
<1>2. Passed = Len(delivered) /\ NONE \notin Items \cup Markers
  BY DEF Passed, Items, Markers, NONE, END, ERROR, IInv, BoundedAhead, TypeOK
<1>3. TypeOK
  BY DEF IInv, BoundedAhead
<1> HIDE DEF e, rest
<1>4. e \in Items => /\ e = Len(delivered) + 1
                     /\ \A i \in DOMAIN rest : rest[i] \in Items => rest[i] = e + i
  <2>1. \A i \in DOMAIN entries : entries[i] \in Items => entries[i] = Len(delivered) + i
    BY <1>2 DEF IInv, QueueInv, ItemsFollow
  <2>2. Len(delivered) \in Nat /\ \A i \in DOMAIN rest : i \in Nat
    BY <1>1, <1>3, LengthsAreNatural
  <2>3. e \in Items => e = Len(delivered) + 1
    BY <1>1, <2>1
  <2>4. \A i \in DOMAIN rest : rest[i] \in Items => rest[i] = Len(delivered) + (i + 1)
    BY <1>1, <2>1
  <2> QED BY <2>2, <2>3, <2>4
<1>5. \A i \in DOMAIN rest : rest[i] \in Markers => i = Len(rest) /\ producer = "done"
  BY <1>1 DEF IInv, QueueInv, MarkerIsLast
<1>6. e \in Markers => rest = <<>> /\ producer = "done"
  BY <1>1 DEF IInv, QueueInv, MarkerIsLast
<1>7. e = END => finished /\ pulled = Len(delivered)
  <2>1. SUFFICES ASSUME e = END PROVE finished /\ pulled = Len(delivered)
    OBVIOUS
  <2>2. Len(rest) = 0
    BY <1>6, <2>1 DEF Markers
  <2>3. finished /\ pulled = Passed + Len(entries) - 1
    BY <1>1, <2>1 DEF IInv, QueueInv, NothingIsLost
  <2>4. Len(entries) \in Nat /\ Len(delivered) \in Nat
    BY <1>3, LengthsAreNatural
  <2>5. Len(entries) = 1
    BY <1>1, <2>2, <2>4
  <2>6. pulled = Len(delivered)
    BY <1>2, <2>3, <2>4, <2>5
  <2> QED BY <2>3, <2>6
<1>8. \A i \in DOMAIN rest : rest[i] = END => finished /\ pulled = Len(delivered) + Len(rest)
  BY <1>1, <1>2, <1>3, LengthsAreNatural DEF IInv, QueueInv, NothingIsLost
<1>9. /\ producer \notin {"none", "starting"}
      /\ CanPull => pulled = Len(delivered) + 1 + Len(rest)
                               + (IF producer = "pushing" THEN 1 ELSE 0)
      /\ producer = "parked" /\ finished => pulled = Len(delivered) + 1 + Len(rest)
  BY <1>1, <1>2, <1>3, LengthsAreNatural DEF IInv, QueueInv, NothingIsLost
<1>10. stopped => e = END
  BY DEF IInv, QueueInv, NothingIsLost, END, NONE
<1>11. TakenFrom(e, rest)
  BY <1>1, <1>4, <1>5, <1>6, <1>7, <1>8, <1>9, <1>10 DEF TakenFrom
<1> QED BY <1>11 DEF e, rest

LEMMA HeldIsTaken ==
  ASSUME IInv, Live, held # NONE
  PROVE  TakenFrom(held, entries)
<1>1. /\ held \in Items \cup Markers
      /\ entries \in Seq(Items \cup Markers) /\ Len(entries) <= Capacity
      /\ TypeOK
  BY DEF IInv, BoundedAhead, TypeOK, Markers
<1>2. /\ held \in Items => Passed = Len(delivered) + 1
      /\ held \in Markers => held \notin Items
  BY DEF Passed, Items, Markers, END, ERROR
<1>3. held \in Items => /\ held = Len(delivered) + 1
                        /\ \A i \in DOMAIN entries : entries[i] \in Items => entries[i] = held + i
  BY <1>2 DEF IInv, QueueInv, ItemsFollow
<1>4. /\ \A i \in DOMAIN entries :
            entries[i] \in Markers => i = Len(entries) /\ producer = "done"
      /\ held \in Markers => entries = <<>> /\ producer = "done"
  BY DEF IInv, QueueInv, MarkerIsLast
<1>5. held = END => finished /\ pulled = Len(delivered)
  BY DEF IInv, QueueInv, NothingIsLost
<1>6. \A i \in DOMAIN entries :
        entries[i] = END => finished /\ pulled = Len(delivered) + Len(entries)
  BY <1>1, <1>2, <1>4, LengthsAreNatural DEF IInv, QueueInv, NothingIsLost
<1>7. /\ producer \notin {"none", "starting"}
      /\ CanPull => pulled = Len(delivered) + 1 + Len(entries)
                               + (IF producer = "pushing" THEN 1 ELSE 0)
      /\ producer = "parked" /\ finished => pulled = Len(delivered) + 1 + Len(entries)
  BY <1>1, <1>2, <1>4, LengthsAreNatural DEF IInv, QueueInv, NothingIsLost, CanPull
<1>8. stopped => held = END
  BY DEF IInv, QueueInv, NothingIsLost
<1> QED BY <1>1, <1>3, <1>4, <1>5, <1>6, <1>7, <1>8 DEF TakenFrom

\* A step that leaves the producer alone and does not let the consumer go on: what
\* it does to the queue is only that it gets shorter.
LEMMA StopInv ==
  ASSUME IInv, ~ Live', ~ CanPull',
         UNCHANGED <<producer, pulled, finished, delivered>>,
         held' \notin Markers, entries' = <<>> \/ UNCHANGED entries
                                 \/ (entries # <<>> /\ entries' = Tail(entries)),
         producer \notin {"none", "starting"},
         stopped' => finished /\ pulled = Len(delivered)
  PROVE  QueueInv'
<1>1. OrderIsKept' /\ ItemsFollow'
  BY DEF IInv, QueueInv, OrderIsKept, ItemsFollow
<1>2. MarkerIsLast'
  <2>1. ASSUME NEW i \in DOMAIN entries', entries'[i] \in Markers
        PROVE  i = Len(entries') /\ producer = "done"
    <3>1. CASE UNCHANGED entries
      BY <2>1, <3>1 DEF IInv, QueueInv, MarkerIsLast
    <3>2. CASE entries # <<>> /\ entries' = Tail(entries)
      <4>1. /\ i + 1 \in DOMAIN entries /\ entries'[i] = entries[i + 1]
            /\ Len(entries') = Len(entries) - 1
        BY <2>1, <3>2 DEF IInv, BoundedAhead, TypeOK
      <4> QED BY <2>1, <4>1 DEF IInv, BoundedAhead, TypeOK, QueueInv, MarkerIsLast
    <3> QED BY <2>1, <3>1, <3>2
  <2> QED BY <2>1 DEF MarkerIsLast
<1>3. NothingIsLost'
  BY DEF NothingIsLost
<1> QED BY <1>1, <1>2, <1>3 DEF QueueInv

\* The elements of a concatenation.
LEMMA Concatenation ==
  ASSUME NEW S, NEW first \in Seq(S), NEW second \in Seq(S)
  PROVE  /\ first \o second \in Seq(S)
         /\ Len(first \o second) = Len(first) + Len(second)
         /\ \A i \in 1..Len(first) : (first \o second)[i] = first[i]
         /\ \A i \in 1..Len(second) : (first \o second)[Len(first) + i] = second[i]
<1>1. /\ Len(first) \in Nat /\ Len(second) \in Nat
      /\ first \o second \in Seq(S)
      /\ Len(first \o second) = Len(first) + Len(second)
  OBVIOUS
<1>2. \A i \in 1..Len(first) : (first \o second)[i] = first[i]
  BY <1>1
<1>3. ASSUME NEW i \in 1..Len(second)
      PROVE  (first \o second)[Len(first) + i] = second[i]
  <2>1. /\ Len(first) + i \in 1..Len(first) + Len(second)
        /\ ~ Len(first) + i <= Len(first)
        /\ Len(first) + i - Len(first) = i
    BY <1>1
  <2> QED BY <1>1, <2>1
<1> QED BY <1>1, <1>2, <1>3

\* A batch is collected: the queue, and the history of what has been delivered.
LEMMA CollectInv ==
  ASSUME IInv, TypeOK, Live, NEW e, NEW rest, TakenFrom(e, rest), IsReady(e),
         Collect(e, rest), UNCHANGED <<producer, cancelling, pulled, finished>>
  PROVE  /\ QueueInv' /\ pulled' - Len(delivered') <= Capacity + 2
         /\ entries' \in Seq(Items \cup Markers) /\ Len(entries') <= Capacity
         /\ held' \in Items \cup Markers \cup {NONE}
         /\ delivered' \in Seq(Items)
         /\ consumer' \in {"yielded", "cancelled"} /\ stopped' \in BOOLEAN
<1>1. PICK n \in 0..Len(rest) :
        /\ EndsBatch(rest, n)
        /\ entries' = SubSeq(rest, n + 2, Len(rest))
        /\ held' = IF n < Len(rest) THEN rest[n + 1] ELSE NONE
        /\ IF held' \in Items /\ item[held'] = "cancelled"
           THEN consumer' = "cancelled" /\ UNCHANGED delivered
           ELSE consumer' = "yielded" /\ delivered' = delivered \o <<e>> \o SubSeq(rest, 1, n)
        /\ stopped' = (held' = END)
  BY DEF Collect
<1>2. /\ e \in Items /\ e = Len(delivered) + 1
      /\ rest \in Seq(Items \cup Markers) /\ Len(rest) \in Nat /\ Len(rest) <= Capacity
      /\ \A i \in DOMAIN rest : rest[i] \in Items => rest[i] = e + i
      /\ Len(delivered) \in Nat /\ delivered \in Seq(Items) /\ pulled \in Nat
      /\ \A i \in DOMAIN delivered : delivered[i] = i
      /\ ~ stopped
  BY LengthsAreNatural DEF TakenFrom, IsReady, IInv, QueueInv, OrderIsKept, TypeOK, Items, END
<1>3. Len(rest) \in Nat /\ n \in Nat /\ n <= Len(rest) /\ e \in Nat /\ Len(delivered) \in Nat
  BY <1>1, <1>2
<1>4. \A i \in 1..n : rest[i] \in Items /\ rest[i] = e + i
  <2>1. \A i \in 1..n : IsReady(rest[i])
    BY <1>1 DEF EndsBatch
  <2>2. \A i \in 1..n : i \in DOMAIN rest
    BY <1>2, <1>3
  <2>3. \A i \in 1..n : rest[i] \in Items
    BY <2>1 DEF IsReady
  <2> QED BY <1>2, <2>2, <2>3
<1>5. /\ entries' \in Seq(Items \cup Markers)
      /\ Len(entries') = (IF n < Len(rest) THEN Len(rest) - n - 1 ELSE 0)
      /\ \A i \in DOMAIN entries' : i + n + 1 \in DOMAIN rest /\ entries'[i] = rest[i + n + 1]
  BY <1>1, <1>2
<1>6. /\ held' \in Items \cup Markers \cup {NONE}
      /\ n < Len(rest) <=> held' # NONE
      /\ NONE \notin Items \cup Markers
  <2>1. NONE \notin Items \cup Markers
    BY DEF Items, Markers, NONE, END, ERROR
  <2> QED BY <1>1, <1>2, <2>1
<1>7. held' \in Markers => n + 1 = Len(rest) /\ producer = "done" /\ entries' = <<>>
  <2>1. SUFFICES ASSUME held' \in Markers
                 PROVE  n + 1 = Len(rest) /\ producer = "done" /\ entries' = <<>>
    OBVIOUS
  <2>2. n + 1 \in DOMAIN rest /\ rest[n + 1] \in Markers
    BY <1>1, <1>2, <1>6, <2>1
  <2>3. n + 1 = Len(rest) /\ producer = "done"
    BY <2>2 DEF TakenFrom
  <2> QED BY <1>2, <1>5, <2>3
<1>8. /\ held' \in Items => held' = e + n + 1
      /\ \A i \in DOMAIN entries' : entries'[i] \in Items => entries'[i] = e + n + 1 + i
  <2>1. n < Len(rest) /\ rest[n + 1] \in Items => rest[n + 1] = e + n + 1
    <3>1. n < Len(rest) => n + 1 \in DOMAIN rest
      BY <1>2, <1>3
    <3>2. n < Len(rest) /\ rest[n + 1] \in Items => rest[n + 1] = e + (n + 1)
      BY <1>2, <3>1
    <3> QED BY <1>3, <3>2
  <2>2. \A i \in DOMAIN entries' : entries'[i] \in Items => entries'[i] = e + (i + n + 1)
    BY <1>2, <1>5
  <2>3. \A i \in Nat : e + (i + n + 1) = e + n + 1 + i
    BY <1>3
  <2>4. DOMAIN entries' \subseteq Nat
    BY <1>5
  <2> QED BY <1>1, <1>6, <2>1, <2>2, <2>3, <2>4
<1>9. MarkerIsLast'
  <2>1. \A i \in DOMAIN entries' :
           entries'[i] \in Markers => i = Len(entries') /\ producer = "done"
    BY <1>2, <1>5 DEF TakenFrom
  <2> QED BY <1>7, <2>1 DEF MarkerIsLast
<1>10. Len(entries') <= Capacity
  BY <1>2, <1>5, QueueAssumption
<1>11. CASE consumer' = "cancelled"
  <2>1. held' \in Items /\ item[held'] = "cancelled" /\ UNCHANGED delivered
    BY <1>1, <1>11
  <2>2. held' # END
    BY <2>1, QueueAssumption DEF Items, END
  <2>3. ~ Live' /\ stopped' = FALSE
    BY <1>1, <1>11, <2>2 DEF Live
  <2>4. aborted
    BY <2>1 DEF IInv, AbortedIsFinal, Live
  <2>5. ~ CanPull'
    BY <2>4 DEF IInv, AbortedIsFinal, CanPull
  <2>6. OrderIsKept' /\ ItemsFollow' /\ NothingIsLost'
    BY <2>1, <2>3, <2>5
       DEF OrderIsKept, ItemsFollow, NothingIsLost, TakenFrom, IInv, QueueInv
  <2>7. pulled' - Len(delivered') <= Capacity + 2
    BY <2>1 DEF IInv, BoundedAhead
  <2> QED BY <1>2, <1>5, <1>6, <1>9, <1>10, <1>11, <2>1, <2>3, <2>6, <2>7 DEF QueueInv
<1>12. CASE consumer' = "yielded"
  <2> DEFINE ready == SubSeq(rest, 1, n)
  <2>1. /\ ready \in Seq(Items) /\ Len(ready) = n
        /\ \A i \in 1..n : ready[i] = e + i
    BY <1>2, <1>4
  <2>2. delivered' = delivered \o <<e>> \o ready
    BY <1>1, <1>12
  <2> HIDE DEF ready
  <2>3. /\ delivered' \in Seq(Items) /\ Len(delivered') = Len(delivered) + 1 + n
        /\ \A i \in DOMAIN delivered : delivered'[i] = delivered[i]
        /\ delivered'[Len(delivered) + 1] = e
        /\ \A i \in 1..n : delivered'[Len(delivered) + 1 + i] = ready[i]
    <3> DEFINE first == delivered \o <<e>>
    <3>1. /\ <<e>> \in Seq(Items) /\ Len(<<e>>) = 1 /\ <<e>>[1] = e
          /\ delivered \in Seq(Items) /\ ready \in Seq(Items)
      BY <1>2, <2>1
    <3>2. /\ first \in Seq(Items) /\ Len(first) = Len(delivered) + 1
          /\ \A i \in 1..Len(delivered) : first[i] = delivered[i]
          /\ first[Len(delivered) + 1] = e
      BY <3>1, Concatenation
    <3>3. delivered' = first \o ready
      BY <2>2
    <3> HIDE DEF first
    <3>4. /\ delivered' \in Seq(Items) /\ Len(delivered') = Len(first) + n
          /\ \A i \in 1..Len(first) : delivered'[i] = first[i]
          /\ \A i \in 1..n : delivered'[Len(first) + i] = ready[i]
      <4>1. /\ first \o ready \in Seq(Items)
            /\ Len(first \o ready) = Len(first) + Len(ready)
            /\ \A i \in 1..Len(first) : (first \o ready)[i] = first[i]
            /\ \A i \in 1..Len(ready) : (first \o ready)[Len(first) + i] = ready[i]
        <5>1. first \in Seq(Items) /\ ready \in Seq(Items)
          BY <3>1, <3>2
        <5> QED BY ONLY <5>1, Concatenation
      <4> QED BY <2>1, <3>3, <4>1
    <3>5. /\ DOMAIN delivered = 1..Len(delivered)
          /\ 1..Len(delivered) \subseteq 1..(Len(delivered) + 1)
          /\ Len(delivered) + 1 \in 1..(Len(delivered) + 1)
      BY <1>2
    <3> QED BY <3>2, <3>4, <3>5
  <2>4. \A i \in DOMAIN delivered' : delivered'[i] = i
    <3>1. ASSUME NEW i \in DOMAIN delivered' PROVE delivered'[i] = i
      <4>1. CASE i \in DOMAIN delivered
        BY <1>2, <2>3, <4>1
      <4>2. CASE i = Len(delivered) + 1
        BY <1>2, <2>3, <4>2
      <4>3. CASE i > Len(delivered) + 1
        <5>2. i \in Nat /\ i <= Len(delivered')
          BY <2>3, <3>1
        <5>1. /\ i - Len(delivered) - 1 \in 1..n
              /\ i = Len(delivered) + 1 + (i - Len(delivered) - 1)
          BY <1>3, <2>3, <4>3, <5>2
        <5> QED BY <1>2, <2>1, <2>3, <5>1
      <4> QED BY <1>2, <2>3, <3>1, <4>1, <4>2, <4>3
    <3> QED BY <3>1
  <2>5. Passed' = Len(delivered') + (IF held' \in Items THEN 1 ELSE 0)
    BY DEF Passed
  <2>6. /\ Len(delivered') = Len(delivered) + 1 + n /\ Len(delivered') \in Nat
         /\ Len(entries') \in Nat
    BY <1>5, <1>3, <2>3
  <2>7. Passed' \in Nat
    BY <2>5, <2>6
  <2>8. entries' # <<>> => held' \in Items
    BY <1>2, <1>5, <1>6, <1>7
  <2>9. ItemsFollow'
    <3>1. held' \in Items => held' = Len(delivered') + 1 /\ Passed' = e + n + 1
      BY <1>2, <1>8, <1>3, <2>3, <2>5
    <3>2. ASSUME NEW i \in DOMAIN entries', entries'[i] \in Items
          PROVE  entries'[i] = Passed' + i
      <4>1. entries' # <<>>
        BY <1>5, <3>2
      <4> QED BY <1>8, <2>8, <3>1, <3>2, <4>1
    <3> QED BY <3>1, <3>2 DEF ItemsFollow
  <2>10. held' = END => finished /\ pulled = Len(delivered')
    <3>1. SUFFICES ASSUME held' = END PROVE finished /\ pulled = Len(delivered')
      OBVIOUS
    <3>2. n + 1 = Len(rest) /\ n + 1 \in DOMAIN rest /\ rest[n + 1] = END
      BY <1>1, <1>2, <1>6, <1>7, <1>3, <3>1 DEF Markers
    <3>3. finished /\ pulled = Len(delivered) + Len(rest)
      BY <3>2 DEF TakenFrom
    <3>4. pulled = Len(delivered')
      BY <1>3, <2>6, <3>2, <3>3
    <3> QED BY <3>3, <3>4
  <2>11. OrderIsKept'
    BY <1>1, <2>4, <2>10 DEF OrderIsKept
  <2>12. NothingIsLost'
    <3>1. ASSUME held' \notin Markers
          PROVE  Passed' + Len(entries') = Len(delivered) + 1 + Len(rest)
      <4>1. CASE n < Len(rest)
        <5>1. held' \in Items
          BY <1>6, <3>1, <4>1
        <5>2. Len(entries') = Len(rest) - n - 1
          BY <1>5, <4>1
        <5> QED BY <1>3, <2>5, <2>6, <5>1, <5>2
      <4>2. CASE n = Len(rest)
        <5>1. held' \notin Items
          BY <1>6, <4>2
        <5>2. Len(entries') = 0
          BY <1>5, <1>3, <4>2
        <5> QED BY <1>3, <2>5, <2>6, <4>2, <5>1, <5>2
      <4> QED BY <1>2, <1>3, <4>1, <4>2
    <3>2. producer # "done" => held' \notin Markers
      BY <1>7
    <3>3. CanPull' => pulled' = Passed' + Len(entries')
                                        + (IF producer' = "pushing" THEN 1 ELSE 0)
      BY <3>1, <3>2 DEF CanPull, TakenFrom
    <3>4. producer' = "parked" /\ finished' => pulled' = Passed' + Len(entries')
      BY <3>1, <3>2 DEF TakenFrom
    <3>5. ASSUME NEW i \in DOMAIN entries', entries'[i] = END
          PROVE  finished' /\ pulled' = Passed' + Len(entries') - 1
      <4>1. held' \notin Markers
        BY <1>5, <1>7, <3>5
      <4>2. finished /\ pulled = Len(delivered) + Len(rest)
        BY <1>5, <3>5 DEF TakenFrom
      <4>3. pulled' = Passed' + Len(entries') - 1
        <5>1. Passed' + Len(entries') = Len(delivered) + 1 + Len(rest)
          BY <3>1, <4>1
        <5>2. pulled' = Len(delivered) + 1 + Len(rest) - 1
          BY <1>3, <4>2
        <5> QED BY <1>3, <2>6, <2>7, <5>1, <5>2
      <4> QED BY <4>2, <4>3
    <3>6. producer' \notin {"none", "starting"} /\ (stopped' => held' = END)
      BY <1>1 DEF TakenFrom
    <3> QED BY <2>10, <3>3, <3>4, <3>5, <3>6 DEF NothingIsLost
  <2>13. pulled' - Len(delivered') <= Capacity + 2
    BY <1>2, <2>3, QueueAssumption DEF IInv, BoundedAhead
  <2>14. stopped' \in BOOLEAN
    BY <1>1
  <2> QED BY <1>5, <1>6, <1>9, <1>10, <1>12, <2>3, <2>9, <2>11, <2>12, <2>13, <2>14 DEF QueueInv
<1> QED BY <1>1, <1>11, <1>12

LEMMA TakeInv == IInv /\ Take => IInv'
<1> SUFFICES ASSUME IInv, Take PROVE IInv'
  OBVIOUS
<1>1. /\ UNCHANGED <<eager, producer, pulled, item, finished, abortVars, closings>>
      /\ TypeOK
  BY DEF Take, IInv, BoundedAhead
<1>2. PICK e \in {Head(entries), held}, rest \in {Tail(entries), entries} :
        /\ Live /\ TakeEntry(e, rest) /\ TakenFrom(e, rest)
        /\ \/ entries # <<>> /\ rest = Tail(entries)
           \/ rest = entries
  <2>1. CASE /\ consumer = "getting" /\ held = NONE /\ entries # <<>>
             /\ TakeEntry(Head(entries), Tail(entries))
    BY <2>1, HeadIsTaken DEF Live
  <2>2. CASE /\ \/ consumer = "getting" /\ held # NONE
                \/ consumer = "awaiting" /\ held \notin Pending
             /\ TakeEntry(held, entries)
    <3>1. held # NONE
      BY <2>2, QueueAssumption
         DEF TakeEntry, IsReady, Pending, Items, NONE, END, ERROR
    <3> QED BY <2>2, <3>1, HeldIsTaken DEF Live
  <2> QED BY <2>1, <2>2 DEF Take
<1>3. /\ e \in Items \cup Markers
      /\ rest \in Seq(Items \cup Markers) /\ Len(rest) <= Capacity
      /\ producer \notin {"none", "starting"}
      /\ consumer \notin {"cancelled", "settling", "cleanup"}
      /\ stopped => e = END
      /\ e = END => finished /\ pulled = Len(delivered)
      /\ e \in Items => ~ stopped
  BY <1>2, QueueAssumption DEF TakenFrom, Live, Items, END
<1>4. CASE IsReady(e) /\ Collect(e, rest) /\ UNCHANGED <<aborted, cancelling>>
  <2>1. /\ QueueInv' /\ pulled' - Len(delivered') <= Capacity + 2
        /\ entries' \in Seq(Items \cup Markers) /\ Len(entries') <= Capacity
        /\ held' \in Items \cup Markers \cup {NONE}
        /\ delivered' \in Seq(Items)
        /\ consumer' \in {"yielded", "cancelled"} /\ stopped' \in BOOLEAN
    BY <1>1, <1>2, <1>4, CollectInv
  <2>2. TypeOK'
    BY <1>1, <1>4, <2>1 DEF TypeOK, abortVars, Markers
  <2>3. AbortedIsFinal' /\ NothingResumes'
    BY <1>1, <1>3, <1>4, <2>1
       DEF IInv, AbortedIsFinal, NothingResumes, abortVars, CanPull, Running, Pending
  <2> QED BY <2>1, <2>2, <2>3 DEF IInv, BoundedAhead
<1>5. CASE /\ e \in Pending
           /\ consumer' = "awaiting"
           /\ held' = e /\ entries' = rest
           /\ UNCHANGED <<aborted, cancelling, delivered, stopped>>
  <2>1. e \in Items /\ e \notin Markers
    BY <1>5, QueueAssumption DEF Pending, Items, Markers, END, ERROR
  <2>2. TypeOK'
    BY <1>1, <1>3, <1>5, <2>1 DEF TypeOK, abortVars, Markers
  <2>3. AbortedIsFinal' /\ NothingResumes'
    BY <1>1, <1>3, <1>5
       DEF IInv, AbortedIsFinal, NothingResumes, abortVars, CanPull, Running, Pending
  <2>4. /\ e = Len(delivered) + 1 /\ Passed' = Len(delivered) + 1
        /\ Len(rest) \in Nat /\ Len(delivered) \in Nat
    BY <1>1, <1>2, <1>3, <1>5, <2>1, LengthsAreNatural DEF TakenFrom, Passed
  <2>5. OrderIsKept'
    BY <1>1, <1>3, <1>5, <2>1 DEF IInv, QueueInv, OrderIsKept
  <2>6. ItemsFollow'
    BY <1>2, <1>5, <2>1, <2>4 DEF ItemsFollow, TakenFrom
  <2>7. MarkerIsLast'
    BY <1>1, <1>2, <1>5, <2>1 DEF MarkerIsLast, TakenFrom
  <2>8. NothingIsLost'
    <3>1. CanPull' => pulled' = Passed' + Len(entries')
                                        + (IF producer' = "pushing" THEN 1 ELSE 0)
      BY <1>1, <1>2, <1>5, <2>4 DEF TakenFrom, CanPull
    <3>2. producer' = "parked" /\ finished' => pulled' = Passed' + Len(entries')
      BY <1>1, <1>2, <1>5, <2>4 DEF TakenFrom
    <3>3. \A i \in DOMAIN entries' :
            entries'[i] = END => finished' /\ pulled' = Passed' + Len(entries') - 1
      <4>1. Passed' + Len(entries') - 1 = Len(delivered) + Len(rest)
        BY <1>5, <2>4
      <4> QED BY <1>1, <1>2, <1>5, <4>1 DEF TakenFrom
    <3>4. held' # END /\ ~ stopped'
      BY <1>3, <1>5, <2>1 DEF Markers
    <3> QED BY <1>1, <1>3, <3>1, <3>2, <3>3, <3>4 DEF NothingIsLost
  <2>9. pulled' - Len(delivered') <= Capacity + 2
    BY <1>1, <1>5 DEF IInv, BoundedAhead
  <2> QED BY <2>2, <2>3, <2>5, <2>6, <2>7, <2>8, <2>9 DEF IInv, BoundedAhead, QueueInv
<1>6. CASE /\ e \in Items /\ item[e] = "failed"
           /\ consumer' = "cleanup"
           /\ aborted' = TRUE
           /\ cancelling' = (cancelling \/ Running)
           /\ held' = NONE /\ entries' = rest
           /\ UNCHANGED <<delivered, stopped>>
  <2>1. NONE \notin Markers /\ ~ Live' /\ ~ CanPull'
    <3>1. NONE \notin Markers
      BY DEF Markers, NONE, END, ERROR
    <3>2. ~ Live'
      BY <1>6 DEF Live
    <3>3. CanPull' => FALSE
      BY <1>1, <1>6 DEF CanPull, Running
    <3> QED BY <3>1, <3>2, <3>3
  <2>2. TypeOK'
    BY <1>1, <1>3, <1>6 DEF TypeOK, abortVars, Markers
  <2>3. AbortedIsFinal' /\ NothingResumes'
    BY <1>1, <1>3, <1>6, <2>1
       DEF IInv, AbortedIsFinal, NothingResumes, abortVars, Running, Pending
  <2>4. QueueInv'
    BY <1>1, <1>2, <1>3, <1>6, <2>1, StopInv
  <2>5. pulled' - Len(delivered') <= Capacity + 2
    BY <1>1, <1>6 DEF IInv, BoundedAhead
  <2> QED BY <2>2, <2>3, <2>4, <2>5 DEF IInv, BoundedAhead
<1>7. CASE /\ \/ e \in Items /\ item[e] = "cancelled" /\ consumer' = "cancelled"
              \/ e = END /\ consumer' = "ended"
              \/ e = ERROR /\ consumer' = "raised"
           /\ stopped' = (stopped \/ e = END)
           /\ held' = NONE /\ entries' = rest
           /\ UNCHANGED <<aborted, cancelling, delivered>>
  <2>1. NONE \notin Markers /\ ~ Live'
    BY <1>7 DEF Markers, NONE, END, ERROR, Live
  <2>2. ~ CanPull'
    <3>1. CASE e \in Items /\ item[e] = "cancelled"
      BY <1>1, <1>3, <1>7, <3>1 DEF IInv, AbortedIsFinal, CanPull
    <3>2. CASE e \in Markers
      BY <1>1, <1>2, <1>7, <3>2 DEF TakenFrom, CanPull
    <3> QED BY <1>7, <3>1, <3>2 DEF Markers
  <2>3. TypeOK'
    BY <1>1, <1>3, <1>7 DEF TypeOK, abortVars, Markers
  <2>4. AbortedIsFinal' /\ NothingResumes'
    BY <1>1, <1>3, <1>7, <2>2
       DEF IInv, AbortedIsFinal, NothingResumes, abortVars, Running, Pending
  <2>5. QueueInv'
    BY <1>1, <1>2, <1>3, <1>7, <2>1, <2>2, StopInv
  <2>6. pulled' - Len(delivered') <= Capacity + 2
    BY <1>1, <1>7 DEF IInv, BoundedAhead
  <2> QED BY <2>3, <2>4, <2>5, <2>6 DEF IInv, BoundedAhead
<1> QED BY <1>2, <1>4, <1>5, <1>6, <1>7 DEF TakeEntry

-----------------------------------------------------------------------------
LEMMA StepInv == IInv /\ [Next]_vars => IInv'
<1> SUFFICES ASSUME IInv, [Next]_vars PROVE IInv'
  OBVIOUS
<1>1. CASE UNCHANGED vars
  <2>1. QuietSides /\ TypeOK'
    BY <1>1 DEF vars, prodVars, consVars, abortVars, QuietSides, queueVars, Live, CanPull,
                IInv, BoundedAhead, TypeOK
  <2>2. AbortedIsFinal' /\ NothingResumes'
    BY <1>1 DEF vars, prodVars, consVars, abortVars, IInv, AbortedIsFinal, NothingResumes,
                CanPull, Running, Pending
  <2> QED BY <2>1, <2>2, QuietInv DEF IInv, BoundedAhead
<1>2. CASE Producing
  BY <1>2, RunProducerInv, PullItemInv, UnblockInv, SourceEndsInv, SourceFailsInv,
     CloseSourceInv, PushErrorInv, ProducerCancelledInv DEF Producing
<1>3. CASE Consuming
  BY <1>3, StartBatchesInv, TakeInv, NextBatchInv, ConsumerCleanupInv DEF Consuming
<1>4. ASSUME NEW i \in Items, ItemEnds(i) PROVE IInv'
  BY <1>4, ItemEndsInv
<1>5. CASE CancelConsumer \/ Abort \/ AbortCleanup
  BY <1>5, CancelConsumerInv, AbortInv, AbortCleanupInv
<1> QED BY <1>1, <1>2, <1>3, <1>4, <1>5 DEF Next

\* The inductive invariant holds in every reachable state.
THEOREM Invariance == Spec => []IInv
BY InitInv, StepInv, PTL DEF Spec

\* Type correctness, for every capacity and any number of items and aborts.
THEOREM TypeCorrect == Spec => []TypeOK
<1>1. IInv => TypeOK
  BY DEF IInv, BoundedAhead
<1> QED BY <1>1, Invariance, PTL

\* Back-pressure: the producer is at most a full queue and two items ahead (push).
THEOREM BoundedAheadHolds == Spec => []BoundedAhead
<1>1. IInv => BoundedAhead
  BY DEF IInv
<1> QED BY <1>1, Invariance, PTL

\* Items are delivered in the order of the source and without gaps, and the queue is
\* only known to have stopped when all of them have been (batches, is_stopped).
THEOREM OrderIsKeptHolds == Spec => []OrderIsKept
<1>1. IInv => OrderIsKept
  BY DEF IInv, QueueInv
<1> QED BY <1>1, Invariance, PTL

-----------------------------------------------------------------------------
(* The cleanup.                                                             *)

CleanupStep ==
  /\ closings' > closings => /\ Pending = {}
                             /\ Running => producer = "settling"
  /\ cleaner' = "done" => ~ Running' /\ Pending' = {}

\* Only three steps run the abort callback.
LEMMA CallbackIsLast ==
  ASSUME IInv, [Next]_vars, closings' # closings
  PROVE  Pending = {} /\ (Running => producer = "settling")
<1>1. CloseSource \/ ConsumerCleanup \/ Abort \/ AbortCleanup
  BY DEF Next, Producing, Consuming, vars, RunProducer, PullItem, Unblock, SourceEnds,
         SourceFails, PushError, ProducerCancelled, StartBatches, Take, NextBatch, ItemEnds,
         CancelConsumer
<1>2. CASE CloseSource
  BY <1>2 DEF CloseSource, Produce
<1>3. CASE ConsumerCleanup
  BY <1>3 DEF ConsumerCleanup, Settle, IInv, NothingResumes
<1>4. CASE Abort
  BY <1>4 DEF Abort
<1>5. CASE AbortCleanup
  BY <1>5 DEF AbortCleanup, Settle, IInv, NothingResumes
<1> QED BY <1>1, <1>2, <1>3, <1>4, <1>5

\* The abort callback is run when nothing is pending and nobody pulls, and nothing
\* resumes once the awaitable of an abort is done (_run, abort, _cleanup).
THEOREM CleanupIsLastHolds == Spec => CleanupIsLast
<1>1. IInv /\ [Next]_vars => [CleanupStep]_vars
  <2>1. SUFFICES ASSUME IInv, [Next]_vars PROVE CleanupStep
    OBVIOUS
  <2>2. IInv'
    BY <2>1, StepInv
  <2>3. closings' > closings => closings' # closings
    BY <2>1, <2>2 DEF IInv, BoundedAhead, TypeOK
  <2>4. cleaner' = "done" => ~ Running' /\ Pending' = {}
    BY <2>2 DEF IInv, NothingResumes
  <2> QED BY <2>1, <2>3, <2>4, CallbackIsLast DEF CleanupStep
<1> QED BY <1>1, Invariance, PTL DEF Spec, CleanupIsLast, CleanupStep
=============================================================================
