--------------------------- MODULE StreamItemQueue ---------------------------
(***************************************************************************)
(* The queue of the items of a stream                                      *)
(* (execution/incremental/stream_item_queue.py): a producer task pulls the *)
(* items from the source and pushes them onto a bounded queue, a consumer  *)
(* takes them in batches, and abort() may be called at any time.           *)
(*                                                                         *)
(* With early execution (eager), the items are pushed as futures that are  *)
(* still pending.  A task that has been asked to cancel itself makes no    *)
(* step but that.                                                          *)
(***************************************************************************)
EXTENDS Integers, Sequences, FiniteSets

CONSTANTS Capacity,   \* the capacity of the queue
          MaxItems,   \* bound: how many items the source holds at most
          MaxAborts   \* bound: how often abort() is called

ASSUME QueueAssumption == Capacity \in Nat \ {0} /\ MaxItems \in Nat /\ MaxAborts \in Nat

VARIABLES
  eager,      \* _eager
  producer,   \* the task _run()
  cancelling, \* the task _run() has been asked to cancel itself
  pulled,     \* how many items have been pulled from the source
  item,       \* the result of each item
  entries,    \* _entries: items (1, 2, ...), END or ERROR
  finished, aborted, stopped,
  consumer,   \* where the iteration of batches() is
  held,       \* the entry held back, or awaited; or NONE
  delivered,  \* history: the items delivered in batches
  cleaner,    \* how far the awaitable returned by abort() has got
  closes,     \* whether it runs the abort callback
  closings,   \* history: how often the abort callback has been run
  aborts,     \* history: how often abort() has been called
  dropped     \* history: the task that consumes the batches has been cancelled

prodVars  == <<producer, cancelling, pulled>>
consVars  == <<consumer, held, delivered, stopped>>
abortVars == <<cleaner, closes, aborts, dropped>>
vars == <<eager, prodVars, item, entries, finished, aborted, consVars, abortVars, closings>>

END == 0
ERROR == -1
NONE == -2

Items == 1..MaxItems
Pending == {i \in Items : item[i] \in {"pending", "cancelling"}}
Running == producer \notin {"none", "done", "cancelled"}

\* future.cancel() for every pending item.
CancelItems == [i \in Items |-> IF item[i] = "pending" THEN "cancelling" ELSE item[i]]

\* The end of a cancelled item: a resolver may still answer.
ItemEnds(i) ==
  /\ i \in Pending
  /\ \E r \in {"ok", "failed"} \cup (IF item[i] = "cancelling" THEN {"cancelled"} ELSE {}) :
        item' = [item EXCEPT ![i] = r]
  /\ UNCHANGED <<eager, prodVars, entries, finished, aborted, consVars, abortVars, closings>>

-----------------------------------------------------------------------------
(* The producer.                                                            *)

\* A step of the task _run(), for which it has to be in state p.
Produce(p) == /\ producer = p /\ ~ cancelling
              /\ UNCHANGED <<eager, cancelling, consVars, abortVars>>

\* A lazy producer waits for the first step of the consumer.
RunProducer == /\ Produce("starting")
               /\ eager \/ consumer # "new"
               /\ producer' = "pulling"
               /\ UNCHANGED <<pulled, item, entries, finished, aborted, closings>>

\* Mutant: the queue is not bounded.
PutAlways(entry, before, after) ==
  entries' = Append(entries, entry) /\ producer' = after

\* await entries.put(entry), in state `before' as long as the queue is full.
Put(entry, before, after) ==
  IF Len(entries) < Capacity
  THEN entries' = Append(entries, entry) /\ producer' = after
  ELSE UNCHANGED entries /\ producer' = before

\* produce() pulls an item and pushes its result; a lazy one awaits it before.
PullItem == /\ Produce("pulling")
            /\ pulled < MaxItems
            /\ pulled' = pulled + 1
            /\ \E r \in {"ok"} \cup (IF eager THEN {"pending"} ELSE {}) :
                  item' = [item EXCEPT ![pulled + 1] = r]
            /\ Put(pulled + 1, "pushing", "pulling")
            /\ UNCHANGED <<finished, aborted, closings>>

\* The producer is woken up by a consumer that has made room.
Unblock == \/ /\ Produce("pushing") /\ Len(entries) < Capacity
              /\ Put(pulled, "pushing", "pulling")
              /\ UNCHANGED <<pulled, item, finished, aborted, closings>>
           \/ /\ Produce("parked") /\ Len(entries) < Capacity
              /\ Put(IF finished THEN END ELSE ERROR, "parked", "done")
              /\ UNCHANGED <<pulled, item, finished, aborted, closings>>

\* The source is exhausted.
SourceEnds == /\ Produce("pulling")
              /\ finished' = TRUE
              /\ Put(END, "parked", "done")
              /\ UNCHANGED <<pulled, item, aborted, closings>>

\* The source fails, or an item that is completed at once: the pending items are
\* cancelled and awaited, the callback is run, and then the failure is pushed.
SourceFails == /\ Produce("pulling")
               /\ aborted' = TRUE
               /\ item' = CancelItems
               /\ producer' = "settling"
               /\ UNCHANGED <<pulled, entries, finished, closings>>
CloseSource == /\ Produce("settling")
               /\ Pending = {}
               /\ closings' = closings + 1
               /\ producer' = "closing"
               /\ UNCHANGED <<pulled, item, entries, finished, aborted>>
PushError == /\ Produce("closing")
             /\ Put(ERROR, "parked", "done")
             /\ UNCHANGED <<pulled, item, finished, aborted, closings>>

ProducerCancelled == /\ Running /\ cancelling
                     /\ producer' = "cancelled"
                     /\ UNCHANGED <<eager, cancelling, pulled, item, entries, finished,
                                    aborted, consVars, abortVars, closings>>

-----------------------------------------------------------------------------
(* The consumer.                                                            *)

\* The first step of batches() starts the producer.
StartBatches == /\ consumer = "new"
                /\ consumer' = "getting"
                /\ producer' = IF producer = "none" /\ ~ aborted THEN "starting" ELSE producer
                /\ UNCHANGED <<eager, cancelling, pulled, item, entries, finished, aborted,
                               held, delivered, stopped, abortVars, closings>>

IsReady(e) == e \in Items /\ item[e] = "ok"

\* get_nowait() until there is nothing, or an entry that cannot join the batch: it is
\* held back, except for a cancelled item, whose CancelledError leaves batches().
\* A batch ends where `rest', the entries behind its first one, has n ready entries.
EndsBatch(rest, n) == /\ \A i \in 1..n : IsReady(rest[i])
                      /\ n < Len(rest) => ~ IsReady(rest[n + 1])

\* Mutant: the entry behind the batch is not held back.
CollectForgetting(e, rest) ==
  \E n \in 0..Len(rest) :
    /\ EndsBatch(rest, n)
    /\ entries' = SubSeq(rest, n + 2, Len(rest))
    /\ held' = IF n < Len(rest) /\ rest[n + 1] \in {END, ERROR} THEN rest[n + 1] ELSE NONE
    /\ consumer' = "yielded"
    /\ delivered' = delivered \o <<e>> \o SubSeq(rest, 1, n)
    /\ stopped' = (n < Len(rest) /\ rest[n + 1] = END)

Collect(e, rest) ==
  \E n \in 0..Len(rest) :
    /\ EndsBatch(rest, n)
    /\ entries' = SubSeq(rest, n + 2, Len(rest))
    /\ held' = IF n < Len(rest) THEN rest[n + 1] ELSE NONE
    /\ IF held' \in Items /\ item[held'] = "cancelled"
       THEN consumer' = "cancelled" /\ UNCHANGED delivered
       ELSE consumer' = "yielded" /\ delivered' = delivered \o <<e>> \o SubSeq(rest, 1, n)
    /\ stopped' = (held' = END)

\* The head of the queue, with the entries behind it.
TakeEntry(e, rest) ==
  \/ /\ IsReady(e)
     /\ Collect(e, rest)
     /\ UNCHANGED <<aborted, cancelling>>
  \/ /\ e \in Pending                              \* await entry
     /\ consumer' = "awaiting"
     /\ held' = e /\ entries' = rest
     /\ UNCHANGED <<aborted, cancelling, delivered, stopped>>
  \/ /\ e \in Items /\ item[e] = "failed"          \* await self._cleanup()
     /\ consumer' = "cleanup"
     /\ aborted' = TRUE
     /\ cancelling' = (cancelling \/ Running)
     /\ held' = NONE /\ entries' = rest
     /\ UNCHANGED <<delivered, stopped>>
  \/ /\ \/ e \in Items /\ item[e] = "cancelled" /\ consumer' = "cancelled"
        \/ e = END /\ consumer' = "ended"
        \/ e = ERROR /\ consumer' = "raised"
     /\ stopped' = (stopped \/ e = END)
     /\ held' = NONE /\ entries' = rest
     /\ UNCHANGED <<aborted, cancelling, delivered>>

Take == /\ \/ /\ consumer = "getting" /\ held = NONE /\ entries # <<>>
              /\ TakeEntry(Head(entries), Tail(entries))
           \/ /\ \/ consumer = "getting" /\ held # NONE
                 \/ consumer = "awaiting" /\ held \notin Pending
              /\ TakeEntry(held, entries)
        /\ UNCHANGED <<eager, producer, pulled, item, finished, abortVars, closings>>

\* The batch has been handled.
NextBatch == /\ consumer = "yielded"
             /\ consumer' = "getting"
             /\ UNCHANGED <<eager, prodVars, item, entries, finished, aborted, held,
                            delivered, stopped, abortVars, closings>>

\* Mutant: the pending items are not awaited.
SettleAtOnce(at, settling, done) ==
  \/ at = "cleanup"  /\ ~ Running /\ item' = CancelItems /\ settling
  \/ at = "settling" /\ UNCHANGED item /\ done

\* _cleanup() and _settle_parked(), in state `at': the producer is awaited, the items
\* are cancelled, and awaited as well.
Settle(at, settling, done) ==
  \/ at = "cleanup"  /\ ~ Running /\ item' = CancelItems /\ settling
  \/ at = "settling" /\ Pending = {} /\ UNCHANGED item /\ done

ConsumerCleanup ==
  /\ Settle(consumer, consumer' = "settling" /\ UNCHANGED closings,
            consumer' = "raised" /\ closings' = closings + 1)
  /\ UNCHANGED <<eager, prodVars, entries, finished, aborted, held, delivered, stopped,
                 abortVars>>

\* The task that consumes the batches is cancelled (WorkQueue.cancel), and with it
\* the item that it awaits.
CancelConsumer ==
  /\ consumer \in {"getting", "awaiting", "yielded", "cleanup", "settling"}
  /\ consumer' = "cancelled" /\ dropped' = TRUE
  /\ item' = IF consumer = "awaiting" /\ item[held] = "pending"
             THEN [item EXCEPT ![held] = "cancelling"] ELSE item
  /\ UNCHANGED <<eager, prodVars, entries, finished, aborted, held, delivered, stopped,
                 cleaner, closes, aborts, closings>>

-----------------------------------------------------------------------------
(* abort().                                                                 *)

\* Mutant: a producer parked on the full queue is not released.
AbortUnparked ==
  /\ aborts < MaxAborts /\ aborts' = aborts + 1
  /\ aborted' = TRUE
  /\ IF aborted THEN UNCHANGED <<item, cancelling, cleaner, closes, closings>>
     ELSE /\ item' = CancelItems
          /\ cancelling' = (Running /\ ~ finished)
          /\ closes' = ~ finished
          /\ cleaner' = IF finished \/ (~ Running /\ Pending = {}) THEN "none" ELSE "cleanup"
          /\ closings' = IF finished \/ Running \/ Pending # {} THEN closings ELSE closings + 1
  /\ UNCHANGED <<eager, producer, pulled, entries, finished, consVars, dropped>>

\* The awaitable for the rest of the cleanup is awaited by the caller.  What has been
\* aborted before, by a failure too, is not aborted again, but a parked producer is
\* released in any case; a source that has been exhausted is not cleaned up.
Abort ==
  LET parked == producer = "parked" /\ ~ cancelling IN
  /\ aborts < MaxAborts /\ aborts' = aborts + 1
  /\ aborted' = TRUE
  /\ item' = IF aborted THEN item ELSE CancelItems
  /\ cancelling' = (cancelling \/ parked \/ (Running /\ ~ aborted /\ ~ finished))
  /\ IF parked \/ (~ aborted /\ (Pending # {} \/ (Running /\ ~ finished)))
     THEN cleaner' = "cleanup" /\ closes' = ~ (aborted \/ finished)
     ELSE UNCHANGED <<cleaner, closes>>
  /\ closings' = IF aborted \/ finished \/ Running \/ Pending # {} THEN closings ELSE closings + 1
  /\ UNCHANGED <<eager, producer, pulled, entries, finished, consVars, dropped>>

AbortCleanup ==
  /\ Settle(cleaner, cleaner' = "settling" /\ UNCHANGED closings,
            cleaner' = "done" /\ closings' = IF closes THEN closings + 1 ELSE closings)
  /\ UNCHANGED <<eager, prodVars, entries, finished, aborted, consVars, closes, aborts, dropped>>

-----------------------------------------------------------------------------
Init ==
  /\ eager \in BOOLEAN
  /\ producer \in (IF eager THEN {"none", "starting"} ELSE {"none"})
  /\ cancelling = FALSE /\ pulled = 0
  /\ item = [i \in Items |-> "none"] /\ entries = <<>>
  /\ finished = FALSE /\ aborted = FALSE /\ stopped = FALSE
  /\ consumer = "new" /\ held = NONE /\ delivered = <<>>
  /\ cleaner = "none" /\ closes = FALSE /\ closings = 0 /\ aborts = 0 /\ dropped = FALSE

Producing == \/ RunProducer \/ PullItem \/ Unblock \/ SourceEnds \/ SourceFails
             \/ CloseSource \/ PushError \/ ProducerCancelled
Consuming == StartBatches \/ Take \/ NextBatch \/ ConsumerCleanup

Next == \/ Producing \/ Consuming \/ (\E i \in Items : ItemEnds(i))
        \/ CancelConsumer \/ Abort \/ AbortCleanup

\* The loop runs what is ready, the source and the items come to an end, and the
\* consumer keeps asking.
Spec == /\ Init /\ [][Next]_vars
        /\ WF_vars(Producing) /\ WF_vars(Consuming) /\ WF_vars(AbortCleanup)
        /\ \A i \in Items : WF_vars(ItemEnds(i))

-----------------------------------------------------------------------------
(* Properties.                                                              *)

\* The variables have the types given at their declaration.
TypeOK ==
  /\ eager \in BOOLEAN /\ cancelling \in BOOLEAN /\ finished \in BOOLEAN
  /\ aborted \in BOOLEAN /\ stopped \in BOOLEAN /\ closes \in BOOLEAN /\ dropped \in BOOLEAN
  /\ producer \in {"none", "starting", "pulling", "pushing", "settling", "closing",
                   "parked", "done", "cancelled"}
  /\ pulled \in 0..MaxItems
  /\ item \in [Items -> {"none", "pending", "cancelling", "ok", "failed", "cancelled"}]
  /\ entries \in Seq(Items \cup {END, ERROR}) /\ Len(entries) <= Capacity
  /\ consumer \in {"new", "getting", "awaiting", "yielded", "cleanup", "settling",
                   "ended", "raised", "cancelled"}
  /\ held \in Items \cup {END, ERROR, NONE}
  /\ delivered \in Seq(Items)
  /\ cleaner \in {"none", "cleanup", "settling", "done"}
  /\ closings \in Nat /\ aborts \in 0..MaxAborts

\* Back-pressure: the producer is ahead of the consumer by a full queue, the item it
\* is pushing, and the one that is held back (push).
BoundedAhead == TypeOK /\ pulled - Len(delivered) <= Capacity + 2

\* The items are delivered in the order of the source and without gaps, and the
\* queue is only known to have stopped when all of them have been delivered, or are
\* in the batch that is being delivered (batches, is_stopped).
OrderIsKept == /\ \A i \in DOMAIN delivered : delivered[i] = i
               /\ stopped => finished /\ Len(delivered) = pulled

\* The abort callback is run last: no item is pending then, and the producer has
\* ended or runs it itself; nor is anything left when the awaitable of an abort is
\* done, and nothing resumes later: "... so that no asynchronous work is left behind
\* unsettled" (the docstring of the class, _run, abort, _cleanup).
CleanupIsLast ==
  [][/\ closings' > closings => /\ Pending = {}
                                /\ Running => producer = "settling"
     /\ cleaner' = "done" => ~ Running' /\ Pending' = {}]_vars

\* The iteration over the batches ends, unless the queue is aborted by a caller; and
\* whenever it is aborted, a producer whose source is exhausted does not stay parked
\* on the full queue (batches, abort).
BatchesEnd ==
  /\ <>(consumer \in {"ended", "raised", "cancelled"} \/ aborts > 0)
  /\ aborts > 0 /\ finished ~> ~ Running

\* "A failure of the stream is raised only after all results settled before the failure
\* have been delivered" (the docstring of batches()): the iteration only ends with a
\* CancelledError if its caller, or an abort, has asked for it.  The code violates
\* this when the source fails while items are pending.
FailureIsRaised == consumer = "cancelled" => dropped \/ aborts > 0
=============================================================================
