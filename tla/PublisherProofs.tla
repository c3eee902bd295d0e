--------------------------- MODULE PublisherProofs ---------------------------
(***************************************************************************)
(* The ids of the publisher: they are announced before they are used, never *)
(* used twice, and the client's view of what is pending is that of the     *)
(* publisher and of the work queue, for every forest of groups, every      *)
(* assignment of tasks to groups, and any number of streams.  The theorems *)
(* about the queue are carried over to the composition, and its finally    *)
(* block is shown to leave no tracked work behind.                         *)
(***************************************************************************)
EXTENDS IncrementalPublisher, WorkQueueReportProofs

-----------------------------------------------------------------------------
(* What a step of the work queue adds to the batch, and to the history.     *)

Completed == succeeded \cup failed

\* What an event announces, and whether its node is no longer pending then.
Announces(e) == IF e.kind \in {"groupSuccess", "streamValues"} THEN e.newGroups \cup e.newStreams
                ELSE {}
Completes(e) == e.kind \notin {"streamValues", "termination"}

\* The values that an event reports.
ValuesOf(e) == IF e.kind = "groupSuccess" THEN e.values ELSE {}

\* The events es are added to the batch, and say all that is announced, completed and delivered.
Books(es) ==
  /\ Adds(es)
  /\ announced \subseteq announced' /\ Completed \subseteq Completed'
  /\ \A i \in DOMAIN es : /\ Announces(es[i]) \subseteq announced' \ Completed'
                          /\ Completes(es[i]) => es[i].node \in Completed'
  /\ \A n \in announced' : n \in announced \/ \E i \in DOMAIN es : n \in Announces(es[i])
  /\ \A n \in Completed' : n \in Completed \/ \E i \in DOMAIN es : Completes(es[i]) /\ es[i].node = n
  /\ \A i, j \in DOMAIN es : i < j /\ Completes(es[i]) => es[i].node # es[j].node
  /\ delivered' = delivered \cup UNION {ValuesOf(es[i]) : i \in DOMAIN es}

\* What is pending is what is in the roots.
LEMMA PendingIsRoot == RInv => announced \ Completed = rootGroups \cup rootStreams
<1> SUFFICES ASSUME RInv PROVE announced \ Completed = rootGroups \cup rootStreams
  OBVIOUS
<1>1. announced \subseteq Nodes
  BY StreamTypes DEF RInv, SInv
<1>2. /\ \A g \in rootGroups : g \in announced /\ g \notin Completed
      /\ \A s \in rootStreams : s \in announced /\ s \notin Completed
  BY RootsAreUnreported DEF Completed
<1>3. announced \cap Groups \subseteq rootGroups \cup Completed
  BY DEF RInv, GroupInv, GroupsAreBooked, Completed
<1>4. announced \cap Streams \subseteq rootStreams \cup Completed
  BY DEF RInv, StreamInv, StreamsAreBooked, Completed
<1> QED BY <1>1, <1>2, <1>3, <1>4 DEF Nodes

LEMMA QuietBooks ==
  ASSUME RInv, batch' = batch, UNCHANGED <<announced, succeeded, failed, delivered>>
  PROVE  Books(<<>>)
<1>1. batch \in Seq(WorkQueueEvents)
  BY StreamTypes DEF RInv, SInv
<1>2. Adds(<<>>)
  BY <1>1 DEF Adds
<1> QED BY <1>2 DEF Books, Completed

\* A single event, and two of them.
LEMMA OneEvent ==
  ASSUME RInv, NEW e \in WorkQueueEvents, batch' = Append(batch, e)
  PROVE  Adds(<<e>>)
<1>1. batch \in Seq(WorkQueueEvents)
  BY StreamTypes DEF RInv, SInv
<1> DEFINE es == <<e>>
<1>2. es \in Seq(WorkQueueEvents) /\ batch' = batch \o es
  BY <1>1
<1> QED BY <1>2 DEF Adds

LEMMA EndBooks == ASSUME RInv, EndBatch PROVE \E es : Books(es)
<1> DEFINE end == Event("termination", NoGroup, {}, {}, {})
<1>1. UNCHANGED <<announced, succeeded, failed, delivered>>
  BY DEF EndBatch, history
<1>2. CASE batch' = batch
  BY <1>1, <1>2, QuietBooks
<1>3. CASE batch' = Append(batch, end)
  <2>1. /\ end \in WorkQueueEvents /\ Announces(end) = {} /\ ~ Completes(end) /\ ValuesOf(end) = {}
    BY DEF Event, WorkQueueEvents, Announces, Completes, ValuesOf
  <2> HIDE DEF end
  <2>2. Adds(<<end>>)
    BY <1>3, <2>1, OneEvent
  <2>3. Books(<<end>>)
    BY <1>1, <2>1, <2>2 DEF Books, Completed
  <2> QED BY <2>3
<1>4. batch' = batch \/ batch' = Append(batch, end)
  BY DEF EndBatch
<1> QED BY <1>2, <1>3, <1>4

LEMMA FailureBooks ==
  ASSUME RInv, NEW t \in Tasks, HandleTaskFailure(t)
  PROVE  \E es : Books(es)
<1> DEFINE hit == GroupsOf[t] \cap graph.nodes
<1>1. IInv /\ hit \in SUBSET Groups /\ IsFiniteSet(hit)
  <2>1. IInv /\ hit \in SUBSET Groups
    BY GroupTypes DEF RInv, SInv
  <2> HIDE DEF hit
  <2> QED BY <2>1, GroupsAreFinite
<1>2. PICK order \in Orders(hit) :
         batch' = batch \o [i \in DOMAIN order |-> Event("groupFailure", order[i], {}, {}, {})]
  BY DEF HandleTaskFailure
<1>3. UNCHANGED <<announced, succeeded, delivered>> /\ failed' = failed \cup hit
  BY DEF HandleTaskFailure
<1> HIDE DEF hit
<1> DEFINE es == [i \in DOMAIN order |-> Event("groupFailure", order[i], {}, {}, {})]
<1>4. Adds(es)
  BY <1>1, <1>2, FailureAdds
<1>5. /\ \A i \in DOMAIN order : order[i] \in hit
      /\ \A i, j \in DOMAIN order : order[i] = order[j] => i = j
      /\ \A g \in hit : \E i \in DOMAIN order : order[i] = g
  <2>1. \A g \in hit : \E i \in DOMAIN order : order[i] = g
    BY <1>2 DEF Orders
  <2> QED BY <1>1, <2>1, OrdersAreSequences
<1>6. \A i \in DOMAIN order : /\ Announces(es[i]) = {} /\ ValuesOf(es[i]) = {}
                              /\ Completes(es[i]) /\ es[i].node = order[i]
  BY DEF Event, Announces, Completes, ValuesOf
<1>7. DOMAIN es = DOMAIN order /\ DOMAIN order \subseteq Int
  BY <1>1, <1>2, OrdersAreSequences
<1> HIDE DEF es
<1>8. Books(es)
  BY <1>3, <1>4, <1>5, <1>6, <1>7 DEF Books, Completed
<1> QED BY <1>8

LEMMA StreamEndBooks ==
  ASSUME RInv, NEW s \in Streams, HandleStreamSuccess(s) \/ HandleStreamFailure(s)
  PROVE  \E es : Books(es)
<1>1. CASE batch' = batch /\ UNCHANGED <<announced, succeeded, failed, delivered>>
  BY <1>1, QuietBooks
<1>2. ASSUME NEW kind \in {"streamSuccess", "streamFailure"},
             batch' = Append(batch, Event(kind, s, {}, {}, {})),
             UNCHANGED <<announced, delivered>>, Completed' = Completed \cup {s}
      PROVE  \E es : Books(es)
  <2> DEFINE e == Event(kind, s, {}, {}, {})
  <2>1. /\ e \in WorkQueueEvents /\ Announces(e) = {} /\ Completes(e) /\ e.node = s
        /\ ValuesOf(e) = {}
    BY DEF Event, WorkQueueEvents, Announces, Completes, Nodes, ValuesOf
  <2>2. batch' = Append(batch, e)
    BY <1>2
  <2> HIDE DEF e
  <2>3. Adds(<<e>>)
    BY <2>1, <2>2, OneEvent
  <2>4. Books(<<e>>)
    BY <1>2, <2>1, <2>3 DEF Books
  <2> QED BY <2>4
<1>3. ASSUME HandleStreamFailure(s) PROVE \E es : Books(es)
  BY <1>2, <1>3 DEF HandleStreamFailure, Completed
<1>4. ASSUME HandleStreamSuccess(s) PROVE \E es : Books(es)
  BY <1>1, <1>2, <1>4 DEF HandleStreamSuccess, Completed
<1> QED BY <1>3, <1>4

LEMMA PendingIsRootNext == RInv' => (announced \ Completed = rootGroups \cup rootStreams)'
BY PendingIsRoot, PTL

LEMMA ItemsBooks ==
  ASSUME RInv, RInv', NEW s \in Streams, NEW work \in RootWork, TakeItems(s, work),
         Handling("items", s)
  PROVE  \E es : Books(es)
<1> DEFINE top      == {g \in work.groups : Parent[g] = NoGroup}
           promoted == Promoted(Integrate(graph, work), top)
           isLast   == queue[s] = "stopped"
           values   == Event("streamValues", s, {}, promoted, work.streams)
           success  == Event("streamSuccess", s, {}, {}, {})
           es       == IF isLast THEN <<values, success>> ELSE <<values>>
<1>1. /\ rootGroups' = rootGroups \cup promoted
      /\ rootStreams' = (rootStreams \cup work.streams) \ (IF isLast THEN {s} ELSE {})
      /\ batch' = batch \o <<values>> \o (IF isLast THEN <<success>> ELSE <<>>)
      /\ announced' = announced \cup promoted \cup work.streams
      /\ succeeded' = (IF isLast THEN succeeded \cup {s} ELSE succeeded)
      /\ UNCHANGED <<failed, delivered>>
  BY DEF TakeItems
<1>2. /\ s \in rootStreams /\ \A r \in work.streams : r \notin announced /\ r \in Streams
      /\ s \in announced /\ batch \in Seq(WorkQueueEvents)
  <2>1. SInv /\ IInv /\ IInv' /\ StreamInv
    BY DEF RInv, SInv
  <2>2. s \in rootStreams /\ \A r \in work.streams : r \notin announced
    BY <2>1, ItemsStreams
  <2> QED BY <2>1, <2>2, NewStreamsAreNew, RootsAreUnreported, StreamTypes
<1>3. (announced \ Completed)' = rootGroups' \cup rootStreams' /\ rootGroups' \subseteq Groups
  BY PendingIsRootNext, GroupTypes DEF RInv, SInv, IInv, TypeOK
<1> HIDE DEF promoted, isLast
<1>4. /\ values \in WorkQueueEvents /\ success \in WorkQueueEvents
      /\ Announces(values) = promoted \cup work.streams /\ Announces(success) = {}
      /\ ~ Completes(values) /\ Completes(success) /\ success.node = s
      /\ ValuesOf(values) = {} /\ ValuesOf(success) = {}
  <2>1. promoted \subseteq Groups /\ work.streams \subseteq Streams
    BY <1>1, <1>2, <1>3
  <2> QED BY <2>1 DEF Event, WorkQueueEvents, Announces, Completes, Nodes, ValuesOf
<1> HIDE DEF values, success
<1>5. Adds(es)
  <2>1. CASE isLast
    <3>1. es = <<values, success>> /\ batch' = batch \o <<values>> \o <<success>>
      BY <1>1, <2>1
    <3>2. batch \o <<values>> \o <<success>> = batch \o <<values, success>>
      BY <1>2, <1>4, AppendTwo
    <3> QED BY <1>4, <3>1, <3>2 DEF Adds
  <2>2. CASE ~ isLast
    <3>1. es \in Seq(WorkQueueEvents) /\ batch' = batch \o es
      BY <1>1, <1>2, <1>4, <2>2
    <3> QED BY <3>1 DEF Adds
  <2> QED BY <2>1, <2>2
<1>6. Announces(values) \subseteq announced' \ Completed'
  BY <1>1, <1>2, <1>3, <1>4
<1>7. CASE isLast
  <2>1. DOMAIN es = 1..2 /\ es[1] = values /\ es[2] = success /\ Completed' = Completed \cup {s}
    BY <1>1, <1>7 DEF Completed
  <2> HIDE DEF es
  <2>2. Books(es)
    BY <1>1, <1>4, <1>5, <1>6, <2>1 DEF Books
  <2> QED BY <2>2
<1>8. CASE ~ isLast
  <2>1. DOMAIN es = 1..1 /\ es[1] = values /\ Completed' = Completed
    BY <1>1, <1>8 DEF Completed
  <2> HIDE DEF es
  <2>2. Books(es)
    BY <1>1, <1>4, <1>5, <1>6, <2>1 DEF Books
  <2> QED BY <2>2
<1> QED BY <1>7, <1>8

\* What is promoted below several groups is promoted below one of them.
LEMMA PromotedSplits ==
  ASSUME NEW gr, NEW more, more.nodes = gr.nodes, more.children = gr.children,
         more.pending = gr.pending, NEW F, NEW ch, NEW g \in Promoted(more, UNION {ch[f] : f \in F})
  PROVE  \E f \in F : g \in Promoted(gr, ch[f])
<1> DEFINE U == {h \in gr.nodes : gr.pending[h] = 0}
           S == UNION {ch[f] : f \in F}
           R == UNION {Reached(gr, U, ch[f]) : f \in F}
<1>1. /\ Empty(more, S) = Reached(gr, U, S)
      /\ \A f \in F : Empty(gr, ch[f]) = Reached(gr, U, ch[f])
  BY DEF Empty, Reached
<1>2. Reached(gr, U, S) \subseteq R
  <2> HIDE DEF U
  <2>1. ASSUME NEW f \in F
        PROVE  /\ ch[f] \cap U \subseteq Reached(gr, U, ch[f]) /\ Reached(gr, U, ch[f]) \in SUBSET U
               /\ \A r \in Reached(gr, U, ch[f]) : gr.children[r] \cap U \subseteq Reached(gr, U, ch[f])
    BY DEF Reached
  <2>2. /\ R \in SUBSET U /\ S \cap U \subseteq R
        /\ \A r \in R : gr.children[r] \cap U \subseteq R
    BY <2>1
  <2> HIDE DEF R, S
  <2> QED BY <2>2 DEF Reached
<1>3. g \in gr.nodes /\ gr.pending[g] # 0 /\ (g \in S \/ \E e \in Empty(more, S) : g \in gr.children[e])
  BY DEF Promoted
<1>4. CASE g \in S
  BY <1>3, <1>4 DEF Promoted
<1>5. ASSUME NEW e \in Empty(more, S), g \in gr.children[e] PROVE \E f \in F : g \in Promoted(gr, ch[f])
  <2>1. PICK f \in F : e \in Empty(gr, ch[f])
    BY <1>1, <1>2, <1>5
  <2> QED BY <1>3, <1>5, <2>1 DEF Promoted
<1> QED BY <1>3, <1>4, <1>5

LEMMA SuccessBooks ==
  ASSUME RInv, RInv', NEW t \in Tasks, NEW work \in TaskWork(t), Succeed(t, work),
         Handling("ok", t)
  PROVE  \E es : Books(es)
<1> DEFINE fin      == SuccessFinished(t, work)
           gr1      == SuccessGraph(t, work)
           nodes    == SuccessNodes(t, work)
           streams  == SuccessStreams(t, work)
           opened   == SuccessOpened(t, work)
           promoted == Promoted(SuccessRest(t, work), Openings(work, fin))
           own(order, i) == {u \in gr1.tasks[order[i]] \cap nodes :
                               \A j \in 1..(i - 1) : u \notin gr1.tasks[order[j]]}
<1>1. /\ SInv /\ IInv /\ IInv' /\ StreamInv
      /\ (announced \ Completed)' = rootGroups' \cup rootStreams'
  BY PendingIsRootNext DEF RInv, SInv
<1>2. /\ Grows(work, fin, SuccessRest(t, work), SuccessStarts(t, work))
      /\ Openings(work, fin) = SuccessBelow(t, work)
      /\ announced' = announced \cup promoted \cup opened
  BY <1>1, SuccessGrows, SuccessReports
<1>3. PICK order \in Orders(fin) :
         batch' = batch \o FinishEvents(gr1, order, nodes, SuccessValued(t), streams)
  BY DEF Succeed, SuccessGraph, SuccessNodes, SuccessValued, SuccessFinished, SuccessStreams
<1>4. /\ rootGroups' = (rootGroups \ fin) \cup promoted /\ rootStreams' = rootStreams \cup opened
      /\ succeeded' = succeeded \cup fin /\ failed' = failed
  BY <1>2 DEF Succeed, SuccessGraph, SuccessNodes, SuccessFinished, SuccessStreams,
              SuccessDone, SuccessRest, SuccessBelow, SuccessOpened
<1>5. /\ gr1 \in Graph /\ fin \in SUBSET Groups /\ nodes \in SUBSET Tasks
      /\ streams \in [Tasks -> SUBSET Streams]
  <2>1. work \in Work /\ work.streams \subseteq Streams
    BY <1>1, NewWork DEF SInv, Work
  <2>2. gr1 \in Graph
    BY <1>1, SuccessGraphs DEF SInv, Sound
  <2>3. fin \in SUBSET Groups
    BY <2>2 DEF SuccessFinished, Finished, Graph
  <2>4. nodes \in SUBSET Tasks
    BY <1>1, <2>1 DEF SuccessNodes, AtOnce, Work, IInv, TypeOK
  <2>5. streams \in [Tasks -> SUBSET Streams]
    BY <1>1, <2>1 DEF SuccessStreams, IInv, TypeOK
  <2> QED BY <2>2, <2>3, <2>4, <2>5
<1> DEFINE es == FinishEvents(gr1, order, nodes, SuccessValued(t), streams)
<1>6. Adds(es)
  <2> HIDE DEF fin, gr1, nodes, streams
  <2> QED BY <1>1, <1>3, <1>5, FinishReports
<1>7. /\ Cardinality(fin) \in Nat /\ DOMAIN order = 1..Cardinality(fin)
      /\ \A i \in DOMAIN order : order[i] \in fin
      /\ \A i, j \in DOMAIN order : order[i] = order[j] => i = j
      /\ \A g \in fin : \E i \in DOMAIN order : order[i] = g
  <2>1. \A g \in fin : \E i \in DOMAIN order : order[i] = g
    BY <1>3 DEF Orders
  <2>2. IsFiniteSet(fin)
    BY <1>5, GroupsAreFinite
  <2> QED BY <1>3, <2>1, <2>2, OrdersAreSequences
<1>8. /\ DOMAIN es = DOMAIN order
      /\ \A i \in DOMAIN order :
            /\ Completes(es[i]) /\ es[i].node = order[i] /\ es[i].kind = "groupSuccess"
            /\ es[i].newGroups = Promoted(Remove(gr1, fin), gr1.children[order[i]])
            /\ es[i].newStreams = UNION {streams[u] : u \in own(order, i)}
            /\ es[i].values = own(order, i) \cap SuccessValued(t)
  <2>1. {order[i] : i \in DOMAIN order} = fin
    BY <1>7
  <2> HIDE DEF gr1, fin, nodes, streams
  <2> QED BY <2>1 DEF FinishEvents, Event, Completes
<1>9. \A i \in DOMAIN order : es[i].newGroups \subseteq promoted /\ es[i].newStreams \subseteq opened
  <2>1. \A e \in NewEvents : e.newGroups \subseteq promoted /\ e.newStreams \subseteq opened
    BY <1>1, SuccessOpens
  <2>2. \A i \in DOMAIN order : es[i] \in NewEvents
    <3> HIDE DEF es
    <3> QED BY <1>1, <1>6, <1>8, AddsEvents
  <2> QED BY <2>1, <2>2
<1>10. ASSUME NEW g \in promoted PROVE \E i \in DOMAIN order : g \in es[i].newGroups
  <2> DEFINE gr == Remove(gr1, fin)
             more == SuccessRest(t, work)
  <2>1. more.nodes = gr.nodes /\ more.children = gr.children /\ more.pending = gr.pending
    BY DEF SuccessRest, Forget, Remove
  <2>2. g \in Promoted(more, UNION {gr1.children[f] : f \in fin})
    BY <1>2, <1>10 DEF SuccessBelow
  <2> HIDE DEF gr, more, gr1, fin
  <2>3. PICK f \in fin : g \in Promoted(gr, gr1.children[f])
    BY <2>1, <2>2, PromotedSplits
  <2> QED BY <1>7, <1>8, <2>3 DEF gr
<1>11. ASSUME NEW u \in SuccessDone(t, work) PROVE \E i \in DOMAIN order : u \in own(order, i)
  <2>1. PICK g \in fin : u \in gr1.tasks[g] /\ u \in nodes
    BY <1>11 DEF SuccessDone
  <2> DEFINE J == {j \in DOMAIN order : u \in gr1.tasks[order[j]]}
  <2> HIDE DEF gr1, fin, nodes, streams, es, opened
  <2>2. J \in SUBSET Nat /\ J # {}
    BY <1>7, <2>1
  <2>3. PICK m \in J : \A n \in J : m <= n
    <3> HIDE DEF J
    <3> QED BY <2>2, LeastNumber
  <2>4. \A j \in 1..(m - 1) : j \in DOMAIN order /\ ~ (m <= j)
    BY <1>7, <2>3
  <2>5. u \in own(order, m)
    BY <2>1, <2>3, <2>4
  <2> QED BY <2>3, <2>5
<1>12. ASSUME NEW s \in opened PROVE \E i \in DOMAIN order : s \in es[i].newStreams
  <2>1. PICK u \in SuccessDone(t, work) : s \in streams[u]
    BY <1>12 DEF SuccessOpened
  <2>2. PICK i \in DOMAIN order : u \in own(order, i)
    BY <1>11
  <2> QED BY <1>8, <2>1, <2>2
<1>13. DOMAIN order \subseteq Int
  BY <1>7
<1>14. delivered' = delivered \cup (SuccessDone(t, work) \cap SuccessValued(t))
  BY DEF Succeed, SuccessGraph, SuccessNodes, SuccessValued, SuccessFinished, SuccessDone
<1>15. \A i \in DOMAIN order : own(order, i) \subseteq SuccessDone(t, work)
  BY <1>7 DEF SuccessDone
<1>16. delivered' = delivered \cup UNION {ValuesOf(es[i]) : i \in DOMAIN es}
  <2>1. \A i \in DOMAIN es : ValuesOf(es[i]) = own(order, i) \cap SuccessValued(t)
    BY <1>8 DEF ValuesOf
  <2> HIDE DEF fin, gr1, nodes, streams, opened, promoted, es, own
  <2> QED BY <1>8, <1>11, <1>14, <1>15, <2>1
<1> HIDE DEF fin, gr1, nodes, streams, opened, promoted, es
<1>17. \A i \in DOMAIN es : Announces(es[i]) \subseteq announced' \ Completed'
  BY <1>1, <1>4, <1>8, <1>9 DEF Announces
<1>18. \A n \in announced' : n \in announced \/ \E i \in DOMAIN es : n \in Announces(es[i])
  BY <1>2, <1>8, <1>10, <1>12 DEF Announces, promoted, fin, opened
<1>19. Completed' = Completed \cup fin
  BY <1>4 DEF Completed
<1>20. Books(es)
  BY <1>2, <1>6, <1>7, <1>8, <1>13, <1>16, <1>17, <1>18, <1>19 DEF Books
<1> QED BY <1>20

LEMMA NextBooks ==
  ASSUME RInv, RInv', Next, ~ Resume, ~ Cancel
  PROVE  \E es : Books(es)
<1>1. CASE \/ StartEvents \/ Wake
           \/ \E t \in Tasks : PrimeEarly(t) \/ SettleTask(t)
           \/ \E s \in Streams : PumpItems(s) \/ PumpSuccess(s) \/ PumpFailure(s) \/ PumpCancelled(s)
  <2>1. batch' = batch /\ UNCHANGED <<announced, succeeded, failed, delivered>>
    BY <1>1 DEF StartEvents, Wake, PrimeEarly, SettleTask, PumpItems, PumpSuccess,
                PumpFailure, PumpCancelled, loopVars, history
  <2> QED BY <2>1, QuietBooks
<1>2. CASE EndBatch
  BY <1>2, EndBooks
<1>3. ASSUME NEW t \in Tasks, HandleTaskSuccess(t) PROVE \E es : Books(es)
  <2>1. PICK work \in TaskWork(t) : Succeed(t, work) /\ Handling("ok", t)
    BY <1>3 DEF HandleTaskSuccess
  <2> QED BY <2>1, SuccessBooks
<1>4. ASSUME NEW t \in Tasks, HandleTaskFailure(t) PROVE \E es : Books(es)
  BY <1>4, FailureBooks
<1>5. ASSUME NEW s \in Streams, HandleStreamItems(s) PROVE \E es : Books(es)
  <2>1. PICK work \in RootWork : TakeItems(s, work) /\ Handling("items", s)
    BY <1>5 DEF HandleStreamItems
  <2> QED BY <2>1, ItemsBooks
<1>6. ASSUME NEW s \in Streams, HandleStreamSuccess(s) \/ HandleStreamFailure(s)
      PROVE  \E es : Books(es)
  BY <1>6, StreamEndBooks
<1> QED BY <1>1, <1>2, <1>3, <1>4, <1>5, <1>6 DEF Next, Deliver, HandleGraphEvent

-----------------------------------------------------------------------------
(* The ledger of a batch: what a publisher to whom the nodes U are pending  *)
(* will be told by it.                                                      *)

\* Something is announced once, by one event, and completed once, after that; an event about
\* something that goes on, or succeeds, follows its announcement; and what is pending at the
\* end is what was pending, or was announced, and has not been completed.
Told(U, k) == U \cup UNION {Announces(batch[j]) : j \in 1..k}

Ledger(U) ==
  /\ U \subseteq announced \cap Nodes
  /\ \A k \in DOMAIN batch :
       /\ Announces(batch[k]) \subseteq announced \ U
       /\ Completes(batch[k]) => batch[k].node \in Completed
       /\ batch[k].kind \notin {"groupFailure", "termination"} => batch[k].node \in Told(U, k - 1)
       /\ \A j \in 1..k : Completes(batch[j]) => batch[j].node \notin Announces(batch[k])
       /\ \A j \in 1..(k - 1) : Completes(batch[j]) => batch[j].node # batch[k].node
  /\ \A n \in announced \ Completed : n \in Told(U, Len(batch))
  /\ \A n \in Completed \cap Told(U, Len(batch)) :
        \E k \in DOMAIN batch : Completes(batch[k]) /\ batch[k].node = n

\* The line of the ledger for one event.
LEMMA LedgerOf ==
  ASSUME NEW U, Ledger(U), NEW k \in DOMAIN batch
  PROVE  /\ Announces(batch[k]) \subseteq announced \ U
         /\ Completes(batch[k]) => batch[k].node \in Completed
         /\ batch[k].kind \notin {"groupFailure", "termination"} => batch[k].node \in Told(U, k - 1)
         /\ \A j \in 1..k : Completes(batch[j]) => batch[j].node \notin Announces(batch[k])
         /\ \A j \in 1..(k - 1) : Completes(batch[j]) => batch[j].node # batch[k].node
<1>1. \A i \in DOMAIN batch :
         /\ Announces(batch[i]) \subseteq announced \ U
         /\ Completes(batch[i]) => batch[i].node \in Completed
         /\ batch[i].kind \notin {"groupFailure", "termination"} => batch[i].node \in Told(U, i - 1)
         /\ \A j \in 1..i : Completes(batch[j]) => batch[j].node \notin Announces(batch[i])
         /\ \A j \in 1..(i - 1) : Completes(batch[j]) => batch[j].node # batch[i].node
  BY Zenon DEF Ledger
<1> QED BY <1>1, Zenon

\* A batch begins with nothing to tell.
LEMMA LedgerBegins ==
  ASSUME RInv', batch' = <<>>, NEW U, U = announced' \ Completed'
  PROVE  Ledger(U)'
<1>1. announced' \subseteq Nodes
  BY DEF RInv, SInv, IInv, TypeOK
<1>2. DOMAIN batch' = {} /\ Len(batch') = 0 /\ 1..0 = {}
  BY SMT
<1>3. Told(U, 0)' = U
  BY <1>2 DEF Told
<1> QED BY <1>1, <1>2, <1>3 DEF Ledger

\* A step of the queue goes on with it.
LEMMA LedgerGrows ==
  ASSUME RInv, RInv', EventsAreFresh, NEW U, Ledger(U), NEW es, Books(es)
  PROVE  Ledger(U)'
<1>0. PICK L : L = Len(batch)
  OBVIOUS
<1>1. /\ batch \in Seq(WorkQueueEvents) /\ es \in Seq(WorkQueueEvents) /\ batch' = batch \o es
      /\ announced \subseteq Nodes
  BY StreamTypes DEF RInv, SInv, Books, Adds
<1>2. /\ L \in Nat /\ Len(es) \in Nat /\ Len(batch') = L + Len(es)
      /\ DOMAIN batch = 1..L /\ DOMAIN es = 1..Len(es) /\ DOMAIN batch' = 1..(L + Len(es))
      /\ \A i \in 1..L : batch'[i] = batch[i]
      /\ \A i \in 1..Len(es) : batch'[L + i] = es[i]
  BY <1>0, <1>1
<1>3. \A i \in DOMAIN es : Fresh(es[i])
  <2>1. Adds(es) /\ IInv
    BY DEF Books, RInv, SInv
  <2> QED BY <2>1, AddsEvents DEF EventsAreFresh
<1>4. \A k \in 1..(L + Len(es)) : k \in 1..L \/ (k > L /\ k - L \in 1..Len(es) /\ batch'[k] = es[k - L])
  <2> TAKE k \in 1..(L + Len(es))
  <2>1. k \in 1..L \/ (k > L /\ k - L \in 1..Len(es) /\ k = L + (k - L))
    BY <1>2
  <2> QED BY <1>2, <2>1
<1>5. \A k \in 0..L : Told(U, k)' = Told(U, k)
  <2> TAKE k \in 0..L
  <2>1. \A j \in 1..k : j \in 1..L
    BY <1>2
  <2>2. \A j \in 1..k : batch'[j] = batch[j]
    BY <1>2, <2>1
  <2> QED BY <2>2 DEF Told
<1>6. \A k \in 0..(L + Len(es)) : k >= L => Told(U, L) \subseteq Told(U, k)'
  <2> SUFFICES ASSUME NEW k \in 0..(L + Len(es)), k >= L PROVE Told(U, L) \subseteq Told(U, k)'
    OBVIOUS
  <2>1. \A j \in 1..L : j \in 1..k /\ batch'[j] = batch[j]
    BY <1>2
  <2> QED BY <2>1 DEF Told
<1>7. \A n \in Told(U, L + Len(es))' :
         n \in Told(U, L) \/ \E i \in 1..Len(es) : n \in Announces(es[i])
  <2> SUFFICES ASSUME NEW n \in Told(U, L + Len(es))', n \notin U
               PROVE  n \in Told(U, L) \/ \E i \in 1..Len(es) : n \in Announces(es[i])
    BY DEF Told
  <2>1. PICK j \in 1..(L + Len(es)) : n \in Announces(batch'[j])
    BY DEF Told
  <2>2. CASE j \in 1..L
    BY <1>2, <2>1, <2>2 DEF Told
  <2>3. CASE j \notin 1..L
    BY <1>4, <2>1, <2>3
  <2> QED BY <2>2, <2>3
<1>8. \A n \in announced \ Completed : n \in Told(U, L)
  BY <1>0 DEF Ledger
<1>9. ASSUME NEW k \in DOMAIN batch'
      PROVE  /\ Announces(batch'[k]) \subseteq announced' \ U
             /\ Completes(batch'[k]) => batch'[k].node \in Completed'
             /\ batch'[k].kind \notin {"groupFailure", "termination"} =>
                   batch'[k].node \in Told(U, k - 1)'
             /\ \A j \in 1..k : Completes(batch'[j]) => batch'[j].node \notin Announces(batch'[k])
             /\ \A j \in 1..(k - 1) : Completes(batch'[j]) => batch'[j].node # batch'[k].node
  <2>1. CASE k \in 1..L
    <3>1. batch'[k] = batch[k] /\ \A j \in 1..k : batch'[j] = batch[j] /\ k \in DOMAIN batch
      BY <1>2, <2>1
    <3>2. Told(U, k - 1)' = Told(U, k - 1)
      BY <1>2, <1>5, <2>1
    <3>3. announced \subseteq announced' /\ Completed \subseteq Completed'
      BY DEF Books
    <3>4. 1..(k - 1) \subseteq 1..k
      BY <1>2, <2>1
    <3>5. /\ Announces(batch[k]) \subseteq announced \ U
          /\ Completes(batch[k]) => batch[k].node \in Completed
          /\ batch[k].kind \notin {"groupFailure", "termination"} => batch[k].node \in Told(U, k - 1)
          /\ \A j \in 1..k : Completes(batch[j]) => batch[j].node \notin Announces(batch[k])
          /\ \A j \in 1..(k - 1) : Completes(batch[j]) => batch[j].node # batch[k].node
      <4>1. k \in DOMAIN batch
        BY <1>2, <2>1
      <4> QED BY <4>1, LedgerOf
    <3> QED BY <3>1, <3>2, <3>3, <3>4, <3>5
  <2>2. CASE k \notin 1..L
    <3> DEFINE i == k - L
               e == es[i]
    <3>1. i \in DOMAIN es /\ batch'[k] = e /\ k > L /\ k \in 1..(L + Len(es))
      BY <1>2, <1>4, <2>2
    <3>2. /\ Announces(e) \subseteq announced' \ Completed'
          /\ Completes(e) => e.node \in Completed'
          /\ Announces(e) \cap announced = {} /\ e.node \notin Completed
          /\ e.kind \notin {"groupFailure", "termination"} => e.node \in announced
      BY <1>3, <3>1 DEF Books, Fresh, Announces, Completed
    <3>3. U \subseteq announced
      BY DEF Ledger
    <3>4. ASSUME e.kind \notin {"groupFailure", "termination"} PROVE e.node \in Told(U, k - 1)'
      <4>1. e.node \in Told(U, L)
        BY <1>8, <3>2, <3>4
      <4>2. k - 1 \in 0..(L + Len(es)) /\ k - 1 >= L
        BY <1>2, <3>1
      <4> QED BY <1>6, <4>1, <4>2
    <3>5. ASSUME NEW j \in 1..k, Completes(batch'[j])
          PROVE  /\ batch'[j].node \in Completed'
                 /\ j # k => batch'[j].node # e.node
      <4>1. CASE j \in 1..L
        <5>1. batch'[j].node \in Completed
          BY <1>2, <3>5, <4>1 DEF Ledger
        <5> QED BY <3>2, <5>1 DEF Books
      <4>2. CASE j \notin 1..L
        <5>1. j \in 1..(L + Len(es))
          BY <1>2, <3>1
        <5>2. j - L \in DOMAIN es /\ batch'[j] = es[j - L] /\ (j # k => j - L < i)
          BY <1>2, <1>4, <3>1, <4>2, <5>1
        <5> QED BY <3>1, <3>5, <5>2 DEF Books
      <4> QED BY <4>1, <4>2
    <3>6. \A j \in 1..(k - 1) : j \in 1..k /\ j # k
      BY <1>2, <3>1
    <3> HIDE DEF e, i
    <3> QED BY <3>1, <3>2, <3>3, <3>4, <3>5, <3>6
  <2> QED BY <2>1, <2>2
<1>10. ASSUME NEW n \in announced' \ Completed' PROVE n \in Told(U, L + Len(es))'
  <2>1. CASE n \in announced
    <3>1. n \in Told(U, L)
      BY <1>8, <1>10, <2>1 DEF Books
    <3> QED BY <1>2, <1>6, <3>1
  <2>2. CASE n \notin announced
    <3>1. PICK i \in 1..Len(es) : n \in Announces(es[i])
      BY <1>2, <1>10, <2>2 DEF Books
    <3>2. L + i \in 1..(L + Len(es)) /\ batch'[L + i] = es[i]
      BY <1>2
    <3> QED BY <1>2, <3>1, <3>2 DEF Told
  <2> QED BY <2>1, <2>2
<1>11. ASSUME NEW n \in Completed', n \in Told(U, L + Len(es))'
       PROVE  \E k \in DOMAIN batch' : Completes(batch'[k]) /\ batch'[k].node = n
  <2>1. CASE n \in Completed
    <3>1. n \in Told(U, L)
      <4>1. \A i \in 1..Len(es) : n \notin Announces(es[i])
        BY <1>2, <1>11 DEF Books
      <4> QED BY <1>2, <1>7, <1>11, <4>1
    <3>2. PICK k \in DOMAIN batch : Completes(batch[k]) /\ batch[k].node = n
      BY <1>0, <2>1, <3>1 DEF Ledger
    <3> QED BY <1>2, <3>2
  <2>2. CASE n \notin Completed
    <3>1. PICK i \in DOMAIN es : Completes(es[i]) /\ es[i].node = n
      BY <1>11, <2>2 DEF Books
    <3>2. L + i \in 1..(L + Len(es)) /\ batch'[L + i] = es[i]
      BY <1>2, <3>1
    <3> QED BY <1>2, <3>1, <3>2
  <2> QED BY <2>1, <2>2
<1>12. U \subseteq announced' \cap Nodes
  BY DEF Ledger, Books
<1>13. Told(U, Len(batch))' = Told(U, L + Len(es))'
  BY <1>2 DEF Told
<1> QED BY <1>9, <1>10, <1>11, <1>12, <1>13 DEF Ledger

\* What a client that has received the values R will receive with the batch: each value that
\* has been delivered and not been received, from one event.
Owed(R) ==
  /\ delivered = R \cup UNION {ValuesOf(batch[k]) : k \in DOMAIN batch}
  /\ \A k \in DOMAIN batch : ValuesOf(batch[k]) \cap R = {}
  /\ \A j, k \in DOMAIN batch : j # k => ValuesOf(batch[j]) \cap ValuesOf(batch[k]) = {}

LEMMA OwedBegins == ASSUME batch' = <<>>, NEW R, R = delivered' PROVE Owed(R)'
<1>1. DOMAIN batch' = {}
  BY SMT
<1> QED BY <1>1 DEF Owed

LEMMA OwedGrows ==
  ASSUME RInv, EventsAreFresh, NEW R, Owed(R), NEW es, Books(es)
  PROVE  Owed(R)'
<1>0. PICK L : L = Len(batch)
  OBVIOUS
<1>1. batch \in Seq(WorkQueueEvents) /\ es \in Seq(WorkQueueEvents) /\ batch' = batch \o es
  BY StreamTypes DEF RInv, SInv, Books, Adds
<1>2. /\ L \in Nat /\ Len(es) \in Nat
      /\ DOMAIN batch = 1..L /\ DOMAIN es = 1..Len(es) /\ DOMAIN batch' = 1..(L + Len(es))
      /\ \A i \in 1..L : batch'[i] = batch[i]
      /\ \A i \in 1..Len(es) : batch'[L + i] = es[i]
  BY <1>0, <1>1
<1>3. ASSUME NEW k \in DOMAIN batch'
      PROVE  \/ k \in DOMAIN batch /\ batch'[k] = batch[k]
             \/ k - L \in DOMAIN es /\ batch'[k] = es[k - L] /\ k > L
  <2>1. k \in 1..(L + Len(es))
    BY <1>2
  <2>2. k \in 1..L \/ (k > L /\ k - L \in 1..Len(es) /\ L + (k - L) = k)
    BY <1>2, <2>1
  <2>3. k \in 1..L => k \in DOMAIN batch /\ batch'[k] = batch[k]
    BY <1>2
  <2>4. k - L \in 1..Len(es) => k - L \in DOMAIN es /\ batch'[L + (k - L)] = es[k - L]
    BY <1>2
  <2> QED BY <2>2, <2>3, <2>4
<1>4. /\ \A k \in DOMAIN batch : k \in DOMAIN batch' /\ batch'[k] = batch[k]
      /\ \A i \in DOMAIN es : L + i \in DOMAIN batch' /\ batch'[L + i] = es[i]
  BY <1>2
<1>5. \A i \in DOMAIN es : es[i] \in NewEvents /\ es[i].values \cap delivered = {}
  <2>1. Adds(es) /\ IInv
    BY DEF Books, RInv, SInv
  <2> QED BY <2>1, AddsEvents DEF EventsAreFresh, Fresh
<1>6. ASSUME NEW i \in DOMAIN es, NEW j \in DOMAIN es, i # j
      PROVE  ValuesOf(es[i]) \cap ValuesOf(es[j]) = {}
  <2>1. CASE es[i] # es[j]
    BY <1>5, <2>1 DEF EventsAreFresh, ValuesOf
  <2>2. CASE es[i] = es[j]
    <3>1. i < j \/ j < i
      BY <1>2, <1>6
    <3>2. ~ Completes(es[i])
      BY <2>2, <3>1 DEF Books
    <3> QED BY <2>2, <3>2 DEF Completes, ValuesOf
  <2> QED BY <2>1, <2>2
<1>7. \A i \in DOMAIN es : ValuesOf(es[i]) \cap delivered = {}
  BY <1>5 DEF ValuesOf
<1>8. \A k \in DOMAIN batch : ValuesOf(batch[k]) \subseteq delivered
  BY DEF Owed
<1>9. delivered' = R \cup UNION {ValuesOf(batch'[k]) : k \in DOMAIN batch'}
  BY <1>3, <1>4 DEF Owed, Books
<1>10. \A k \in DOMAIN batch' : ValuesOf(batch'[k]) \cap R = {}
  <2>1. R \subseteq delivered
    BY DEF Owed
  <2> QED BY <1>3, <1>7, <2>1 DEF Owed
<1>11. ASSUME NEW j \in DOMAIN batch', NEW k \in DOMAIN batch', j # k
       PROVE  ValuesOf(batch'[j]) \cap ValuesOf(batch'[k]) = {}
  <2>1. CASE j - L \in DOMAIN es /\ batch'[j] = es[j - L] /\ k - L \in DOMAIN es /\ batch'[k] = es[k - L]
    <3>1. j - L # k - L
      BY <1>2, <1>11
    <3> QED BY <1>6, <2>1, <3>1
  <2>2. CASE j \in DOMAIN batch /\ batch'[j] = batch[j] /\ k \in DOMAIN batch /\ batch'[k] = batch[k]
    BY <1>11, <2>2 DEF Owed
  <2> QED BY <1>3, <1>7, <1>8, <1>11, <2>1, <2>2
<1> QED BY <1>9, <1>10, <1>11 DEF Owed

-----------------------------------------------------------------------------
(* Ids.                                                                     *)

\* Every id in use is below the next one, and belongs to one node.
Numbered(f, next) ==
  /\ f \in [Nodes -> Nat \cup {NoId}] /\ next \in Nat
  /\ \A n \in Nodes : f[n] < next
  /\ \A m, n \in Nodes : m # n /\ f[m] # NoId => f[m] # f[n]

Using(f)  == {n \in Nodes : f[n] # NoId}
UsedIds(f) == {f[n] : n \in Nodes} \ {NoId}

\* What _ensure_id() does to the ids, for the nodes S.
Ensures(f, next, S, f1, next1) ==
  /\ Numbered(f1, next1) /\ next <= next1
  /\ \A n \in Nodes : n \notin S \/ f[n] # NoId => f1[n] = f[n]
  /\ \A n \in S : f1[n] # NoId /\ (f[n] = NoId => next <= f1[n])

LEMMA NodesAreFinite == ASSUME NEW S \in SUBSET Nodes PROVE IsFiniteSet(S)
<1>1. IsFiniteSet(Nodes)
  BY FinitenessAssumption, PublisherAssumption, FS_Union DEF Nodes
<1> QED BY <1>1, FS_Subset

\* The members of a finite set can be put into an order.
LEMMA OrderExists ==
  ASSUME NEW S, IsFiniteSet(S)
  PROVE  (CHOOSE f \in Orders(S) : TRUE) \in Orders(S)
<1>1. ExistsBijection(1..Cardinality(S), S)
  BY FS_CardinalityType
<1>2. PICK f \in Bijection(1..Cardinality(S), S) : TRUE
  BY <1>1 DEF ExistsBijection
<1>3. f \in [1..Cardinality(S) -> S] /\ DOMAIN f = 1..Cardinality(S)
  BY <1>2 DEF Bijection, Injection
<1>4. /\ \A i, j \in DOMAIN f : f[i] = f[j] => i = j
      /\ \A x \in S : \E i \in DOMAIN f : f[i] = x
  BY <1>2, <1>3 DEF Bijection, Injection, Surjection, IsInjective
<1>5. f \in Orders(S)
  BY <1>3, <1>4 DEF Orders
<1> QED BY <1>5

LEMMA EnsureFacts ==
  ASSUME NEW st, NEW S \in SUBSET Nodes, Numbered(st.ids, st.next)
  PROVE  LET fresh == {n \in S : st.ids[n] = NoId}
             order == CHOOSE f \in Orders(fresh) : TRUE
             place == [n \in fresh |-> CHOOSE i \in DOMAIN order : order[i] = n]
         IN  Ensures(st.ids, st.next, S,
                     [n \in Nodes |-> IF n \in fresh THEN st.next + place[n] - 1 ELSE st.ids[n]],
                     st.next + Cardinality(fresh))
<1> DEFINE fresh == {n \in S : st.ids[n] = NoId}
           order == CHOOSE f \in Orders(fresh) : TRUE
           place == [n \in fresh |-> CHOOSE i \in DOMAIN order : order[i] = n]
           ids1  == [n \in Nodes |-> IF n \in fresh THEN st.next + place[n] - 1 ELSE st.ids[n]]
           next1 == st.next + Cardinality(fresh)
<1>1. fresh \in SUBSET Nodes /\ IsFiniteSet(fresh)
  BY NodesAreFinite
<1> HIDE DEF fresh
<1>2. order \in Orders(fresh)
  BY <1>1, OrderExists
<1> HIDE DEF order
<1>3. /\ Cardinality(fresh) \in Nat /\ DOMAIN order = 1..Cardinality(fresh)
      /\ \A n \in fresh : \E i \in DOMAIN order : order[i] = n
  <2>1. \A n \in fresh : \E i \in DOMAIN order : order[i] = n
    BY <1>2 DEF Orders
  <2> QED BY <1>1, <1>2, <2>1, OrdersAreSequences
<1>4. \A n \in fresh : place[n] \in 1..Cardinality(fresh) /\ order[place[n]] = n
  BY <1>3
<1> HIDE DEF place
<1>5. \A m, n \in fresh : m # n => place[m] # place[n]
  BY <1>4
<1>6. /\ st.next \in Nat /\ \A n \in Nodes : st.ids[n] \in Nat \cup {NoId} /\ st.ids[n] < st.next
      /\ \A m, n \in Nodes : m # n /\ st.ids[m] # NoId => st.ids[m] # st.ids[n]
  BY DEF Numbered
<1>7. ASSUME NEW n \in fresh
      PROVE  /\ ids1[n] \in Nat /\ st.next <= ids1[n] /\ ids1[n] < next1 /\ ids1[n] # NoId
             /\ ids1[n] = st.next + place[n] - 1 /\ place[n] \in Nat
  <2>1. place[n] \in Nat /\ 1 <= place[n] /\ place[n] <= Cardinality(fresh)
    BY <1>3, <1>4
  <2>2. n \in Nodes
    BY <1>1
  <2>3. ids1[n] = st.next + place[n] - 1
    BY <2>2
  <2> HIDE DEF ids1
  <2> QED BY <1>3, <1>6, <2>1, <2>3 DEF NoId
<1>8. \A n \in Nodes : n \notin fresh => ids1[n] = st.ids[n]
  OBVIOUS
<1>9. ids1 \in [Nodes -> Nat \cup {NoId}] /\ next1 \in Nat /\ st.next <= next1
  <2>1. \A n \in Nodes : (IF n \in fresh THEN st.next + place[n] - 1 ELSE st.ids[n]) \in Nat \cup {NoId}
    BY <1>6, <1>7
  <2> QED BY <1>3, <1>6, <2>1
<1> HIDE DEF ids1
<1>10. \A n \in Nodes : ids1[n] < next1
  BY <1>3, <1>6, <1>7, <1>8 DEF NoId
<1> HIDE DEF next1
<1>11. ASSUME NEW m \in Nodes, NEW n \in Nodes, m # n, ids1[m] # NoId PROVE ids1[m] # ids1[n]
  <2>1. CASE m \in fresh /\ n \in fresh
    <3>1. place[m] # place[n] /\ place[m] \in Nat /\ place[n] \in Nat
      BY <1>5, <1>7, <1>11, <2>1
    <3>2. ids1[m] = st.next + place[m] - 1 /\ ids1[n] = st.next + place[n] - 1
      BY <1>7, <2>1
    <3> QED BY <1>6, <3>1, <3>2
  <2>2. CASE m \in fresh /\ n \notin fresh
    <3>1. st.next <= ids1[m] /\ ids1[m] \in Nat /\ ids1[n] = st.ids[n]
      BY <1>7, <1>8, <2>2
    <3>2. st.ids[n] < st.next /\ st.ids[n] \in Nat \cup {NoId}
      BY <1>6
    <3> QED BY <1>6, <3>1, <3>2 DEF NoId
  <2>3. CASE m \notin fresh /\ n \in fresh
    <3>1. st.next <= ids1[n] /\ ids1[n] \in Nat /\ ids1[m] = st.ids[m]
      BY <1>7, <1>8, <2>3
    <3>2. st.ids[m] < st.next /\ st.ids[m] \in Nat \cup {NoId}
      BY <1>6
    <3> QED BY <1>6, <3>1, <3>2 DEF NoId
  <2>4. CASE m \notin fresh /\ n \notin fresh
    BY <1>6, <1>8, <1>11, <2>4
  <2> QED BY <2>1, <2>2, <2>3, <2>4
<1>12. Numbered(ids1, next1)
  BY <1>9, <1>10, <1>11 DEF Numbered
<1>13. \A n \in Nodes : n \notin S \/ st.ids[n] # NoId => ids1[n] = st.ids[n]
  BY <1>8 DEF fresh
<1>14. \A n \in S : ids1[n] # NoId /\ (st.ids[n] = NoId => st.next <= ids1[n])
  BY <1>7, <1>8 DEF fresh
<1>15. Ensures(st.ids, st.next, S, ids1, next1)
  BY <1>9, <1>12, <1>13, <1>14 DEF Ensures
<1> QED BY <1>15 DEF ids1, next1, place, order, fresh

-----------------------------------------------------------------------------
(* The translation of events.                                               *)

Translation == [ids : [Nodes -> Nat \cup {NoId}], next : Nat, pending : SUBSET Nat,
                incremental : SUBSET [id : Nat, task : Tasks \cup {NoGroup}],
                completed : SUBSET [id : Nat, ok : BOOLEAN], hasNext : BOOLEAN]

Done(st) == {c.id : c \in st.completed}

\* The ids that are pending for the client so far.
Known(st) == open \cup st.pending

\* A translation follows the protocol: the ids in use are those the client knows of and has
\* not seen completed; none that is announced was given before the batch, nor are the nodes
\* that the client knew of given a new one; and what is reported is about what it knows, or
\* the failure of something that it has never been told of, under an id that is new.
Follows(st) ==
  /\ st \in Translation /\ Numbered(st.ids, st.next) /\ nextId <= st.next
  /\ UsedIds(st.ids) = Known(st) \ Done(st)
  /\ \A x \in Done(st) : x < st.next /\ (x \in Known(st) \/ nextId <= x)
  /\ \A x \in st.pending : nextId <= x
  /\ \A n \in Nodes : st.ids[n] # NoId /\ st.ids[n] < nextId => ids[n] # NoId
  /\ \A i \in st.incremental : i.id \in Known(st)
  /\ \A c \in st.completed : c.ok => c.id \in Known(st)
  /\ \A c, d \in st.completed : c.id = d.id => c = d

\* The data of a result holds the values V, each once.
Carries(inc, V) == /\ {i.task : i \in inc} \ {NoGroup} = V
                   /\ \A i, j \in inc : i.task = j.task /\ i.task # NoGroup => i = j

LEMMA CarriesMore ==
  ASSUME NEW A, NEW V, Carries(A, V), NEW B, NEW W, Carries(B, W), V \cap W = {}
  PROVE  Carries(A \cup B, V \cup W)
<1>1. \A i \in A : i.task # NoGroup => i.task \in V
  BY DEF Carries
<1>2. \A i \in B : i.task # NoGroup => i.task \in W
  BY DEF Carries
<1>3. {i.task : i \in A \cup B} \ {NoGroup} = V \cup W
  BY DEF Carries
<1>4. \A i, j \in A \cup B : i.task = j.task /\ i.task # NoGroup => i = j
  BY <1>1, <1>2 DEF Carries
<1> QED BY <1>3, <1>4 DEF Carries

LEMMA EnsureIdsDoes ==
  ASSUME NEW st \in Translation, NEW S \in SUBSET Nodes, Numbered(st.ids, st.next)
  PROVE  LET e == EnsureIds(st, S)
         IN  /\ e \in Translation /\ Ensures(st.ids, st.next, S, e.ids, e.next)
             /\ e.pending = st.pending /\ e.incremental = st.incremental
             /\ e.completed = st.completed /\ e.hasNext = st.hasNext
<1> DEFINE fresh == {n \in S : st.ids[n] = NoId}
           order == CHOOSE f \in Orders(fresh) : TRUE
           place == [n \in fresh |-> CHOOSE i \in DOMAIN order : order[i] = n]
           ids1  == [n \in Nodes |-> IF n \in fresh THEN st.next + place[n] - 1 ELSE st.ids[n]]
           next1 == st.next + Cardinality(fresh)
<1>1. Ensures(st.ids, st.next, S, ids1, next1)
  BY EnsureFacts
<1>2. EnsureIds(st, S) = [st EXCEPT !.ids = ids1, !.next = next1]
  BY DEF EnsureIds
<1> HIDE DEF ids1, next1
<1>3. ids1 \in [Nodes -> Nat \cup {NoId}] /\ next1 \in Nat
  BY <1>1 DEF Ensures, Numbered
<1> QED BY <1>1, <1>2, <1>3 DEF Translation

\* Nodes that have an id keep it, and nothing else changes.
LEMMA EnsureUsed ==
  ASSUME NEW st \in Translation, NEW S \in SUBSET Nodes, Numbered(st.ids, st.next),
         S \subseteq Using(st.ids)
  PROVE  EnsureIds(st, S) = st
<1> DEFINE fresh == {n \in S : st.ids[n] = NoId}
<1>1. fresh = {}
  BY DEF Using
<1>2. Cardinality(fresh) = 0
  BY <1>1, FS_EmptySet
<1>3. EnsureIds(st, S).next = st.next
  <2>1. EnsureIds(st, S).next = st.next + Cardinality(fresh)
    BY DEF EnsureIds, Translation
  <2> HIDE DEF fresh
  <2> QED BY <1>2, <2>1 DEF Translation
<1>4. EnsureIds(st, S).ids = st.ids
  <2>1. EnsureIds(st, S) \in Translation /\ \A n \in Nodes : EnsureIds(st, S).ids[n] = st.ids[n]
    BY EnsureIdsDoes DEF Ensures, Using
  <2> HIDE DEF EnsureIds
  <2> QED BY <2>1 DEF Translation
<1>5. /\ EnsureIds(st, S) \in Translation
      /\ EnsureIds(st, S).pending = st.pending /\ EnsureIds(st, S).incremental = st.incremental
      /\ EnsureIds(st, S).completed = st.completed /\ EnsureIds(st, S).hasNext = st.hasNext
  BY EnsureIdsDoes
<1> QED BY <1>3, <1>4, <1>5 DEF Translation

\* An announcement: the nodes were not known to the client before the batch.
LEMMA AnnounceFollows ==
  ASSUME NEW st, Follows(st), NEW S \in SUBSET Nodes, \A n \in S : ids[n] = NoId, nextId \in Nat
  PROVE  /\ Follows(Announce(st, S))
         /\ Using(Announce(st, S).ids) = Using(st.ids) \cup S
         /\ Announce(st, S).hasNext = st.hasNext
         /\ Announce(st, S).incremental = st.incremental
<1> DEFINE e == EnsureIds(st, S)
           more == {e.ids[n] : n \in S}
           a == Announce(st, S)
<1>1. /\ st \in Translation /\ Numbered(st.ids, st.next) /\ nextId <= st.next
      /\ UsedIds(st.ids) = Known(st) \ Done(st)
      /\ st.ids \in [Nodes -> Nat \cup {NoId}]
  BY DEF Follows, Translation
<1>2. /\ e \in Translation /\ Ensures(st.ids, st.next, S, e.ids, e.next)
      /\ e.pending = st.pending /\ e.incremental = st.incremental
      /\ e.completed = st.completed /\ e.hasNext = st.hasNext
  BY <1>1, EnsureIdsDoes
<1>3. a = [e EXCEPT !.pending = st.pending \cup more]
  BY DEF Announce
<1> HIDE DEF e, a
<1>4. /\ e.ids \in [Nodes -> Nat \cup {NoId}] /\ e.next \in Nat /\ st.next \in Nat
      /\ \A n \in S : n \in Nodes /\ e.ids[n] \in Nat
  BY <1>1, <1>2 DEF Ensures, Numbered
<1>5. /\ a \in Translation /\ a.ids = e.ids /\ a.next = e.next /\ a.pending = st.pending \cup more
      /\ a.incremental = st.incremental /\ a.completed = st.completed /\ a.hasNext = st.hasNext
  <2>1. more \in SUBSET Nat
    BY <1>4
  <2> HIDE DEF more
  <2> QED BY <1>1, <1>2, <1>3, <2>1 DEF Translation
<1>6. Using(e.ids) = Using(st.ids) \cup S
  BY <1>2 DEF Using, Ensures
<1>7. \A x \in Done(st) : x < st.next /\ x \in Int /\ (x \in Known(st) \/ nextId <= x)
  BY <1>1 DEF Follows, Done, Translation
<1>8. \A n \in S : e.ids[n] \notin Done(st)
  <2> SUFFICES ASSUME NEW n \in S PROVE e.ids[n] \notin Done(st)
    OBVIOUS
  <2>1. CASE st.ids[n] = NoId
    <3>1. st.next <= e.ids[n]
      BY <1>2, <2>1 DEF Ensures
    <3> QED BY <1>4, <1>7, <3>1
  <2>2. CASE st.ids[n] # NoId
    <3>1. e.ids[n] = st.ids[n]
      BY <1>2, <1>4, <2>2 DEF Ensures
    <3>2. st.ids[n] \in UsedIds(st.ids)
      BY <1>4, <2>2 DEF UsedIds
    <3> QED BY <1>1, <3>1, <3>2
  <2> QED BY <2>1, <2>2
<1>9. UsedIds(e.ids) = UsedIds(st.ids) \cup more
  <2>1. \A n \in Nodes : e.ids[n] = st.ids[n] \/ n \in S
    BY <1>2 DEF Ensures
  <2>2. \A n \in Nodes : st.ids[n] # NoId => e.ids[n] = st.ids[n]
    BY <1>2 DEF Ensures
  <2>3. \A n \in S : e.ids[n] # NoId
    BY <1>2 DEF Ensures
  <2> QED BY <1>4, <2>1, <2>2, <2>3 DEF UsedIds
<1>10. \A n \in S : nextId <= e.ids[n]
  <2> SUFFICES ASSUME NEW n \in S PROVE nextId <= e.ids[n]
    OBVIOUS
  <2>1. CASE st.ids[n] = NoId
    <3>1. st.next <= e.ids[n]
      BY <1>2, <2>1 DEF Ensures
    <3> QED BY <1>1, <1>4, <3>1
  <2>2. CASE st.ids[n] # NoId
    <3>1. e.ids[n] = st.ids[n] /\ n \in Nodes
      BY <1>2, <1>4, <2>2 DEF Ensures
    <3>2. ~ (st.ids[n] < nextId)
      BY <2>2, <3>1 DEF Follows
    <3> QED BY <1>4, <3>1, <3>2
  <2> QED BY <2>1, <2>2
<1>11. \A n \in Nodes : e.ids[n] # NoId /\ e.ids[n] < nextId => ids[n] # NoId
  <2> SUFFICES ASSUME NEW n \in Nodes, e.ids[n] # NoId, e.ids[n] < nextId PROVE ids[n] # NoId
    OBVIOUS
  <2>1. n \notin S
    BY <1>4, <1>10
  <2>2. e.ids[n] = st.ids[n]
    BY <1>2, <2>1 DEF Ensures
  <2> QED BY <2>2 DEF Follows
<1>12. Known(a) = Known(st) \cup more /\ Done(a) = Done(st)
  BY <1>5 DEF Known, Done
<1>13. UsedIds(a.ids) = Known(a) \ Done(a)
  BY <1>1, <1>5, <1>8, <1>9, <1>12
<1>14. /\ Numbered(a.ids, a.next) /\ nextId <= a.next
       /\ \A x \in Done(a) : x < a.next /\ (x \in Known(a) \/ nextId <= x)
  <2>1. Numbered(e.ids, e.next) /\ st.next <= e.next
    BY <1>2 DEF Ensures
  <2> QED BY <1>1, <1>4, <1>5, <1>7, <1>12, <2>1
<1>15. \A x \in a.pending : nextId <= x
  BY <1>5, <1>10 DEF Follows
<1> HIDE DEF more
<1>16. Follows(a)
  BY <1>5, <1>11, <1>12, <1>13, <1>14, <1>15 DEF Follows
<1> QED BY <1>5, <1>6, <1>16 DEF a


\* A completion: with success only of a node that has an id.  A group that fails before it was
\* announced is given an id that the client does not know of.
LEMMA CompleteFollows ==
  ASSUME NEW st, Follows(st), NEW n \in Nodes, NEW ok \in BOOLEAN, ok => st.ids[n] # NoId,
         nextId \in Nat
  PROVE  /\ Follows(Complete(st, n, ok))
         /\ Using(Complete(st, n, ok).ids) = Using(st.ids) \ {n}
         /\ Complete(st, n, ok).hasNext = st.hasNext
         /\ Complete(st, n, ok).incremental = st.incremental
<1> DEFINE e == EnsureIds(st, {n})
           c == Complete(st, n, ok)
           new == [id |-> e.ids[n], ok |-> ok]
<1>1. /\ st \in Translation /\ Numbered(st.ids, st.next) /\ nextId <= st.next
      /\ UsedIds(st.ids) = Known(st) \ Done(st)
      /\ st.ids \in [Nodes -> Nat \cup {NoId}] /\ st.next \in Nat
  BY DEF Follows, Translation
<1>2. /\ e \in Translation /\ Ensures(st.ids, st.next, {n}, e.ids, e.next)
      /\ e.pending = st.pending /\ e.incremental = st.incremental
      /\ e.completed = st.completed /\ e.hasNext = st.hasNext
  BY <1>1, EnsureIdsDoes
<1>3. c = [e EXCEPT !.completed = st.completed \cup {new}, !.ids = [e.ids EXCEPT ![n] = NoId]]
  BY DEF Complete
<1> HIDE DEF e, c
<1>4. /\ e.ids \in [Nodes -> Nat \cup {NoId}] /\ e.next \in Nat /\ e.ids[n] \in Nat
      /\ st.next <= e.next /\ e.ids[n] < e.next /\ Numbered(e.ids, e.next)
      /\ \A m \in Nodes : m # n \/ st.ids[n] # NoId => e.ids[m] = st.ids[m]
      /\ st.ids[n] = NoId => st.next <= e.ids[n]
  BY <1>1, <1>2 DEF Ensures, Numbered
<1>5. new \in [id : Nat, ok : BOOLEAN] /\ new.id = e.ids[n] /\ new.ok = ok
  BY <1>4
<1> HIDE DEF new
<1>6. /\ c \in Translation /\ c.ids = [e.ids EXCEPT ![n] = NoId] /\ c.next = e.next
      /\ c.pending = st.pending /\ c.incremental = st.incremental /\ c.hasNext = st.hasNext
      /\ c.completed = st.completed \cup {new}
  BY <1>1, <1>2, <1>3, <1>4, <1>5 DEF Translation
<1>7. c.ids[n] = NoId /\ \A m \in Nodes : m # n => c.ids[m] = st.ids[m]
  BY <1>4, <1>6
<1>8. \A x \in Done(st) : x < st.next /\ x \in Int /\ (x \in Known(st) \/ nextId <= x)
  BY <1>1 DEF Follows, Done, Translation
<1>9. e.ids[n] \notin Done(st)
  <2>1. CASE st.ids[n] = NoId
    BY <1>1, <1>4, <1>8, <2>1
  <2>2. CASE st.ids[n] # NoId
    BY <1>1, <1>4, <2>2 DEF UsedIds
  <2> QED BY <2>1, <2>2
<1>10. Known(c) = Known(st) /\ Done(c) = Done(st) \cup {e.ids[n]}
  BY <1>5, <1>6 DEF Known, Done
<1>11. UsedIds(c.ids) = UsedIds(st.ids) \ {e.ids[n]}
  <2>1. ASSUME NEW m \in Nodes, m # n, st.ids[m] # NoId PROVE st.ids[m] # e.ids[n]
    BY <1>4, <2>1 DEF Numbered
  <2>2. \A x \in UsedIds(st.ids) : x = e.ids[n] \/ \E m \in Nodes : m # n /\ st.ids[m] = x /\ x # NoId
    BY <1>4 DEF UsedIds
  <2>3. UsedIds(c.ids) = {st.ids[m] : m \in Nodes \ {n}} \ {NoId}
    BY <1>7 DEF UsedIds
  <2> QED BY <2>1, <2>2, <2>3 DEF UsedIds
<1>12. UsedIds(c.ids) = Known(c) \ Done(c)
  BY <1>1, <1>10, <1>11
<1>13. /\ Numbered(c.ids, c.next) /\ nextId <= c.next
       /\ \A x \in Done(c) : x < c.next /\ (x \in Known(c) \/ nextId <= x)
  <2>1. nextId <= c.next
    BY <1>1, <1>4, <1>6
  <2>2. \A m \in Nodes : c.ids[m] = NoId \/ c.ids[m] = e.ids[m]
    BY <1>4, <1>6
  <2>3. Numbered(c.ids, c.next)
    BY <1>4, <1>6, <2>2 DEF Numbered, NoId
  <2>4. e.ids[n] \in Known(c) \/ nextId <= e.ids[n]
    <3>1. CASE st.ids[n] = NoId
      BY <1>1, <1>4, <3>1
    <3>2. CASE st.ids[n] # NoId
      BY <1>1, <1>4, <1>10, <3>2 DEF UsedIds
    <3> QED BY <3>1, <3>2
  <2> QED BY <1>1, <1>4, <1>6, <1>8, <1>10, <2>1, <2>3, <2>4
<1>14. \A d \in c.completed : d.ok => d.id \in Known(c)
  <2>1. ok => e.ids[n] \in Known(st)
    BY <1>1, <1>4 DEF UsedIds
  <2> QED BY <1>5, <1>6, <1>10, <2>1 DEF Follows
<1>15. \A d, f \in c.completed : d.id = f.id => d = f
  BY <1>5, <1>6, <1>9 DEF Follows, Done
<1>16. \A m \in Nodes : c.ids[m] # NoId /\ c.ids[m] < nextId => ids[m] # NoId
  BY <1>7 DEF Follows
<1>17. (\A x \in c.pending : nextId <= x) /\ \A i \in c.incremental : i.id \in Known(c)
  BY <1>6, <1>10 DEF Follows
<1>18. Follows(c)
  BY <1>6, <1>12, <1>13, <1>14, <1>15, <1>16, <1>17 DEF Follows
<1>19. Using(c.ids) = Using(st.ids) \ {n}
  BY <1>7 DEF Using
<1> QED BY <1>6, <1>18, <1>19 DEF c

\* Data is about what the client knows.
LEMMA IncrementalFollows ==
  ASSUME NEW st, Follows(st), NEW inc \in SUBSET [id : Nat, task : Tasks \cup {NoGroup}],
         \A i \in inc : i.id \in Known(st)
  PROVE  Follows([st EXCEPT !.incremental = st.incremental \cup inc])
<1> DEFINE d == [st EXCEPT !.incremental = st.incremental \cup inc]
<1>1. st \in Translation
  BY DEF Follows
<1>2. /\ d \in Translation /\ d.ids = st.ids /\ d.next = st.next /\ d.pending = st.pending
      /\ d.completed = st.completed /\ d.incremental = st.incremental \cup inc
  BY <1>1 DEF Translation
<1> HIDE DEF d
<1>3. Known(d) = Known(st) /\ Done(d) = Done(st)
  BY <1>2 DEF Known, Done
<1>4. \A i \in d.incremental : i.id \in Known(d)
  BY <1>2, <1>3 DEF Follows
<1>5. Follows(d)
  BY <1>2, <1>3, <1>4 DEF Follows
<1> QED BY <1>5 DEF d

\* One of the groups has the longest path.
LEMMA LongestExists ==
  ASSUME NEW S \in SUBSET Groups, S # {}
  PROVE  \E h \in S : \A k \in S : PathLength[k] <= PathLength[h]
<1>1. /\ IsFiniteSet(S) /\ \A k \in S : PathLength[k] \in Nat
  BY FinitenessAssumption, FS_Subset, PublisherAssumption
<1>2. PICK f \in Orders(S) : TRUE
  BY <1>1, OrderExists
<1>3. /\ Cardinality(S) \in Nat /\ DOMAIN f = 1..Cardinality(S)
      /\ \A i \in DOMAIN f : f[i] \in S
  BY <1>1, <1>2, OrdersAreSequences
<1>4. \A k \in S : \E i \in DOMAIN f : f[i] = k
  BY <1>2 DEF Orders
<1> DEFINE Longest(n) == \E i \in 1..n : \A j \in 1..n : PathLength[f[j]] <= PathLength[f[i]]
           Bad == {n \in 1..Cardinality(S) : ~ Longest(n)}
<1>5. Bad = {}
  <2> SUFFICES ASSUME Bad # {} PROVE FALSE
    OBVIOUS
  <2>1. PICK m \in Bad : \A n \in Bad : m <= n
    <3>1. Bad \in SUBSET Nat
      OBVIOUS
    <3> HIDE DEF Bad
    <3> QED BY <3>1, LeastNumber
  <2>2. m \in 1..Cardinality(S) /\ ~ Longest(m)
    OBVIOUS
  <2>3. m # 1
    <3>1. 1 \in 1..1 /\ (\A j \in 1..1 : j = 1) /\ 1 \in DOMAIN f
      BY <1>3, <2>2
    <3>2. PathLength[f[1]] \in Nat
      BY <1>1, <1>3, <3>1
    <3>3. PathLength[f[1]] <= PathLength[f[1]]
      BY <3>2
    <3>4. Longest(1)
      BY <3>1, <3>3
    <3> QED BY <2>2, <3>4
  <2>4. m - 1 \in 1..Cardinality(S) /\ ~ (m <= m - 1)
    BY <1>3, <2>2, <2>3
  <2>5. PICK i \in 1..(m - 1) : \A j \in 1..(m - 1) : PathLength[f[j]] <= PathLength[f[i]]
    BY <2>1, <2>4
  <2>6. \A j \in 1..m : PathLength[f[j]] \in Nat /\ (j = m \/ j \in 1..(m - 1))
    <3>1. \A j \in 1..m : j \in DOMAIN f /\ (j = m \/ j \in 1..(m - 1))
      <4> DEFINE c == Cardinality(S)
      <4>1. c \in Nat /\ m \in 1..c /\ DOMAIN f = 1..c
        BY <1>3, <2>2
      <4> HIDE DEF c, Bad
      <4> QED BY <4>1
    <3> QED BY <1>1, <1>3, <3>1
  <2>7. i \in 1..m /\ m \in 1..m
    BY <1>3, <2>2, <2>5
  <2> HIDE DEF Bad
  <2>8. CASE PathLength[f[m]] <= PathLength[f[i]]
    BY <2>2, <2>5, <2>6, <2>7, <2>8
  <2>9. CASE ~ (PathLength[f[m]] <= PathLength[f[i]])
    <3>1. \A j \in 1..(m - 1) : PathLength[f[j]] <= PathLength[f[m]]
      BY <2>5, <2>6, <2>7, <2>9
    <3> QED BY <2>2, <2>6, <2>7, <3>1
  <2> QED BY <2>8, <2>9
<1>6. Cardinality(S) \in 1..Cardinality(S)
  BY <1>3, <1>4
<1>7. PICK i \in DOMAIN f : \A j \in DOMAIN f : PathLength[f[j]] <= PathLength[f[i]]
  BY <1>3, <1>5, <1>6
<1> QED BY <1>3, <1>4, <1>7

\* The group chosen for a value has an id.
LEMMA BestIdIsUsed ==
  ASSUME NEW st, NEW g \in Nodes, st.ids[g] # NoId, NEW t \in Tasks
  PROVE  BestId(st, g, t) \in UsedIds(st.ids)
<1> DEFINE known == {h \in GroupsOf[t] : h # g /\ st.ids[h] # NoId}
           best == CHOOSE h \in known : \A k \in known : PathLength[k] <= PathLength[h]
<1>1. known \in SUBSET Groups
  BY ShapeAssumption
<1>2. ASSUME known # {} PROVE best \in known
  <2> HIDE DEF known
  <2>1. \E h \in known : \A k \in known : PathLength[k] <= PathLength[h]
    BY <1>1, <1>2, LongestExists
  <2> QED BY <2>1
<1>3. \A h \in known : h \in Nodes /\ st.ids[h] # NoId
  BY <1>1 DEF Nodes
<1>4. BestId(st, g, t) = IF \E h \in known : PathLength[h] > PathLength[g] THEN st.ids[best]
                         ELSE st.ids[g]
  BY DEF BestId
<1> HIDE DEF known, best
<1>5. BestId(st, g, t) = st.ids[g] \/ (known # {} /\ BestId(st, g, t) = st.ids[best])
  BY <1>4
<1> QED BY <1>2, <1>3, <1>5 DEF UsedIds

\* An event: what it announces was not known to the client before the batch, and its node is
\* pending, except for a group that may fail before it is announced.
LEMMA EventFollows ==
  ASSUME NEW st, Follows(st), NEW e \in WorkQueueEvents, nextId \in Nat,
         \A n \in Announces(e) : ids[n] = NoId,
         Completes(e) => e.node \in Nodes,
         e.kind \notin {"groupFailure", "termination"} => e.node \in Using(st.ids)
  PROVE  /\ Follows(HandleEvent(st, e))
         /\ Using(HandleEvent(st, e).ids) =
               (Using(st.ids) \ (IF Completes(e) THEN {e.node} ELSE {})) \cup Announces(e)
         /\ HandleEvent(st, e).hasNext = (st.hasNext /\ e.kind # "termination")
         /\ \E inc : /\ HandleEvent(st, e).incremental = st.incremental \cup inc
                     /\ Carries(inc, ValuesOf(e))
<1> DEFINE n == e.node
           S == e.newGroups \cup e.newStreams
           h == HandleEvent(st, e)
<1>1. /\ st \in Translation /\ Numbered(st.ids, st.next)
      /\ UsedIds(st.ids) \subseteq Known(st)
      /\ st.ids \in [Nodes -> Nat \cup {NoId}] /\ st.hasNext \in BOOLEAN
  BY DEF Follows, Translation
<1>2. S \in SUBSET Nodes
  BY DEF WorkQueueEvents, Nodes
<1>3. ASSUME n \in Using(st.ids)
      PROVE  n \in Nodes /\ EnsureIds(st, {n}) = st /\ st.ids[n] # NoId /\ st.ids[n] \in Known(st)
  <2>1. n \in Nodes /\ {n} \in SUBSET Nodes /\ {n} \subseteq Using(st.ids) /\ st.ids[n] # NoId
    BY <1>3 DEF Using
  <2> HIDE DEF n
  <2>2. EnsureIds(st, {n}) = st
    BY <1>1, <2>1, EnsureUsed
  <2> QED BY <1>1, <2>1, <2>2 DEF UsedIds
<1>4. CASE e.kind = "groupSuccess"
  <2> DEFINE inc == {[id |-> BestId(st, n, t), task |-> t] : t \in e.values}
             c == Complete(st, n, TRUE)
             d == [c EXCEPT !.incremental = c.incremental \cup inc]
  <2>1. n \in Using(st.ids) /\ Completes(e) /\ Announces(e) = S
    BY <1>4 DEF Completes, Announces
  <2>2. n \in Nodes /\ EnsureIds(st, {n}) = st /\ st.ids[n] # NoId
    BY <1>3, <2>1
  <2>3. Follows(c) /\ Using(c.ids) = Using(st.ids) \ {n} /\ c.hasNext = st.hasNext
    <3> HIDE DEF n
    <3> QED BY <2>2, CompleteFollows
  <2>4. c.incremental = st.incremental /\ Known(c) = Known(st)
    BY <1>1, <2>2 DEF Complete, Translation, Known
  <2>5. h = Announce(d, S)
    BY <1>4, <2>2, <2>4 DEF HandleEvent, GroupIncremental
  <2>11. Carries(inc, ValuesOf(e))
    <3>1. \A t \in e.values : t # NoGroup
      BY DisjointAssumption DEF WorkQueueEvents
    <3>2. ValuesOf(e) = e.values
      BY <1>4 DEF ValuesOf
    <3>3. \A i \in inc : i.task \in e.values
      OBVIOUS
    <3>5. ASSUME NEW t \in e.values PROVE \E i \in inc : i.task = t
      <4>1. [id |-> BestId(st, n, t), task |-> t] \in inc
        OBVIOUS
      <4>2. [id |-> BestId(st, n, t), task |-> t].task = t
        OBVIOUS
      <4> HIDE DEF inc
      <4> QED BY <4>1, <4>2
    <3>4. \A i, j \in inc : i.task = j.task => i = j
      OBVIOUS
    <3> HIDE DEF inc
    <3> QED BY <3>1, <3>2, <3>3, <3>4, <3>5 DEF Carries
  <2> HIDE DEF c, n, S, h
  <2>6. inc \in SUBSET [id : Nat, task : Tasks \cup {NoGroup}] /\ \A i \in inc : i.id \in Known(c)
    <3>1. \A t \in e.values : t \in Tasks /\ BestId(st, n, t) \in UsedIds(st.ids)
      BY <2>2, BestIdIsUsed DEF WorkQueueEvents
    <3>2. UsedIds(st.ids) \subseteq Nat
      BY <1>1 DEF UsedIds
    <3> QED BY <1>1, <2>4, <3>1, <3>2
  <2> HIDE DEF inc
  <2>7. Follows(d)
    BY <2>3, <2>6, IncrementalFollows
  <2>8. d.ids = c.ids /\ d.hasNext = c.hasNext /\ d.incremental = c.incremental \cup inc
    BY <2>3 DEF Follows, Translation
  <2> HIDE DEF d
  <2>9. /\ Follows(Announce(d, S)) /\ Using(Announce(d, S).ids) = Using(d.ids) \cup S
        /\ Announce(d, S).hasNext = d.hasNext /\ Announce(d, S).incremental = d.incremental
    BY <1>2, <2>1, <2>7, AnnounceFollows
  <2>10. n = e.node
    BY DEF n
  <2>12. h.incremental = st.incremental \cup inc
    BY <2>4, <2>5, <2>8, <2>9
  <2> QED BY <1>1, <1>4, <2>1, <2>3, <2>5, <2>8, <2>9, <2>10, <2>11, <2>12 DEF h
<1>5. CASE e.kind = "streamValues"
  <2> DEFINE inc == {[id |-> st.ids[n], task |-> NoGroup]}
             d == [st EXCEPT !.incremental = st.incremental \cup inc]
  <2>1. n \in Using(st.ids) /\ ~ Completes(e) /\ Announces(e) = S
    BY <1>5 DEF Completes, Announces
  <2>2. n \in Nodes /\ EnsureIds(st, {n}) = st /\ st.ids[n] # NoId /\ st.ids[n] \in Known(st)
    BY <1>3, <2>1
  <2>3. h = Announce(d, S)
    BY <1>5, <2>2 DEF HandleEvent
  <2> HIDE DEF n, S, h
  <2>4. inc \in SUBSET [id : Nat, task : Tasks \cup {NoGroup}] /\ \A i \in inc : i.id \in Known(st)
    BY <1>1, <2>2
  <2>8. Carries(inc, ValuesOf(e))
    BY <1>5 DEF Carries, ValuesOf
  <2> HIDE DEF inc
  <2>5. Follows(d)
    BY <2>4, IncrementalFollows
  <2>6. d.ids = st.ids /\ d.hasNext = st.hasNext /\ d.incremental = st.incremental \cup inc
    BY <1>1 DEF Translation
  <2> HIDE DEF d
  <2>7. /\ Follows(Announce(d, S)) /\ Using(Announce(d, S).ids) = Using(d.ids) \cup S
        /\ Announce(d, S).hasNext = d.hasNext /\ Announce(d, S).incremental = d.incremental
    BY <1>2, <2>1, <2>5, AnnounceFollows
  <2>9. h.incremental = st.incremental \cup inc
    BY <2>3, <2>6, <2>7
  <2> QED BY <1>1, <1>5, <2>1, <2>3, <2>6, <2>7, <2>8, <2>9 DEF h
<1>6. CASE e.kind \in {"streamSuccess", "groupFailure", "streamFailure"}
  <2> DEFINE ok == e.kind = "streamSuccess"
  <2>1. n \in Nodes /\ Completes(e) /\ Announces(e) = {}
    BY <1>6 DEF Completes, Announces
  <2>2. ok \in BOOLEAN /\ (ok => st.ids[n] # NoId)
    BY <1>3
  <2>3. h = Complete(st, n, ok)
    <3>1. CASE e.kind = "streamSuccess"
      BY <3>1 DEF HandleEvent
    <3>2. CASE e.kind \in {"groupFailure", "streamFailure"}
      BY <3>2 DEF HandleEvent
    <3> QED BY <1>6, <3>1, <3>2
  <2>4. e.kind # "termination" /\ n = e.node
    BY <1>6
  <2> HIDE DEF n, ok, h
  <2>5. /\ Follows(Complete(st, n, ok)) /\ Using(Complete(st, n, ok).ids) = Using(st.ids) \ {n}
        /\ Complete(st, n, ok).hasNext = st.hasNext
        /\ Complete(st, n, ok).incremental = st.incremental
    BY <2>1, <2>2, CompleteFollows
  <2>6. h.incremental = st.incremental \cup {} /\ Carries({}, ValuesOf(e))
    BY <1>6, <2>3, <2>5 DEF Carries, ValuesOf
  <2> QED BY <1>1, <2>1, <2>3, <2>4, <2>5, <2>6 DEF h
<1>7. CASE e.kind = "termination"
  <2>1. ~ Completes(e) /\ Announces(e) = {}
    BY <1>7 DEF Completes, Announces
  <2>2. h = [st EXCEPT !.hasNext = FALSE]
    BY <1>7 DEF HandleEvent
  <2> HIDE DEF h
  <2>3. /\ h \in Translation /\ h.ids = st.ids /\ h.next = st.next /\ h.pending = st.pending
        /\ h.completed = st.completed /\ h.incremental = st.incremental /\ h.hasNext = FALSE
    BY <1>1, <2>2 DEF Translation
  <2>4. Known(h) = Known(st) /\ Done(h) = Done(st)
    BY <2>3 DEF Known, Done
  <2>5. Follows(h)
    BY <2>3, <2>4 DEF Follows
  <2>6. h.incremental = st.incremental \cup {} /\ Carries({}, ValuesOf(e))
    BY <1>7, <2>3 DEF Carries, ValuesOf
  <2> QED BY <1>7, <2>1, <2>3, <2>5, <2>6 DEF h
<1>8. e.kind \in {"groupSuccess", "groupFailure", "streamValues", "streamSuccess", "streamFailure",
                  "termination"}
  BY DEF WorkQueueEvents
<1> QED BY <1>4, <1>5, <1>6, <1>7, <1>8

-----------------------------------------------------------------------------
(* The translation of a batch.                                              *)

\* The translation of the events es, one after the other.
FoldRule(g, start, es, L) ==
  g = [i \in 0..L |-> IF i = 0 THEN start ELSE HandleEvent(g[i - 1], es[i])]

LEMMA FoldExists ==
  ASSUME NEW start, NEW es, NEW L \in Nat
  PROVE  \E g : FoldRule(g, start, es, L)
<1> DEFINE Fold(n) == \E g : FoldRule(g, start, es, n)
           Bad == {n \in 0..L : ~ Fold(n)}
<1>1. Fold(0)
  <2> DEFINE g == [i \in 0..0 |-> start]
  <2>1. \A i \in 0..0 : i = 0
    OBVIOUS
  <2>2. FoldRule(g, start, es, 0)
    BY <2>1 DEF FoldRule
  <2> QED BY <2>2
<1>2. ASSUME NEW n \in Nat, Fold(n) PROVE Fold(n + 1)
  <2>1. PICK f : FoldRule(f, start, es, n)
    BY <1>2
  <2> DEFINE g == [i \in 0..(n + 1) |-> IF i = n + 1 THEN HandleEvent(f[n], es[n + 1]) ELSE f[i]]
  <2>2. \A i \in 0..(n + 1) : i # n + 1 => i \in 0..n
    OBVIOUS
  <2>3. g[n + 1] = HandleEvent(f[n], es[n + 1]) /\ \A i \in 0..n : g[i] = f[i]
    OBVIOUS
  <2>4. \A i \in 0..n : f[i] = IF i = 0 THEN start ELSE HandleEvent(f[i - 1], es[i])
    BY <2>1 DEF FoldRule
  <2>5. ASSUME NEW i \in 0..(n + 1)
        PROVE  g[i] = IF i = 0 THEN start ELSE HandleEvent(g[i - 1], es[i])
    <3>1. CASE i = n + 1
      <4>1. n \in 0..n /\ i - 1 = n /\ i # 0
        BY <3>1
      <4> HIDE DEF g
      <4> QED BY <2>3, <3>1, <4>1
    <3>2. CASE i # n + 1
      <4>1. i \in 0..n /\ (i # 0 => i - 1 \in 0..n)
        BY <2>2, <3>2
      <4> HIDE DEF g
      <4> QED BY <2>3, <2>4, <4>1
    <3> QED BY <3>1, <3>2
  <2>6. g = [i \in 0..(n + 1) |-> g[i]]
    OBVIOUS
  <2> HIDE DEF g
  <2>7. FoldRule(g, start, es, n + 1)
    BY <2>5, <2>6 DEF FoldRule
  <2> QED BY <2>7
<1>3. Bad = {}
  <2> SUFFICES ASSUME Bad # {} PROVE FALSE
    OBVIOUS
  <2>1. PICK m \in Bad : \A n \in Bad : m <= n
    <3>1. Bad \in SUBSET Nat
      OBVIOUS
    <3> HIDE DEF Bad
    <3> QED BY <3>1, LeastNumber
  <2>2. m \in 0..L /\ ~ Fold(m) /\ m # 0
    BY <1>1
  <2>3. m - 1 \in 0..L /\ ~ (m <= m - 1) /\ m - 1 \in Nat /\ (m - 1) + 1 = m
    BY <2>2
  <2>4. Fold(m - 1)
    BY <2>1, <2>3
  <2> HIDE DEF Fold
  <2> QED BY <1>2, <2>2, <2>3, <2>4
<1>4. L \in 0..L
  OBVIOUS
<1> QED BY <1>3, <1>4

\* The state of the translation of the batch before its first event.
Start == [ids |-> ids, next |-> nextId, pending |-> {}, incremental |-> {}, completed |-> {},
          hasNext |-> TRUE]

LEMMA HandleBatchFolds ==
  ASSUME Len(batch) \in Nat
  PROVE  \E g : FoldRule(g, Start, batch, Len(batch)) /\ HandleBatch(batch) = g[Len(batch)]
<1> DEFINE F == CHOOSE g : g = [i \in 0..Len(batch) |->
                                  IF i = 0 THEN Start ELSE HandleEvent(g[i - 1], batch[i])]
<1>1. HandleBatch(batch) = F[Len(batch)]
  BY DEF HandleBatch, Start
<1>2. FoldRule(F, Start, batch, Len(batch))
  <2>1. \E g : FoldRule(g, Start, batch, Len(batch))
    BY FoldExists
  <2>2. F = CHOOSE g : FoldRule(g, Start, batch, Len(batch))
    BY Zenon DEF FoldRule
  <2> HIDE DEF F
  <2> QED BY <2>1, <2>2, Zenon
<1> QED BY <1>1, <1>2

\* As the ledger has it, the translation follows the protocol, the ids in use after it are those
\* of the nodes that are pending then, only the termination says that nothing follows, and the
\* values of the events are what the client is owed.
LEMMA BatchFollows ==
  ASSUME RInv, Numbered(ids, nextId), open = UsedIds(ids), Ledger(Using(ids)), NEW R, Owed(R)
  PROVE  /\ Follows(HandleBatch(batch))
         /\ Using(HandleBatch(batch).ids) = announced \ Completed
         /\ HandleBatch(batch).hasNext <=> \A k \in DOMAIN batch : batch[k].kind # "termination"
         /\ Carries(HandleBatch(batch).incremental, UNION {ValuesOf(batch[k]) : k \in DOMAIN batch})
<1> DEFINE U == Using(ids)
           Values(k) == UNION {ValuesOf(batch[j]) : j \in 1..k}
           Over(n, k) == \E j \in 1..k : Completes(batch[j]) /\ batch[j].node = n
<1>1. PICK L : L = Len(batch)
  OBVIOUS
<1>2. /\ batch \in Seq(WorkQueueEvents) /\ announced \subseteq Nodes /\ Completed \subseteq Nodes
      /\ L \in Nat /\ DOMAIN batch = 1..L /\ \A k \in 1..L : batch[k] \in WorkQueueEvents
  <2>1. batch \in Seq(WorkQueueEvents) /\ announced \subseteq Nodes /\ Completed \subseteq Nodes
    BY StreamTypes DEF RInv, SInv, Completed
  <2> QED BY <1>1, <2>1
<1>3. PICK g : FoldRule(g, Start, batch, L) /\ HandleBatch(batch) = g[L]
  BY <1>1, <1>2, HandleBatchFolds
<1>4. g[0] = Start /\ \A k \in 1..L : g[k] = HandleEvent(g[k - 1], batch[k])
  <2>1. \A k \in 0..L : g[k] = IF k = 0 THEN Start ELSE HandleEvent(g[k - 1], batch[k])
    BY <1>3 DEF FoldRule
  <2> QED BY <1>2, <2>1
<1> DEFINE Good(k) == /\ Follows(g[k])
                      /\ Using(g[k].ids) = {n \in Told(U, k) : ~ Over(n, k)}
                      /\ g[k].hasNext <=> \A j \in 1..k : batch[j].kind # "termination"
                      /\ Carries(g[k].incremental, Values(k))
           Bad == {k \in 0..L : ~ Good(k)}
<1>5. nextId \in Nat /\ ids \in [Nodes -> Nat \cup {NoId}]
  BY DEF Numbered
<1>6. Good(0)
  <2>1. /\ Start \in Translation /\ Start.ids = ids /\ Start.next = nextId /\ Start.pending = {}
        /\ Start.completed = {} /\ Start.incremental = {} /\ Start.hasNext
    BY <1>5 DEF Start, Translation
  <2> HIDE DEF Start
  <2>2. Known(Start) = open /\ Done(Start) = {}
    BY <2>1 DEF Known, Done
  <2>3. Follows(Start)
    BY <1>5, <2>1, <2>2 DEF Follows
  <2>4. 1..0 = {}
    OBVIOUS
  <2>5. Told(U, 0) = U /\ \A n \in U : ~ Over(n, 0)
    BY <2>4 DEF Told
  <2>6. Carries(Start.incremental, Values(0))
    BY <2>1, <2>4 DEF Carries
  <2> HIDE DEF Values
  <2> QED BY <1>4, <2>1, <2>3, <2>5, <2>6
<1>7. ASSUME NEW k \in 1..L, Good(k - 1) PROVE Good(k)
  <2> DEFINE e == batch[k]
             st == g[k - 1]
  <2>1. k \in DOMAIN batch /\ e \in WorkQueueEvents /\ g[k] = HandleEvent(st, e)
    BY <1>2, <1>4
  <2>2. /\ Announces(e) \subseteq announced \ U
        /\ Completes(e) => e.node \in Completed
        /\ e.kind \notin {"groupFailure", "termination"} => e.node \in Told(U, k - 1)
        /\ \A j \in 1..k : Completes(batch[j]) => batch[j].node \notin Announces(e)
        /\ \A j \in 1..(k - 1) : Completes(batch[j]) => batch[j].node # e.node
    BY <2>1, LedgerOf
  <2>3. \A n \in Announces(e) : ids[n] = NoId
    BY <1>2, <2>2 DEF Using
  <2>4. e.kind \notin {"groupFailure", "termination"} => e.node \in Using(st.ids)
    BY <1>7, <2>2
  <2>5. Follows(st) /\ Using(st.ids) = {n \in Told(U, k - 1) : ~ Over(n, k - 1)}
    BY <1>7
  <2>6. Told(U, k) = Told(U, k - 1) \cup Announces(e)
    <3>1. \A j : j \in 1..k <=> (j \in 1..(k - 1) \/ j = k)
      BY <1>2
    <3> QED BY <3>1 DEF Told
  <2>7. \A n : Over(n, k) <=> Over(n, k - 1) \/ (Completes(e) /\ e.node = n)
    <3>1. \A j : j \in 1..k <=> (j \in 1..(k - 1) \/ j = k)
      BY <1>2
    <3> QED BY <3>1
  <2>8. \A n \in Announces(e) : ~ Over(n, k)
    BY <2>2
  <2>9. /\ st.hasNext \in BOOLEAN
        /\ st.hasNext <=> \A j \in 1..(k - 1) : batch[j].kind # "termination"
    BY <1>7 DEF Follows, Translation
  <2>10. \A j : j \in 1..k <=> (j \in 1..(k - 1) \/ j = k)
    BY <1>2
  <2>14. Values(k) = Values(k - 1) \cup ValuesOf(e) /\ Values(k - 1) \cap ValuesOf(e) = {}
    <3>1. \A j : j \in 1..k <=> (j \in 1..(k - 1) \/ j = k)
      BY <1>2
    <3>2. \A j \in 1..(k - 1) : j \in DOMAIN batch /\ j # k
      BY <1>2
    <3>3. \A j \in 1..(k - 1) : ValuesOf(batch[j]) \cap ValuesOf(e) = {}
      BY <2>1, <3>2 DEF Owed
    <3> QED BY <3>1, <3>3
  <2>15. Carries(st.incremental, Values(k - 1))
    BY <1>7
  <2> HIDE DEF st, U, Over, Values
  <2>11. /\ Follows(HandleEvent(st, e))
         /\ Using(HandleEvent(st, e).ids) =
               (Using(st.ids) \ (IF Completes(e) THEN {e.node} ELSE {})) \cup Announces(e)
         /\ HandleEvent(st, e).hasNext = (st.hasNext /\ e.kind # "termination")
         /\ \E inc : /\ HandleEvent(st, e).incremental = st.incremental \cup inc
                     /\ Carries(inc, ValuesOf(e))
    <3> HIDE DEF e
    <3> QED BY <1>2, <1>5, <2>1, <2>2, <2>3, <2>4, <2>5, EventFollows
  <2>12. Using(g[k].ids) = {n \in Told(U, k) : ~ Over(n, k)}
    <3> HIDE DEF e
    <3> QED BY <2>1, <2>5, <2>6, <2>7, <2>8, <2>11
  <2>13. g[k].hasNext <=> \A j \in 1..k : batch[j].kind # "termination"
    <3>1. g[k].hasNext <=> st.hasNext /\ e.kind # "termination"
      BY <2>1, <2>9, <2>11
    <3> QED BY <2>9, <2>10, <3>1
  <2>16. Carries(g[k].incremental, Values(k))
    <3>1. PICK inc : g[k].incremental = st.incremental \cup inc /\ Carries(inc, ValuesOf(e))
      BY <2>1, <2>11
    <3> HIDE DEF e
    <3>2. Carries(st.incremental \cup inc, Values(k - 1) \cup ValuesOf(e))
      BY <2>14, <2>15, <3>1, CarriesMore
    <3> QED BY <2>14, <3>1, <3>2
  <2> QED BY <2>1, <2>11, <2>12, <2>13, <2>16
<1>8. Bad = {}
  <2> SUFFICES ASSUME Bad # {} PROVE FALSE
    OBVIOUS
  <2>1. PICK m \in Bad : \A n \in Bad : m <= n
    <3>1. Bad \in SUBSET Nat
      OBVIOUS
    <3> HIDE DEF Bad
    <3> QED BY <3>1, LeastNumber
  <2>2. m \in 0..L /\ ~ Good(m) /\ m # 0
    BY <1>6
  <2> HIDE DEF Good
  <2>3. m \in 1..L /\ m - 1 \in 0..L /\ ~ (m <= m - 1)
    BY <1>2, <2>2
  <2>4. Good(m - 1)
    BY <2>1, <2>3
  <2> QED BY <1>7, <2>2, <2>3, <2>4
<1>9. Good(L)
  <2>1. L \in 0..L
    BY <1>2
  <2> HIDE DEF Good
  <2> QED BY <1>8, <2>1
<1>10. {n \in Told(U, L) : ~ Over(n, L)} = announced \ Completed
  <2>1. /\ U \subseteq announced
        /\ \A k \in 1..L : /\ Announces(batch[k]) \subseteq announced
                           /\ Completes(batch[k]) => batch[k].node \in Completed
        /\ \A n \in announced \ Completed : n \in Told(U, L)
        /\ \A n \in Completed \cap Told(U, L) : Over(n, L)
    BY <1>1, <1>2 DEF Ledger
  <2>2. Told(U, L) \subseteq announced
    BY <2>1 DEF Told
  <2> QED BY <2>1, <2>2
<1> QED BY <1>2, <1>3, <1>9, <1>10

-----------------------------------------------------------------------------
(* The inductive invariant.                                                 *)

\* As long as the iteration is not being closed, the queue runs.  Between two results the ids in
\* use are those of the nodes that are pending, and the client has received what the queue has
\* delivered; while it waits for a batch, the batch keeps the ledger of what it will tell the
\* client, and what it owes to it.  The last result is the one with the termination, which is
\* part of the batch that leaves no root.
EndIsTold ==
  phase = "yielded" /\ rootGroups \cup rootStreams = {} =>
     \E k \in DOMAIN batch : batch[k].kind = "termination"

RequestInv ==
  /\ sub \in {"unstarted", "asking", "waiting", "yielding", "last"} => closing = "no"
  /\ closing = "no" => RInv /\ Running /\ EndIsTold
  /\ sub \in {"unstarted", "asking", "yielding"} =>
        Using(ids) = announced \ Completed /\ phase \in {"new", "yielded"} /\ result.hasNext
  /\ sub \in {"unstarted", "asking", "yielding", "last"} => received = delivered
  /\ sub = "waiting" =>
        Ledger(Using(ids)) /\ Owed(received) /\ phase # "new" /\ result.hasNext
  /\ sub = "last" => phase = "yielded" /\ stopped

IdsInv == PublisherTypeOK /\ Numbered(ids, nextId) /\ open = UsedIds(ids)

PInv == IdsInv /\ RequestInv

LEMMA InitIds == ASSUME PublisherInit PROVE PInv
<1> DEFINE none == [n \in Nodes |-> NoId]
           rec == [ids |-> none, next |-> 0, pending |-> {}]
           fresh == {n \in announced : rec.ids[n] = NoId}
           order == CHOOSE f \in Orders(fresh) : TRUE
           place == [n \in fresh |-> CHOOSE i \in DOMAIN order : order[i] = n]
           ids1  == [n \in Nodes |-> IF n \in fresh THEN rec.next + place[n] - 1 ELSE rec.ids[n]]
           next1 == rec.next + Cardinality(fresh)
<1>1. RInv /\ Running /\ phase = "new" /\ Completed = {}
  <2>1. Init
    BY DEF PublisherInit
  <2>2. RInv
    BY <2>1, InitInv, InitOrder, InitGroups, InitStreams DEF RInv, SInv
  <2> QED BY <2>1, <2>2 DEF Init, Running, Completed
<1>2. announced \subseteq Nodes
  BY <1>1, StreamTypes DEF RInv, SInv
<1>3. rec.ids = none /\ rec.next = 0 /\ rec.pending = {} /\ \A n \in Nodes : none[n] = NoId
  OBVIOUS
<1>4. ids = ids1 /\ nextId = next1 /\ open = {ids1[n] : n \in announced}
  BY DEF PublisherInit, Announce, EnsureIds
<1>5. Numbered(rec.ids, rec.next)
  BY <1>3 DEF Numbered, NoId
<1> HIDE DEF rec
<1>6. Ensures(rec.ids, rec.next, announced, ids1, next1)
  BY <1>2, <1>5, EnsureFacts
<1> HIDE DEF ids1, next1, none, fresh, order, place
<1>7. /\ Numbered(ids, nextId) /\ \A n \in announced : ids[n] # NoId
      /\ \A n \in Nodes : n \notin announced => ids[n] = NoId
  BY <1>3, <1>4, <1>6 DEF Ensures
<1>8. open = UsedIds(ids) /\ Using(ids) = announced
  BY <1>2, <1>4, <1>7 DEF UsedIds, Using
<1>9. PublisherTypeOK
  <2>1. ids \in [Nodes -> Nat \cup {NoId}] /\ nextId \in Nat
    BY <1>7 DEF Numbered
  <2>2. open \subseteq Nat
    BY <1>8, <2>1 DEF UsedIds
  <2> QED BY <2>1, <2>2 DEF PublisherInit, PublisherTypeOK, SubStates, ClosingStates,
                            NoResult, Results
<1>10. RequestInv
  <2>1. received = delivered
    BY DEF PublisherInit, Init
  <2> QED BY <1>1, <1>8, <2>1 DEF RequestInv, EndIsTold, PublisherInit, NoResult
<1> QED BY <1>7, <1>8, <1>9, <1>10 DEF PInv, IdsInv

LEMMA LedgerStays ==
  ASSUME NEW U, Ledger(U), UNCHANGED vars
  PROVE  Ledger(U)'
<1>1. UNCHANGED <<batch, announced, succeeded, failed>>
  BY DEF vars, loopVars, history
<1> QED BY <1>1 DEF Ledger, Told, Completed

LEMMA OwedStays ==
  ASSUME NEW R, Owed(R), UNCHANGED vars
  PROVE  Owed(R)'
<1>1. UNCHANGED <<batch, delivered>>
  BY DEF vars, loopVars, history
<1> QED BY <1>1 DEF Owed

\* A step that leaves the ids alone.
LEMMA IdsStay ==
  ASSUME IdsInv, UNCHANGED <<ids, nextId, open, rootTasks, result, received>>, aborted' \in BOOLEAN,
         sub' \in SubStates, closing' \in ClosingStates, tracked' \subseteq Tasks
  PROVE  IdsInv'
BY DEF IdsInv, PublisherTypeOK, Numbered, UsedIds

\* A step of the queue as it is run by the publisher.
LEMMA QueueSteps ==
  ASSUME RInv, Running, QueueStep
  PROVE  /\ Next /\ ~ Resume /\ ~ Cancel
         /\ phase' # "closed" /\ (phase' = "new" => phase = "new")
         /\ phase \in {"new", "yielded"} =>
               UNCHANGED <<phase, announced, succeeded, failed, delivered, stopped>>
<1>1. ~ SkipStop
  <2>1. PumpsAreServed /\ channel \in Seq(GraphEvents)
    BY StreamTypes DEF RInv, SInv, StreamInv
  <2>2. ASSUME channel # <<>> PROVE 1 \in DOMAIN channel /\ Head(channel) = channel[1]
    BY <2>1, <2>2
  <2>3. \A i \in DOMAIN channel : channel[i].kind # "stop"
    BY <2>1 DEF PumpsAreServed
  <2>4. channel # <<>> => Head(channel).kind # "stop"
    BY <2>2, <2>3
  <2>5. [kind |-> "stop", node |-> NoGroup].kind = "stop"
    OBVIOUS
  <2> QED BY <2>4, <2>5 DEF SkipStop, Handling
<1>2. CASE HandleGraphEvent
  <2>1. ASSUME NEW t \in Tasks, HandleTaskSuccess(t)
        PROVE  phase = "draining" /\ phase' \in {"draining", "crashed"}
    <3>1. PICK work \in TaskWork(t) : Succeed(t, work) /\ Handling("ok", t)
      BY <2>1 DEF HandleTaskSuccess
    <3>2. phase' \in {"draining", "crashed"}
      BY <3>1 DEF Succeed
    <3> QED BY <3>1, <3>2 DEF Handling
  <2>2. ASSUME NEW t \in Tasks, HandleTaskFailure(t)
        PROVE  phase = "draining" /\ phase' = phase
    BY <2>2 DEF HandleTaskFailure, Handling
  <2>3. ASSUME NEW s \in Streams, HandleStreamItems(s)
        PROVE  phase = "draining" /\ phase' = phase
    <3>1. PICK work \in RootWork : TakeItems(s, work) /\ Handling("items", s)
      BY <2>3 DEF HandleStreamItems
    <3>2. phase' = phase
      BY <3>1 DEF TakeItems
    <3> QED BY <3>1, <3>2 DEF Handling
  <2>4. ASSUME NEW s \in Streams, HandleStreamSuccess(s) \/ HandleStreamFailure(s)
        PROVE  phase = "draining" /\ phase' = phase
    BY <2>4 DEF HandleStreamSuccess, HandleStreamFailure, Handling
  <2>5. phase = "draining" /\ phase' \in {"draining", "crashed"}
    BY <1>2, <2>1, <2>2, <2>3, <2>4 DEF HandleGraphEvent
  <2> QED BY <1>2, <2>5 DEF Next, Deliver, Resume, Cancel
<1>3. CASE Wake \/ EndBatch
  BY <1>3 DEF Next, Deliver, Wake, EndBatch, Resume, Cancel
<1>4. CASE \/ \E t \in Tasks : PrimeEarly(t) \/ SettleTask(t)
           \/ \E s \in Streams : PumpItems(s) \/ PumpSuccess(s) \/ PumpFailure(s) \/ PumpCancelled(s)
  <2>1. UNCHANGED <<phase, announced, succeeded, failed, delivered, stopped>>
    BY <1>4 DEF PrimeEarly, SettleTask, PumpItems, PumpSuccess, PumpFailure, PumpCancelled,
                loopVars, history
  <2>2. Next
    BY <1>4 DEF Next, Deliver
  <2> QED BY <2>1, <2>2 DEF Running, Resume, Cancel, Receive
<1> QED BY <1>1, <1>2, <1>3, <1>4 DEF QueueStep

\* When no root is left, the batch ends with the termination (EndBatch), and stays as it is.
LEMMA EndStaysTold == ASSUME EndIsTold, QueueStep PROVE EndIsTold'
<1>1. CASE EndBatch
  <2> SUFFICES ASSUME phase' = "yielded", rootGroups \cup rootStreams = {}
               PROVE  \E k \in DOMAIN batch' : batch'[k].kind = "termination"
    BY <1>1 DEF EndBatch, EndIsTold, graphVars
  <2>1. batch' = Append(batch, Event("termination", NoGroup, {}, {}, {}))
    BY <1>1 DEF EndBatch
  <2> QED BY <2>1 DEF Event
<1>2. CASE phase' # "yielded"
  BY <1>2 DEF EndIsTold
<1>3. CASE UNCHANGED <<phase, rootGroups, rootStreams, batch>>
  BY <1>3 DEF EndIsTold
<1>4. CASE HandleGraphEvent
  <2>1. ASSUME NEW t \in Tasks, HandleTaskSuccess(t)
        PROVE  phase' # "yielded"
    <3>1. PICK work \in TaskWork(t) : Succeed(t, work) /\ Handling("ok", t)
      BY <2>1 DEF HandleTaskSuccess
    <3>2. phase' \in {"draining", "crashed"}
      BY <3>1 DEF Succeed
    <3> QED BY <3>2
  <2>2. ASSUME NEW t \in Tasks, HandleTaskFailure(t)
        PROVE  phase' # "yielded"
    BY <2>2 DEF HandleTaskFailure, Handling
  <2>3. ASSUME NEW s \in Streams, HandleStreamItems(s)
        PROVE  phase' # "yielded"
    <3>1. PICK work \in RootWork : TakeItems(s, work) /\ Handling("items", s)
      BY <2>3 DEF HandleStreamItems
    <3>2. phase' = phase
      BY <3>1 DEF TakeItems
    <3> QED BY <3>1, <3>2 DEF Handling
  <2>4. ASSUME NEW s \in Streams, HandleStreamSuccess(s) \/ HandleStreamFailure(s)
        PROVE  phase' # "yielded"
    BY <2>4 DEF HandleStreamSuccess, HandleStreamFailure, Handling
  <2> QED BY <1>2, <1>4, <2>1, <2>2, <2>3, <2>4 DEF HandleGraphEvent
<1>6. CASE SkipStop
  <2>1. UNCHANGED <<phase, rootGroups, rootStreams, batch>>
    BY <1>6 DEF SkipStop, Handling, graphVars
  <2> QED BY <1>3, <2>1
<1>7. CASE Wake
  <2>1. phase' # "yielded"
    BY <1>7 DEF Wake
  <2> QED BY <1>2, <2>1
<1>5. CASE \/ \E t \in Tasks : PrimeEarly(t) \/ SettleTask(t)
           \/ \E s \in Streams : PumpItems(s) \/ PumpSuccess(s) \/ PumpFailure(s) \/ PumpCancelled(s)
  <2>1. UNCHANGED <<phase, rootGroups, rootStreams, batch>>
    BY <1>5 DEF PrimeEarly, SettleTask, PumpItems, PumpSuccess, PumpFailure, PumpCancelled,
                graphVars, loopVars
  <2> QED BY <1>3, <2>1
<1> QED BY <1>1, <1>4, <1>5, <1>6, <1>7 DEF QueueStep

LEMMA QueueStepIds == ASSUME PInv, QueueStep PROVE PInv'
<1>1. IdsInv'
  BY IdsStay DEF PInv, IdsInv, PublisherTypeOK, QueueStep, Track
<1>2. UNCHANGED <<ids, sub, closing, result, received>>
  BY DEF QueueStep
<1>3. Using(ids)' = Using(ids)
  BY <1>2 DEF Using
<1>4. CASE closing # "no"
  BY <1>1, <1>2, <1>4 DEF PInv, RequestInv
<1>5. CASE closing = "no"
  <2>1. RInv /\ Running /\ RequestInv
    BY <1>5 DEF PInv, RequestInv
  <2>5. EndIsTold'
    BY <1>5, EndStaysTold DEF PInv, RequestInv
  <2>2. /\ Next /\ ~ Resume /\ ~ Cancel
        /\ phase' # "closed" /\ (phase' = "new" => phase = "new")
        /\ phase \in {"new", "yielded"} =>
              UNCHANGED <<phase, announced, succeeded, failed, delivered, stopped>>
    BY <2>1, QueueSteps
  <2>3. RInv'
    BY <2>1, <2>2, NextReports
  <2>4. ASSUME sub = "waiting" PROVE Ledger(Using(ids))' /\ Owed(received)'
    <3>1. PICK es : Books(es)
      BY <2>1, <2>2, <2>3, NextBooks
    <3>2. EventsAreFresh
      BY <2>1, <2>2, <2>3, NextFresh
    <3>3. PICK U : U = Using(ids)
      OBVIOUS
    <3>4. Ledger(U)
      BY <2>1, <2>4, <3>3 DEF RequestInv
    <3>5. Ledger(U)'
      BY <2>1, <2>3, <3>1, <3>2, <3>4, LedgerGrows
    <3>6. PICK R : R = received
      OBVIOUS
    <3>7. Owed(R)
      BY <2>1, <2>4, <3>6 DEF RequestInv
    <3>8. Owed(R)'
      BY <2>1, <3>1, <3>2, <3>7, OwedGrows
    <3> QED BY <1>2, <1>3, <3>3, <3>5, <3>6, <3>8
  <2> QED BY <1>1, <1>2, <1>3, <2>1, <2>2, <2>3, <2>4, <2>5 DEF PInv, RequestInv, Running, Completed
<1> QED BY <1>4, <1>5

LEMMA BeginIds == ASSUME PInv, Begin PROVE PInv'
<1>1. IdsInv'
  BY IdsStay DEF PInv, IdsInv, PublisherTypeOK, Begin, Track, SubStates
<1>2. /\ UNCHANGED <<ids, closing, result, received>>
      /\ UNCHANGED <<announced, succeeded, failed, delivered>>
  BY DEF Begin, StartEvents, Resume, history
<1>3. Using(ids)' = Using(ids)
  BY <1>2 DEF Using
<1>4. Next /\ phase' \notin {"new", "closed", "yielded"}
  BY DEF Begin, StartEvents, Resume, Receive, Next, Deliver
<1>5. closing = "no" => RInv' /\ Running' /\ EndIsTold'
  <2>1. closing = "no" => RInv
    BY DEF PInv, RequestInv
  <2> QED BY <1>4, <2>1, NextReports DEF Running, EndIsTold
<1>6. CASE sub = "asking" /\ sub' = "waiting"
  <2>1. /\ closing = "no" /\ Using(ids) = announced \ Completed /\ result.hasNext /\ RInv
        /\ received = delivered
    BY <1>6 DEF PInv, RequestInv
  <2>2. batch' = <<>>
    <3>1. CASE StartEvents
      BY <2>1, <3>1 DEF StartEvents, RInv, StreamInv, NewStarts
    <3>2. CASE Resume
      BY <3>2 DEF Resume
    <3> QED BY <3>1, <3>2 DEF Begin
  <2>3. PICK U : U = Using(ids)
    OBVIOUS
  <2>4. U = announced' \ Completed'
    BY <1>2, <2>1, <2>3 DEF Completed
  <2>5. Ledger(U)'
    BY <1>5, <2>1, <2>2, <2>4, LedgerBegins
  <2>6. Ledger(Using(ids))'
    BY <1>3, <2>3, <2>5
  <2>7. PICK R : R = received
    OBVIOUS
  <2>8. Owed(R)'
    BY <1>2, <2>1, <2>2, <2>7, OwedBegins
  <2>9. Owed(received)'
    BY <1>2, <2>7, <2>8
  <2> QED BY <1>1, <1>2, <1>4, <1>5, <1>6, <2>1, <2>6, <2>9 DEF PInv, RequestInv
<1>7. CASE sub' = "detached"
  BY <1>1, <1>2, <1>5, <1>7 DEF PInv, RequestInv
<1> QED BY <1>6, <1>7 DEF Begin

\* What Publish tells the client.
LEMMA PublishFacts ==
  ASSUME PInv, Publish
  PROVE  /\ RInv /\ Running /\ nextId \in Nat /\ result.hasNext /\ phase = "yielded"
         /\ Follows(HandleBatch(batch))
         /\ Using(HandleBatch(batch).ids) = announced \ Completed
         /\ HandleBatch(batch).hasNext <=> rootGroups \cup rootStreams # {}
         /\ ~ HandleBatch(batch).hasNext => stopped
         /\ LET V == {i.task : i \in HandleBatch(batch).incremental} \ {NoGroup}
            IN  /\ V \cap received = {} /\ delivered = received \cup V
                /\ \A i, j \in HandleBatch(batch).incremental :
                      i.task = j.task /\ i.task # NoGroup => i = j
<1>1. /\ RInv /\ Running /\ Numbered(ids, nextId) /\ open = UsedIds(ids) /\ Ledger(Using(ids))
      /\ Owed(received) /\ result.hasNext /\ phase = "yielded" /\ EndIsTold
  BY DEF PInv, IdsInv, RequestInv, Publish
<1>2. /\ Follows(HandleBatch(batch))
      /\ Using(HandleBatch(batch).ids) = announced \ Completed
      /\ HandleBatch(batch).hasNext <=> \A k \in DOMAIN batch : batch[k].kind # "termination"
      /\ Carries(HandleBatch(batch).incremental, UNION {ValuesOf(batch[k]) : k \in DOMAIN batch})
  BY <1>1, BatchFollows
<1>3. LoopRuns
  BY <1>1 DEF RInv, StreamInv
<1> DEFINE inc == HandleBatch(batch).incremental
           V == {i.task : i \in inc} \ {NoGroup}
<1>4. /\ V \cap received = {} /\ delivered = received \cup V
      /\ \A i, j \in inc : i.task = j.task /\ i.task # NoGroup => i = j
  <2>1. Carries(inc, UNION {ValuesOf(batch[k]) : k \in DOMAIN batch})
    BY <1>2
  <2> HIDE DEF inc
  <2>2. V = UNION {ValuesOf(batch[k]) : k \in DOMAIN batch}
    BY <2>1 DEF Carries
  <2>3. \A i, j \in inc : i.task = j.task /\ i.task # NoGroup => i = j
    BY <2>1 DEF Carries
  <2> HIDE DEF V
  <2> QED BY <1>1, <2>2, <2>3 DEF Owed
<1>5. nextId \in Nat
  BY <1>1 DEF Numbered
<1>6. /\ HandleBatch(batch).hasNext <=> rootGroups \cup rootStreams # {}
      /\ ~ HandleBatch(batch).hasNext => stopped
  BY <1>1, <1>2, <1>3 DEF LoopRuns, EndIsTold
<1> QED BY <1>1, <1>2, <1>4, <1>5, <1>6

LEMMA PublishIds == ASSUME PInv, Publish PROVE PInv'
<1> DEFINE st == HandleBatch(batch)
<1>1. /\ ids' = st.ids /\ nextId' = st.next
      /\ result' = [pending |-> st.pending, incremental |-> st.incremental,
                    completed |-> st.completed, hasNext |-> st.hasNext]
      /\ open' = (open \cup st.pending) \ Done(st)
      /\ received' = received \cup ({i.task : i \in st.incremental} \ {NoGroup})
      /\ sub' = IF st.hasNext THEN "yielding" ELSE "last"
      /\ sub = "waiting"
  BY DEF Publish, Done
<1>2. UNCHANGED vars /\ UNCHANGED <<aborted, closing, tracked, rootTasks>>
  BY DEF Publish
<1> HIDE DEF st
<1>14. EndIsTold'
  <2>1. UNCHANGED <<phase, rootGroups, rootStreams, batch>>
    BY <1>2 DEF vars, graphVars, loopVars
  <2>2. EndIsTold
    BY <1>1 DEF PInv, RequestInv
  <2> QED BY <2>1, <2>2 DEF EndIsTold
<1>3. /\ RInv /\ Running /\ Follows(st) /\ Using(st.ids) = announced \ Completed
      /\ phase = "yielded" /\ (~ st.hasNext => stopped)
      /\ delivered = received \cup ({i.task : i \in st.incremental} \ {NoGroup})
  BY PublishFacts DEF st
<1>4. st \in Translation /\ Numbered(st.ids, st.next) /\ UsedIds(st.ids) = Known(st) \ Done(st)
  BY <1>3 DEF Follows
<1>5. Numbered(ids, nextId)' /\ open' = UsedIds(ids)'
  <2>1. Numbered(ids', nextId') /\ open' = UsedIds(ids')
    BY <1>1, <1>4 DEF Known
  <2> QED BY <2>1 DEF Numbered, UsedIds, Nodes
<1>6. PublisherTypeOK'
  <2>1. ids' \in [Nodes -> Nat \cup {NoId}] /\ nextId' \in Nat
    BY <1>1, <1>4 DEF Translation
  <2>2. result' \in Results
    BY <1>1, <1>4 DEF Translation, Results
  <2>3. open' \subseteq Nat
    BY <1>1, <1>4 DEF Translation, PInv, IdsInv, PublisherTypeOK
  <2>4. received' \subseteq Tasks
    BY <1>1, <1>4 DEF Translation, PInv, IdsInv, PublisherTypeOK
  <2> QED BY <1>1, <1>2, <2>1, <2>2, <2>3, <2>4 DEF PInv, IdsInv, PublisherTypeOK, SubStates
<1>7. RInv'
  BY <1>2, <1>3, NextReports
<1>8. UNCHANGED <<announced, succeeded, failed, delivered, phase, stopped>>
  BY <1>2 DEF vars, loopVars, history
<1>13. received' = delivered' /\ (sub' = "last" => stopped')
  BY <1>1, <1>3, <1>4, <1>8 DEF Translation
<1>9. Using(ids)' = announced' \ Completed'
  <2>1. Using(ids)' = Using(st.ids)
    BY <1>1 DEF Using
  <2> QED BY <1>3, <1>8, <2>1 DEF Completed
<1>10. closing' = "no"
  BY <1>1, <1>2 DEF PInv, RequestInv
<1>11. sub' = "yielding" => result'.hasNext
  BY <1>1, <1>4 DEF Translation
<1>12. RequestInv'
  BY <1>1, <1>3, <1>7, <1>8, <1>9, <1>10, <1>11, <1>13, <1>14 DEF RequestInv, Running
<1> QED BY <1>5, <1>6, <1>12 DEF PInv, IdsInv

\* The other steps leave the queue alone, or close the iteration.
LEMMA OtherIds ==
  ASSUME PInv,
         \/ Request \/ Return \/ AbortWins \/ Close \/ CancelClient \/ CancelIncrementalWork
         \/ RunHook \/ FireAbort \/ UNCHANGED allVars
  PROVE  PInv'
<1>1. IdsInv
  BY DEF PInv
<1>2. CASE Request \/ FireAbort \/ RunHook \/ UNCHANGED allVars \/ (UNCHANGED vars /\ Close)
  <2>1. /\ UNCHANGED <<ids, nextId, open, rootTasks, result, tracked, received>> /\ UNCHANGED vars
        /\ aborted' \in BOOLEAN /\ sub' \in SubStates /\ closing' \in ClosingStates
    <3>1. /\ aborted \in BOOLEAN /\ sub \in SubStates /\ closing \in ClosingStates
      BY <1>1 DEF IdsInv, PublisherTypeOK
    <3>2. CASE Request
      BY <3>1, <3>2 DEF Request, SubStates
    <3>3. CASE FireAbort \/ RunHook \/ UNCHANGED allVars
      BY <3>1, <3>3 DEF FireAbort, RunHook, ClosingStates, allVars, pubVars
    <3>4. CASE UNCHANGED vars /\ Close
      <4>1. ~ Cancel
        <5>1. phase' = phase
          BY <3>4 DEF vars, loopVars
        <5> QED BY <5>1 DEF Cancel
      <4> QED BY <3>1, <3>4, <4>1 DEF Close, Finally, SubStates
    <3> QED BY <1>2, <3>2, <3>3, <3>4
  <2>2. IdsInv'
    <3>1. tracked' \subseteq Tasks
      BY <1>1, <2>1 DEF IdsInv, PublisherTypeOK
    <3> QED BY <1>1, <2>1, <3>1, IdsStay
  <2>3. UNCHANGED <<announced, succeeded, failed, delivered, phase, stopped>>
    BY <2>1 DEF vars, loopVars, history
  <2>4. Using(ids)' = Using(ids) /\ Completed' = Completed
    BY <2>1, <2>3 DEF Using, Completed
  <2>5. \/ sub' = sub /\ (closing = "no" <=> closing' = "no")
        \/ sub \in {"unstarted", "yielding"} /\ sub' = "asking" /\ closing' = closing
        \/ sub' = "abandoned" /\ closing' = closing
    <3>1. CASE Request \/ FireAbort \/ RunHook \/ UNCHANGED allVars
      BY <3>1 DEF Request, FireAbort, RunHook, allVars, pubVars
    <3>2. CASE UNCHANGED vars /\ Close
      <4>1. ~ Cancel
        <5>1. phase' = phase
          BY <3>2 DEF vars, loopVars
        <5> QED BY <5>1 DEF Cancel
      <4> QED BY <3>2, <4>1 DEF Close, Finally
    <3> QED BY <1>2, <3>1, <3>2
  <2>6. closing' = "no" => RInv' /\ Running' /\ EndIsTold'
    <3>1. closing' = "no" => RInv /\ Running /\ EndIsTold
      BY <2>5 DEF PInv, RequestInv
    <3>2. UNCHANGED <<phase, rootGroups, rootStreams, batch>>
      BY <2>1 DEF vars, graphVars, loopVars
    <3> QED BY <2>1, <2>3, <3>1, <3>2, NextReports DEF Running, EndIsTold
  <2>7. sub' = "waiting" => Ledger(Using(ids))'
    <3> SUFFICES ASSUME sub' = "waiting" PROVE Ledger(Using(ids))'
      OBVIOUS
    <3>1. sub = "waiting"
      BY <2>5
    <3>2. PICK U : U = Using(ids)
      OBVIOUS
    <3>3. Ledger(U)
      BY <3>1, <3>2 DEF PInv, RequestInv
    <3>4. Ledger(U)'
      BY <2>1, <3>3, LedgerStays
    <3> QED BY <2>4, <3>2, <3>4
  <2>8. result' = result /\ received' = received
    BY <2>1
  <2>9. sub' = "waiting" => Owed(received)'
    <3> SUFFICES ASSUME sub' = "waiting" PROVE Owed(received)'
      OBVIOUS
    <3>1. PICK R : R = received
      OBVIOUS
    <3>2. Owed(R)
      BY <2>5, <3>1 DEF PInv, RequestInv
    <3>3. Owed(R)'
      BY <2>1, <3>2, OwedStays
    <3> QED BY <2>8, <3>1, <3>3
  <2> QED BY <2>2, <2>3, <2>4, <2>5, <2>6, <2>7, <2>8, <2>9 DEF PInv, RequestInv
<1>3. CASE CancelIncrementalWork
  <2>1. closing = "queue" /\ closing' = "executor" /\ sub' = sub
    BY <1>3 DEF CancelIncrementalWork
  <2>2. IdsInv'
    BY <1>1, <1>3, IdsStay DEF CancelIncrementalWork, Track, IdsInv, PublisherTypeOK, ClosingStates
  <2> QED BY <2>1, <2>2 DEF PInv, RequestInv
<1>4. ASSUME /\ sub' \in {"returned", "aborted", "closed", "cancelled", "detachedAsking", "detached"}
             /\ closing' = "queue" /\ Track
             /\ UNCHANGED <<ids, nextId, aborted, rootTasks, result, open, received>>
      PROVE  PInv'
  <2>1. IdsInv'
    BY <1>1, <1>4, IdsStay DEF Track, IdsInv, PublisherTypeOK, ClosingStates, SubStates
  <2> QED BY <1>4, <2>1 DEF PInv, RequestInv
<1>5. CASE Return \/ AbortWins \/ CancelClient \/ Close
  <2>1. CASE Close
    BY <1>2, <1>4, <2>1 DEF Close, Finally
  <2>2. CASE Return \/ AbortWins
    BY <1>4, <2>2 DEF Return, AbortWins, Finally
  <2>3. CASE CancelClient
    BY <1>4, <2>3 DEF CancelClient, Finally
  <2> QED BY <1>5, <2>1, <2>2, <2>3
<1> QED BY <1>2, <1>3, <1>5

\* The publisher preserves its invariant.
THEOREM PublisherInvariance == PublisherSpec => []PInv
<1>1. PublisherInit => PInv
  BY InitIds
<1>2. PInv /\ [PublisherNext]_allVars => PInv'
  BY QueueStepIds, BeginIds, PublishIds, OtherIds DEF PublisherNext
<1> QED BY <1>1, <1>2, PTL DEF PublisherSpec

-----------------------------------------------------------------------------
(* The theorems.                                                            *)

\* Between two results, the ids in use are the ids the client has been told of and not seen
\* completed, no two nodes share one, and they are the ids of what the queue still owes:
\* _ensure_id() and _handle_work_queue_event() never lose track of the client's view.
THEOREM IdsMatchClientHolds == PublisherSpec => []IdsMatchClient
<1>1. ASSUME PInv PROVE IdsMatchClient
  <2>1. PublisherTypeOK /\ Numbered(ids, nextId) /\ open = {ids[n] : n \in Nodes} \ {NoId}
    BY <1>1 DEF PInv, IdsInv, UsedIds
  <2>2. ASSUME sub = "yielding"
        PROVE  {n \in Nodes : ids[n] # NoId} = rootGroups \cup rootStreams
    <3>1. RInv /\ Using(ids) = announced \ Completed
      BY <1>1, <2>2 DEF PInv, RequestInv
    <3> QED BY <3>1, PendingIsRoot DEF Using
  <2> QED BY <2>1, <2>2 DEF IdsMatchClient, Numbered
<1> QED BY <1>1, PublisherInvariance, PTL

\* Only Publish makes a result; the client does not notice the other steps.
LEMMA OthersAreSilent ==
  ASSUME [PublisherNext]_allVars, ~ Publish
  PROVE  UNCHANGED <<open, nextId, received, result>>
BY DEF PublisherNext, QueueStep, Request, Begin, Return, AbortWins, Close, CancelClient,
       CancelIncrementalWork, RunHook, FireAbort, Finally, allVars, pubVars

\* What is published is what the contract lets one send.
LEMMA PublishSends == ASSUME PInv, Publish PROVE Contract!Send(result')
<1> DEFINE st == HandleBatch(batch)
<1>1. /\ result'.pending = st.pending /\ result'.incremental = st.incremental
      /\ result'.completed = st.completed /\ result'.hasNext = st.hasNext
      /\ nextId' = st.next /\ open' = (open \cup st.pending) \ Done(st)
      /\ received' = received \cup ({i.task : i \in st.incremental} \ {NoGroup})
  BY DEF Publish, Done
<1>2. /\ result.hasNext /\ Follows(st) /\ RInv /\ nextId \in Nat
      /\ Using(st.ids) = announced \ Completed
      /\ st.hasNext <=> rootGroups \cup rootStreams # {}
      /\ ({i.task : i \in st.incremental} \ {NoGroup}) \cap received = {}
      /\ \A i, j \in st.incremental : i.task = j.task /\ i.task # NoGroup => i = j
  BY PublishFacts
<1> HIDE DEF st
<1>3. /\ st \in Translation /\ nextId <= st.next /\ UsedIds(st.ids) = Known(st) \ Done(st)
      /\ \A x \in Done(st) : x \in Nat /\ x < st.next /\ (x \in Known(st) \/ nextId <= x)
      /\ \A x \in st.pending : x \in Nat /\ nextId <= x
      /\ st.next \in Nat
  BY <1>2 DEF Follows, Translation, Done
<1>4. open' = UsedIds(st.ids)
  BY <1>1, <1>3 DEF Known
<1>5. \A x \in UsedIds(st.ids) : x \in Nat /\ x < st.next
  BY <1>2 DEF Follows, Numbered, UsedIds
<1>6. /\ 0..(nextId - 1) \subseteq 0..(nextId' - 1)
      /\ \A x \in Nat : nextId <= x => x \notin 0..(nextId - 1)
      /\ \A x \in Nat : x < st.next => x \in 0..(nextId' - 1)
  BY <1>1, <1>2, <1>3
<1>7. Contract!AnnouncesNew(result')
  <2>1. \A x \in st.pending : x < st.next
    BY <1>3, <1>5 DEF Known
  <2> QED BY <1>1, <1>3, <1>6, <2>1 DEF Contract!AnnouncesNew
<1>8. Contract!DeliversOnce(result')
  <2>1. \A i \in st.incremental : i.id \in open \cup st.pending
    BY <1>2 DEF Follows, Known
  <2>2. {i.task : i \in st.incremental} \ {NoGroup} \subseteq Tasks
    BY <1>3 DEF Translation
  <2> QED BY <1>1, <1>2, <2>1, <2>2 DEF Contract!DeliversOnce, Contract!Delivered
<1>9. Contract!CompletesPending(result')
  <2>1. \A c \in st.completed : \/ c.id \in open \cup st.pending
                                \/ ~ c.ok /\ c.id \in 0..(nextId' - 1) \ 0..(nextId - 1)
    <3> SUFFICES ASSUME NEW c \in st.completed, c.id \notin open \cup st.pending
                 PROVE  ~ c.ok /\ c.id \in 0..(nextId' - 1) \ 0..(nextId - 1)
      OBVIOUS
    <3>1. c.id \in Done(st) /\ c.id \notin Known(st)
      BY DEF Done, Known
    <3>2. ~ c.ok
      BY <1>2, <3>1 DEF Follows
    <3> QED BY <1>3, <1>6, <3>1, <3>2
  <2>2. \A c, d \in st.completed : c.id = d.id => c = d
    BY <1>2 DEF Follows
  <2>3. Done(st) = Contract!CompletedIds(result')
    BY <1>1 DEF Done, Contract!CompletedIds
  <2> QED BY <1>1, <2>1, <2>2, <2>3 DEF Contract!CompletesPending
<1>10. result'.hasNext <=> open' # {}
  <2>1. Using(st.ids) = rootGroups \cup rootStreams
    BY <1>2, PendingIsRoot
  <2>2. Using(st.ids) = {} <=> UsedIds(st.ids) = {}
    BY DEF Using, UsedIds
  <2> QED BY <1>1, <1>2, <1>4, <2>1, <2>2
<1>11. 0..(nextId' - 1) \subseteq Nat
  BY <1>1, <1>3
<1> QED BY <1>2, <1>6, <1>7, <1>8, <1>9, <1>10, <1>11 DEF Contract!Send

\* The results are what incremental delivery promises, for every run of the queue: an id is
\* announced once, values and successes are about what is pending, completions are final, no
\* value is delivered twice, and a result is the last one exactly when it leaves nothing pending
\* (_handle_batch, _get_best_id_and_sub_path, has_next).
THEOREM ImplementsDeliveryHolds == PublisherSpec => ImplementsDelivery
<1>1. ASSUME PublisherInit PROVE Contract!DeliveryInit
  <2>1. /\ nextId \in Nat /\ open \in SUBSET Nat /\ open = UsedIds(ids)
        /\ \A n \in Nodes : ids[n] < nextId
    BY <1>1, InitIds DEF PInv, IdsInv, PublisherTypeOK, Numbered
  <2>2. \A x \in open : x \in Nat /\ x < nextId
    BY <2>1 DEF UsedIds
  <2>3. open \subseteq 0..(nextId - 1)
    BY <2>1, <2>2
  <2>4. 0..(nextId - 1) \subseteq Nat
    BY <2>1
  <2>5. received = {} /\ result.hasNext
    BY <1>1 DEF PublisherInit, NoResult
  <2> QED BY <2>3, <2>4, <2>5 DEF Contract!DeliveryInit
<1>2. ASSUME PInv, [PublisherNext]_allVars PROVE [Contract!Send(result')]_Contract!clientVars
  <2>1. CASE Publish
    BY <1>2, <2>1, PublishSends
  <2>2. CASE ~ Publish
    <3>1. UNCHANGED <<open, nextId, received, result>>
      BY <1>2, <2>2, OthersAreSilent
    <3> QED BY <3>1 DEF Contract!clientVars
  <2> QED BY <2>1, <2>2
<1> QED BY <1>1, <1>2, PublisherInvariance, PTL
        DEF PublisherSpec, ImplementsDelivery, Contract!DeliverySpec

\* No value gets lost between the queue and the client: a client that has been told of the
\* success of a group has the values of all its tasks, those included that were reported under
\* the id of another group; and when it is told that nothing follows, a value is only missing
\* if one of the groups of its task has failed (_handle_work_queue_event, events).
THEOREM ClientIsCompleteHolds == PublisherSpec => []ClientIsComplete
<1>1. ASSUME PInv PROVE ClientIsComplete
  <2> SUFFICES ASSUME sub \in {"yielding", "last"}
               PROVE  /\ \A g \in succeeded \cap Groups : \A t \in Tasks :
                            g \in GroupsOf[t] /\ comp[t] # "none" => t \in received
                      /\ sub = "last" => \A t \in Tasks : comp[t] = "ok" /\ t \notin received
                                                            => \E g \in GroupsOf[t] : Doomed(g)
    BY DEF ClientIsComplete
  <2>1. RInv /\ received = delivered /\ (sub = "last" => phase = "yielded" /\ stopped)
    BY <1>1 DEF PInv, RequestInv
  <2>2. SuccessIsComplete
    BY <2>1 DEF RInv, SInv, OrderInv
  <2>3. NothingLeftBehind
    BY <2>1, NothingIsLeft
  <2> QED BY <2>1, <2>2, <2>3 DEF SuccessIsComplete, NothingLeftBehind, Terminated
<1> QED BY <1>1, PublisherInvariance, PTL

-----------------------------------------------------------------------------
(* The work queue in the composition, where its tasks are also aborted by  *)
(* the publisher, and where a request for a batch may survive its client.  *)

\* The request for a batch has not outlived its client.
Attached == sub \notin {"detachedAsking", "detached"}

\* What is tracked is pending, and only a client with an abort signal leaves a request behind.
TrackedIsPending == \A t \in tracked : comp[t] \in {"early", "running"}
ClosedIsStopped ==
  /\ closing # "no" => stopped
  /\ closing # "no" /\ Attached => phase = "closed"
  /\ ~ Attached => HasSignal

QueueInv == PInv /\ SInv /\ TrackedIsPending /\ ClosedIsStopped /\ CancelReachesLiveWork

\* The sentinel of cancel() is taken from the channel like any event.
LEMMA SkipStopOrder == ASSUME SInv, SkipStop PROVE SInv'
<1>1. IInv'
  BY SkipInv DEF SInv
<1>2. UNCHANGED <<graph, rootGroups, made, delivered, succeeded, comp>>
  BY DEF SkipStop, graphVars, asyncVars, history
<1>3. channel # <<>> /\ channel' = Tail(channel)
  BY DEF SkipStop, Handling
<1>4. HandledStays
  BY <1>2, <1>3, ChannelStays DEF SInv
<1> QED BY <1>1, <1>2, <1>4, QuietOrder DEF SInv

\* Aborting what is produced, but not over, leaves the graph consistent: neither the node of a
\* task nor its outcome is touched.
LEMMA AbortOrder == ASSUME SInv, TrackedIsPending, CancelIncrementalWork PROVE SInv'
<1>1. /\ comp \in [Tasks -> CompStates]
      /\ comp' = [t \in Tasks |->
                    IF \/ t \in rootTasks /\ comp[t] \in {"idle", "early", "running"}
                       \/ t \in tracked
                    THEN "aborted" ELSE comp[t]]
      /\ UNCHANGED <<graphVars, queue, pump, pumped, loopVars, history>>
  BY DEF CancelIncrementalWork, SInv, IInv, TypeOK
<1>2. /\ comp' \in [Tasks -> CompStates]
      /\ \A t \in Tasks : comp'[t] = "none" <=> comp[t] = "none"
      /\ \A t \in Tasks : Begun(comp', t) => Begun(comp, t)
      /\ \A t \in Tasks : Settled(comp, t) => Settled(comp', t)
  BY <1>1 DEF TrackedIsPending, CompStates, Begun, Settled
<1>3. channel' = channel
  BY <1>1 DEF loopVars
<1>4. ChannelOK(channel', comp', valued \cup delivered)
  BY <1>2, <1>3, FromInv DEF SInv, ChannelOK
<1>5. TypeOK'
  BY <1>1, <1>2 DEF SInv, IInv, TypeOK, graphVars, loopVars, history
<1>6. IInv'
  BY <1>1, <1>2, <1>4, <1>5, QuietStep DEF SInv, graphVars, history
<1>7. HandledStays
  BY <1>2, <1>3, ChannelStays DEF SInv
<1> QED BY <1>1, <1>2, <1>6, <1>7, QuietOrder DEF SInv, graphVars, history

\* Every step of the composition is one of the queue, or one of these three.
LEMMA PublisherSteps ==
  ASSUME [PublisherNext]_allVars
  PROVE  \/ [Next]_vars
         \/ SkipStop
         \/ CancelIncrementalWork
         \/ CancelClient /\ CancelWork /\ UNCHANGED phase /\ HasSignal
<1>1. CASE QueueStep
  BY <1>1 DEF QueueStep, Next, Deliver
<1>2. CASE Begin
  BY <1>2 DEF Begin, Next, Deliver
<1>3. CASE Return \/ AbortWins \/ Close
  BY <1>3 DEF Return, AbortWins, Close, Finally, Next
<1>4. CASE CancelClient
  BY <1>4 DEF CancelClient, Finally, Next
<1>5. CASE Request \/ Publish \/ RunHook \/ FireAbort \/ UNCHANGED allVars
  BY <1>5 DEF Request, Publish, RunHook, FireAbort, allVars
<1> QED BY <1>1, <1>2, <1>3, <1>4, <1>5 DEF PublisherNext

LEMMA OrderInComposition ==
  ASSUME SInv, TrackedIsPending, [PublisherNext]_allVars
  PROVE  SInv'
<1>1. CASE [Next]_vars
  BY <1>1, NextOrder
<1>2. CASE CancelWork /\ UNCHANGED phase
  <2>1. phase' \in PhaseStates
    BY <1>2 DEF SInv, IInv, TypeOK
  <2> QED BY <1>2, <2>1, CancelInv, CancelOrder DEF SInv
<1> QED BY <1>1, <1>2, PublisherSteps, SkipStopOrder, AbortOrder

LEMMA TrackedStays ==
  ASSUME TrackedIsPending, [PublisherNext]_allVars
  PROVE  TrackedIsPending'
<1>1. CASE Track
  BY <1>1 DEF Track, TrackedIsPending
<1>2. CASE UNCHANGED vars /\ tracked' = tracked
  BY <1>2 DEF vars, asyncVars, TrackedIsPending
<1>3. Track \/ (UNCHANGED vars /\ tracked' = tracked)
  BY DEF PublisherNext, QueueStep, Request, Begin, Publish, Return, AbortWins, Close,
         CancelClient, CancelIncrementalWork, RunHook, FireAbort, Finally, allVars, pubVars
<1> QED BY <1>1, <1>2, <1>3

\* Once the consumer of the queue is closed, it handles nothing; tasks and pumps may still end.
LEMMA ClosedIsQuiet ==
  ASSUME PInv, SInv, phase = "closed", [PublisherNext]_allVars
  PROVE  /\ UNCHANGED <<phase, batch, failed, stopped>>
         /\ \A t \in Tasks : /\ comp'[t] \in {"idle", "early", "running"}
                                  => comp[t] \in {"idle", "early", "running"}
                             /\ comp'[t] = "running" => comp[t] = "running"
<1> DEFINE Quiet == /\ UNCHANGED <<phase, batch, failed, stopped>>
                    /\ \A t \in Tasks : /\ comp'[t] \in {"idle", "early", "running"}
                                             => comp[t] \in {"idle", "early", "running"}
                                        /\ comp'[t] = "running" => comp[t] = "running"
<1>1. comp \in [Tasks -> CompStates]
  BY DEF SInv, IInv, TypeOK
<1>2. CASE QueueStep
  <2>1. ~ HandleGraphEvent
    BY DEF HandleGraphEvent, HandleTaskSuccess, HandleTaskFailure, HandleStreamItems,
           HandleStreamSuccess, HandleStreamFailure, Handling
  <2>2. ~ Wake /\ ~ SkipStop /\ ~ EndBatch
    BY DEF Wake, SkipStop, EndBatch, Handling
  <2>3. ASSUME NEW t \in Tasks, PrimeEarly(t) \/ SettleTask(t) PROVE Quiet
    BY <1>1, <2>3 DEF PrimeEarly, SettleTask, loopVars, history
  <2>4. ASSUME NEW s \in Streams,
               PumpItems(s) \/ PumpSuccess(s) \/ PumpFailure(s) \/ PumpCancelled(s)
        PROVE  Quiet
    BY <2>4 DEF PumpItems, PumpSuccess, PumpFailure, PumpCancelled, loopVars, history
  <2> QED BY <1>2, <2>1, <2>2, <2>3, <2>4 DEF QueueStep
<1>3. ~ Begin
  BY DEF Begin, StartEvents, Resume
<1>4. ~ CancelClient
  BY DEF CancelClient, PInv, RequestInv, Running
<1>5. ~ Cancel
  BY DEF Cancel
<1>6. CASE CancelIncrementalWork
  BY <1>1, <1>6 DEF CancelIncrementalWork, loopVars, history
<1>7. CASE UNCHANGED vars
  BY <1>7 DEF vars, asyncVars, loopVars, history
<1>8. \/ QueueStep \/ Begin \/ CancelClient \/ Cancel \/ CancelIncrementalWork \/ UNCHANGED vars
  BY DEF PublisherNext, Request, Publish, Return, AbortWins, Close, RunHook, FireAbort, Finally,
         allVars
<1> QED BY <1>2, <1>3, <1>4, <1>5, <1>6, <1>7, <1>8

\* A queue that has been stopped stays so.
LEMMA StoppedStays == ASSUME stopped, [PublisherNext]_allVars PROVE stopped'
<1>1. CASE HandleGraphEvent
  <2>1. ASSUME NEW t \in Tasks, HandleTaskSuccess(t) PROVE stopped' = stopped
    <3>1. PICK work \in TaskWork(t) : Succeed(t, work)
      BY <2>1 DEF HandleTaskSuccess
    <3> QED BY <3>1 DEF Succeed
  <2>2. ASSUME NEW s \in Streams, HandleStreamItems(s) PROVE stopped' = stopped
    <3>1. PICK work \in RootWork : TakeItems(s, work)
      BY <2>2 DEF HandleStreamItems
    <3> QED BY <3>1 DEF TakeItems
  <2> QED BY <1>1, <2>1, <2>2
          DEF HandleGraphEvent, HandleTaskFailure, HandleStreamSuccess, HandleStreamFailure
<1>2. CASE QueueStep /\ ~ HandleGraphEvent
  BY <1>2 DEF QueueStep, Wake, SkipStop, EndBatch, PrimeEarly, SettleTask, PumpItems, PumpSuccess,
              PumpFailure, PumpCancelled, loopVars
<1>3. CASE Begin \/ Return \/ AbortWins \/ Close \/ CancelClient \/ CancelIncrementalWork
  BY <1>3 DEF Begin, StartEvents, Resume, Return, AbortWins, Close, CancelClient, Finally, Cancel,
              CancelWork, CancelIncrementalWork, vars, loopVars
<1>4. CASE Request \/ Publish \/ RunHook \/ FireAbort \/ UNCHANGED allVars
  BY <1>4 DEF Request, Publish, RunHook, FireAbort, allVars, vars, loopVars
<1> QED BY <1>1, <1>2, <1>3, <1>4 DEF PublisherNext

\* The iteration is closed by a step that cancels the queue; with an abort signal, the cancelled
\* client leaves its request for a batch behind.
LEMMA ClosingCancels ==
  ASSUME closing = "no", [PublisherNext]_allVars
  PROVE  \/ closing' = "no" /\ ([Next]_vars \/ SkipStop) /\ (Attached' <=> Attached)
         \/ Cancel /\ Attached'
         \/ CancelClient /\ CancelWork /\ UNCHANGED phase /\ HasSignal
<1>1. CASE QueueStep
  BY <1>1 DEF QueueStep, Next, Deliver, Attached
<1>2. CASE Begin
  BY <1>2 DEF Begin, Next, Deliver, Attached
<1>3. CASE Return \/ AbortWins \/ Close
  BY <1>3 DEF Return, AbortWins, Close, Finally, Attached
<1>4. CASE CancelClient
  BY <1>4 DEF CancelClient, Finally, Attached
<1>5. CASE Request \/ Publish \/ FireAbort \/ UNCHANGED allVars
  BY <1>5 DEF Request, Publish, FireAbort, allVars, pubVars, Attached
<1>6. ~ CancelIncrementalWork /\ ~ RunHook
  BY DEF CancelIncrementalWork, RunHook
<1> QED BY <1>1, <1>2, <1>3, <1>4, <1>5, <1>6 DEF PublisherNext

LEMMA ClosedStays ==
  ASSUME PInv, SInv, ClosedIsStopped, [PublisherNext]_allVars
  PROVE  ClosedIsStopped'
<1>1. CASE closing = "no"
  <2>1. CASE closing' = "no" /\ (Attached' <=> Attached)
    BY <2>1 DEF ClosedIsStopped
  <2>2. CASE Cancel /\ Attached'
    BY <2>2 DEF ClosedIsStopped, Cancel, CancelWork
  <2>3. CASE CancelClient /\ CancelWork /\ HasSignal
    BY <2>3 DEF ClosedIsStopped, CancelClient, CancelWork, Attached
  <2> QED BY <1>1, <2>1, <2>2, <2>3, ClosingCancels
<1>2. CASE closing # "no"
  <2>1. stopped'
    BY <1>2, StoppedStays DEF ClosedIsStopped
  <2>2. Attached' <=> Attached
    <3>1. sub \notin {"unstarted", "asking", "waiting", "yielding", "last"}
      BY <1>2 DEF PInv, RequestInv
    <3> QED BY <3>1 DEF PublisherNext, QueueStep, Request, Begin, Publish, Return, AbortWins, Close,
                        CancelClient, CancelIncrementalWork, RunHook, FireAbort, allVars, pubVars,
                        Attached
  <2>3. Attached => phase' = "closed"
    BY <1>2, ClosedIsQuiet DEF ClosedIsStopped
  <2> QED BY <2>1, <2>2, <2>3 DEF ClosedIsStopped
<1> QED BY <1>1, <1>2

\* The consumer is only closed by a cancellation of a queue that has run until then.
LEMMA OnlyCancelCloses ==
  ASSUME PInv, phase # "closed", phase' = "closed", [PublisherNext]_allVars
  PROVE  closing = "no" /\ Cancel
<1>1. ~ HandleGraphEvent
  <2>1. ASSUME NEW t \in Tasks, HandleTaskSuccess(t) PROVE FALSE
    <3>1. PICK work \in TaskWork(t) : Succeed(t, work)
      BY <2>1 DEF HandleTaskSuccess
    <3> QED BY <3>1 DEF Succeed
  <2>2. ASSUME NEW s \in Streams, HandleStreamItems(s) PROVE FALSE
    <3>1. PICK work \in RootWork : TakeItems(s, work)
      BY <2>2 DEF HandleStreamItems
    <3> QED BY <3>1 DEF TakeItems
  <2> QED BY <2>1, <2>2
          DEF HandleGraphEvent, HandleTaskFailure, HandleStreamSuccess, HandleStreamFailure
<1>2. ~ QueueStep
  BY <1>1 DEF QueueStep, Wake, SkipStop, EndBatch, PrimeEarly, SettleTask, PumpItems, PumpSuccess,
              PumpFailure, PumpCancelled, loopVars
<1>3. ~ Begin
  BY DEF Begin, StartEvents, Resume, Receive
<1>4. ~ UNCHANGED vars /\ ~ CancelIncrementalWork
  BY DEF vars, loopVars, CancelIncrementalWork
<1>5. Cancel /\ (Return \/ AbortWins \/ Close \/ CancelClient)
  BY <1>2, <1>3, <1>4 DEF PublisherNext, Request, Publish, RunHook, FireAbort, Return, AbortWins,
                          Close, CancelClient, Finally, allVars
<1>6. sub \in {"unstarted", "asking", "waiting", "yielding", "last"}
  BY <1>5 DEF Return, AbortWins, Close, CancelClient
<1> QED BY <1>5, <1>6 DEF PInv, RequestInv

LEMMA CancelStillReaches ==
  ASSUME PInv, SInv, CancelReachesLiveWork, [PublisherNext]_allVars
  PROVE  CancelReachesLiveWork'
<1>1. CASE phase = "closed"
  <2>1. /\ UNCHANGED <<phase, failed>>
        /\ \A t \in Tasks : comp'[t] \in {"idle", "early", "running"}
                              => comp[t] \in {"idle", "early", "running"}
    BY <1>1, ClosedIsQuiet
  <2> QED BY <2>1 DEF CancelReachesLiveWork, Doomed
<1>2. CASE phase # "closed" /\ phase' = "closed"
  <2>1. RInv /\ Cancel
    BY <1>2, OnlyCancelCloses DEF PInv, RequestInv
  <2>2. RInv'
    BY <2>1, NextReports DEF Next
  <2> QED BY <2>2 DEF RInv, StreamInv
<1>3. CASE phase' # "closed"
  BY <1>3 DEF CancelReachesLiveWork
<1> QED BY <1>1, <1>2, <1>3

LEMMA QueueInvBegins == ASSUME PublisherInit PROVE QueueInv
<1>1. PInv
  BY InitIds
<1>2. closing = "no" /\ tracked = {} /\ sub = "unstarted"
  BY DEF PublisherInit
<1>3. RInv
  BY <1>1, <1>2 DEF PInv, RequestInv
<1> QED BY <1>1, <1>2, <1>3
        DEF QueueInv, RInv, StreamInv, TrackedIsPending, ClosedIsStopped, Attached

\* The queue stays consistent in the composition.
THEOREM CompositionInvariance == PublisherSpec => []QueueInv
<1>1. PublisherInit => QueueInv
  BY QueueInvBegins
<1>2. ASSUME QueueInv, PInv', [PublisherNext]_allVars PROVE QueueInv'
  <2>1. PInv /\ SInv /\ TrackedIsPending /\ ClosedIsStopped /\ CancelReachesLiveWork
    BY <1>2 DEF QueueInv
  <2> QED BY <1>2, <2>1, OrderInComposition, TrackedStays, ClosedStays, CancelStillReaches
          DEF QueueInv
<1> QED BY <1>1, <1>2, PublisherInvariance, PTL DEF PublisherSpec

\* Whatever the client and the publisher do -- a late abort of tasks that are not over, a request
\* that outlives its client and goes on handling events -- the bookkeeping of the work graph is
\* exact, root groups are never nested, and a group that is reported as successful lacks no value
\* (_add_task, _task_success, _finish_group_success, cancel, cancel_incremental_work).
THEOREM QueueStaysConsistent ==
  PublisherSpec => [](TypeOK /\ GraphIsConsistent /\ RootsAreOutermost /\ SuccessIsComplete)
<1>1. QueueInv => TypeOK /\ GraphIsConsistent /\ RootsAreOutermost /\ SuccessIsComplete
  BY DEF QueueInv, SInv, IInv, OrderInv
<1> QED BY <1>1, CompositionInvariance, PTL

\* As long as the iteration is not being closed, nothing announced is stuck; and a client that
\* closes it leaves no task alive, unless all of its groups have failed, whatever is settled,
\* primed or aborted afterwards (_start_new_work, cancel).
THEOREM QueueIsServedAndCancelled ==
  PublisherSpec => [](RootsAreServed /\ CancelReachesLiveWork)
<1>1. ASSUME QueueInv PROVE RootsAreServed /\ CancelReachesLiveWork
  <2>1. closing = "no" => RInv
    BY <1>1 DEF QueueInv, PInv, RequestInv
  <2>2. closing # "no" => stopped
    BY <1>1 DEF QueueInv, ClosedIsStopped
  <2>3. RootsAreServed
    BY <2>1, <2>2, NothingIsStuck DEF RootsAreServed
  <2> QED BY <1>1, <2>3 DEF QueueInv
<1> QED BY <1>1, CompositionInvariance, PTL

\* A step of the composition reports and starts only what is new, unless it is made by a request
\* whose result nobody will see.
LEMMA CompositionIsFresh ==
  ASSUME QueueInv, [PublisherNext]_allVars, Attached
  PROVE  (EventsAreFresh /\ StartsBelowRoots) \/ UNCHANGED vars
<1>1. PInv /\ SInv /\ IInv /\ ClosedIsStopped
  BY DEF QueueInv, SInv
<1>2. CASE closing # "no"
  <2>1. phase = "closed"
    BY <1>1, <1>2 DEF ClosedIsStopped
  <2>2. batch' = batch /\ \A t \in Tasks : comp'[t] = "running" => comp[t] = "running"
    BY <1>1, <2>1, ClosedIsQuiet
  <2> QED BY <1>1, <2>2, NothingNew DEF StartsBelowRoots
<1>3. CASE closing = "no"
  <2>1. RInv /\ Running
    BY <1>1, <1>3 DEF PInv, RequestInv
  <2>2. CASE Next
    <3>1. RInv'
      BY <2>1, <2>2, NextReports
    <3> QED BY <2>1, <2>2, <3>1, NextFresh
  <2>3. CASE SkipStop \/ (CancelWork /\ UNCHANGED phase)
    <3>1. batch' = batch /\ \A t \in Tasks : comp'[t] = "running" => comp[t] = "running"
      <4>1. comp \in [Tasks -> CompStates]
        BY <1>1 DEF IInv, TypeOK
      <4> QED BY <2>3, <4>1 DEF SkipStop, CancelWork, asyncVars
    <3> QED BY <1>1, <3>1, NothingNew DEF StartsBelowRoots
  <2>4. CASE UNCHANGED vars
    BY <2>4
  <2> QED BY <1>3, <2>2, <2>3, <2>4, ClosingCancels DEF Next
<1> QED BY <1>2, <1>3

\* As long as a request has not outlived its client, a step announces, reports and delivers only
\* what is new, and starts no task before one of its groups has been announced.
THEOREM AttachedStepsAreFresh ==
  PublisherSpec => [][Attached => EventsAreFresh /\ StartsBelowRoots]_vars
<1>1. QueueInv /\ [PublisherNext]_allVars => [Attached => EventsAreFresh /\ StartsBelowRoots]_vars
  BY CompositionIsFresh
<1> QED BY <1>1, CompositionInvariance, PTL DEF PublisherSpec

\* Without an abort signal, no request outlives its client: then the composition announces,
\* reports and starts everything at most once, and delivers each value once (_subscribe, cancel,
\* _finish_group_success, _stream_items).
THEOREM CompositionReportsOnce ==
  ASSUME ~ HasSignal
  PROVE  PublisherSpec => ReportsOnce /\ ValuesOnce
<1> DEFINE Reporting ==
      /\ \A e \in NewEvents :
            /\ (e.newGroups \cup e.newStreams) \cap announced = {}
            /\ e.node \notin succeeded \cup failed
            /\ e.kind \notin {"groupFailure", "termination"} => e.node \in announced
      /\ ~ Early => \A t \in Tasks : comp'[t] = "running" /\ comp[t] # "running"
                                       => GroupsOf[t] \cap announced' # {}
           Delivering ==
      /\ \A e \in NewEvents : e.values \cap delivered = {}
      /\ \A e, f \in NewEvents : e # f => e.values \cap f.values = {}
<1>1. ASSUME QueueInv, [PublisherNext]_allVars PROVE [Reporting]_vars /\ [Delivering]_vars
  <2>1. Attached
    BY <1>1 DEF QueueInv, ClosedIsStopped
  <2> QED BY <1>1, <2>1, CompositionIsFresh DEF EventsAreFresh, Fresh, StartsBelowRoots
<1> QED BY <1>1, CompositionInvariance, PTL DEF PublisherSpec, ReportsOnce, ValuesOnce

-----------------------------------------------------------------------------
(* The finally block leaves no tracked work behind, also when a request    *)
(* for a batch survives its client and starts further tasks.               *)

Live == {"early", "running"}
Over == {"ok", "err", "earlyOk", "earlyErr", "aborted"}

\* Every task that was primed early and is still pending is tracked.  Once the executor
\* has been cancelled, nothing is tracked any more and its own tasks are over; this is
\* inductive because an early task of any executor is among the tracked ones.
TrackedIsEarly == /\ \A t \in Tasks : comp[t] = "early" => t \in tracked
                  /\ tracked \subseteq Tasks
CancelledIsOver ==
  closing \in {"executor", "done"} =>
    tracked = {} /\ \A t \in rootTasks : comp[t] \in Over
PubInv == /\ comp \in [Tasks -> CompStates]
          /\ rootTasks \subseteq Tasks /\ \A t \in rootTasks : comp[t] # "none"
          /\ TrackedIsEarly
          /\ CancelledIsOver

-----------------------------------------------------------------------------
(* How a step of the work queue moves the computations.                    *)

\* Nothing that is over goes on, what is produced stays so, and nothing gets early.
Moves == /\ comp' \in [Tasks -> CompStates]
         /\ \A t \in Tasks : comp[t] \in Over => comp'[t] \in Over
         /\ \A t \in Tasks : comp[t] # "none" => comp'[t] # "none"
         /\ \A t \in Tasks : comp'[t] = "early" => comp[t] = "early"

LEMMA SameMoves == ASSUME comp \in [Tasks -> CompStates], UNCHANGED comp PROVE Moves
BY DEF Moves

LEMMA StartMoves ==
  ASSUME comp \in [Tasks -> CompStates], NEW T, NEW N \in SUBSET NewTasks, NEW ch,
         NEW c, c = [t \in Tasks |-> IF t \in N THEN "idle" ELSE comp[t]],
         StartTasks(T, c, ch)
  PROVE  Moves
<1>1. PICK answer \in [T -> {"ok", "err", "running"}] :
        /\ \A t \in T : answer[t] \in Answers(c[t])
        /\ comp' = [t \in Tasks |-> IF t \in T THEN answer[t] ELSE c[t]]
  BY DEF StartTasks
<1>2. c \in [Tasks -> CompStates]
  BY DEF CompStates
<1>3. comp' \in [Tasks -> CompStates]
  BY <1>1, <1>2 DEF CompStates
<1>4. ASSUME NEW t \in Tasks, comp[t] \in Over PROVE comp'[t] \in Over
  <2>1. c[t] = comp[t]
    BY <1>4 DEF NewTasks, Over
  <2>2. CASE t \in T
    <3>1. answer[t] \in Answers(comp[t])
      BY <1>1, <2>1, <2>2
    <3> QED BY <1>1, <1>4, <2>2, <3>1 DEF Answers, Over
  <2> QED BY <1>1, <1>4, <2>1, <2>2
<1>5. ASSUME NEW t \in Tasks, comp'[t] = "early" PROVE comp[t] = "early"
  BY <1>1, <1>5
<1>6. \A t \in Tasks : comp[t] # "none" => comp'[t] # "none"
  BY <1>1
<1> QED BY <1>3, <1>4, <1>5, <1>6 DEF Moves

LEMMA WorkMoves ==
  ASSUME comp \in [Tasks -> CompStates], NEW T, NEW work, work.tasks \subseteq NewTasks, NEW ch,
         StartTasks(T, Produced(work), ch)
  PROVE  Moves
BY StartMoves DEF Produced

LEMMA EventMoves == ASSUME comp \in [Tasks -> CompStates], HandleGraphEvent PROVE Moves
<1>1. ASSUME NEW t \in Tasks, HandleTaskSuccess(t) PROVE Moves
  <2>1. PICK work \in TaskWork(t) : Succeed(t, work)
    BY <1>1 DEF HandleTaskSuccess
  <2>2. work.tasks \subseteq NewTasks
    BY DEF TaskWork, WorkIn
  <2>3. \E T, ch : StartTasks(T, Produced(work), ch)
    BY <2>1 DEF Succeed
  <2> QED BY <2>2, <2>3, WorkMoves
<1>2. ASSUME NEW s \in Streams, HandleStreamItems(s) PROVE Moves
  <2>1. PICK work \in RootWork : TakeItems(s, work)
    BY <1>2 DEF HandleStreamItems
  <2>2. work.tasks \subseteq NewTasks
    BY DEF RootWork, WorkIn
  <2>3. \E T, ch : StartTasks(T, Produced(work), ch)
    BY <2>1 DEF TakeItems
  <2> QED BY <2>2, <2>3, WorkMoves
<1>3. ASSUME NEW t \in Tasks, HandleTaskFailure(t) PROVE Moves
  BY <1>3, SameMoves DEF HandleTaskFailure, asyncVars
<1>4. ASSUME NEW s \in Streams, HandleStreamSuccess(s) \/ HandleStreamFailure(s) PROVE Moves
  BY <1>4, SameMoves DEF HandleStreamSuccess, HandleStreamFailure, asyncVars
<1> QED BY <1>1, <1>2, <1>3, <1>4 DEF HandleGraphEvent

LEMMA LoopMoves ==
  ASSUME comp \in [Tasks -> CompStates], StartEvents \/ Wake \/ SkipStop \/ EndBatch \/ Resume
  PROVE  Moves
<1>1. CASE StartEvents
  <2>1. PICK T, ch : StartTasks(T, comp, ch)
    BY <1>1 DEF StartEvents
  <2> DEFINE none == {}
  <2>2. /\ none \in SUBSET NewTasks
        /\ comp = [t \in Tasks |-> IF t \in none THEN "idle" ELSE comp[t]]
    OBVIOUS
  <2> HIDE DEF none
  <2> QED BY <2>1, <2>2, StartMoves
<1>2. CASE Wake \/ SkipStop \/ EndBatch \/ Resume
  BY <1>2, SameMoves DEF Wake, SkipStop, EndBatch, Resume, asyncVars
<1> QED BY <1>1, <1>2

LEMMA TaskMoves ==
  ASSUME comp \in [Tasks -> CompStates], NEW t \in Tasks, SettleTask(t)
  PROVE  Moves
BY DEF SettleTask, Moves, CompStates, Over

LEMMA PumpMoves ==
  ASSUME comp \in [Tasks -> CompStates], NEW s \in Streams,
         PumpItems(s) \/ PumpSuccess(s) \/ PumpFailure(s) \/ PumpCancelled(s)
  PROVE  Moves
BY SameMoves DEF PumpItems, PumpSuccess, PumpFailure, PumpCancelled

LEMMA CancelMoves == ASSUME comp \in [Tasks -> CompStates], CancelWork PROVE Moves
<1>1. comp' = [t \in Tasks |-> IF t \in CancelledTasks /\ comp[t] \in {"idle", "early", "running"}
                               THEN "aborted" ELSE comp[t]]
  BY DEF CancelWork
<1> QED BY <1>1 DEF Moves, CompStates, Over

-----------------------------------------------------------------------------
(* The invariant.                                                           *)

\* Track keeps the futures that are still pending, whatever the step does to them.
LEMMA TrackInv ==
  ASSUME PubInv, Moves, Track, UNCHANGED rootTasks, closing' \in {closing, "queue"}
  PROVE  PubInv'
<1>1. tracked' = {t \in tracked \cup {u \in Tasks : comp'[u] = "early"} : comp'[t] \in Live}
  BY DEF Track, Live
<1>2. TrackedIsEarly'
  BY <1>1 DEF TrackedIsEarly, PubInv, Live
<1>3. CancelledIsOver'
  <2> SUFFICES ASSUME closing' \in {"executor", "done"}
               PROVE  tracked' = {} /\ \A t \in rootTasks : comp'[t] \in Over
    BY DEF CancelledIsOver
  <2>1. closing \in {"executor", "done"}
    OBVIOUS
  <2>2. tracked = {} /\ \A t \in rootTasks : comp[t] \in Over
    BY <2>1 DEF PubInv, CancelledIsOver
  <2>3. \A u \in Tasks : comp'[u] # "early"
    BY <2>2 DEF PubInv, TrackedIsEarly, Moves
  <2> QED BY <1>1, <2>2, <2>3 DEF PubInv, Moves
<1> QED BY <1>2, <1>3 DEF PubInv, Moves

LEMMA PrimeInv ==
  ASSUME PubInv, closing \in {"no", "queue"}, NEW t \in Tasks, PrimeEarly(t), Track,
         UNCHANGED <<rootTasks, closing>>
  PROVE  PubInv'
<1>1. /\ comp' \in [Tasks -> CompStates]
      /\ \A u \in Tasks : comp[u] # "none" => comp'[u] # "none"
  BY DEF PrimeEarly, PubInv, CompStates
<1>2. TrackedIsEarly'
  BY DEF TrackedIsEarly, PubInv, Track
<1> QED BY <1>1, <1>2 DEF PubInv, CancelledIsOver

LEMMA FinallyInv == ASSUME PubInv, NEW state, Finally(state) PROVE PubInv'
BY TrackInv, CancelMoves DEF Finally, Cancel, PubInv

LEMMA QueueStepInv == ASSUME PubInv, QueueStep PROVE PubInv'
<1>1. ASSUME Moves PROVE PubInv'
  BY <1>1, TrackInv DEF QueueStep
<1>2. ASSUME NEW t \in Tasks, closing \in {"no", "queue"}, PrimeEarly(t) PROVE PubInv'
  BY <1>2, PrimeInv DEF QueueStep
<1>3. CASE Wake \/ HandleGraphEvent \/ SkipStop \/ EndBatch
  BY <1>1, <1>3, EventMoves, LoopMoves DEF PubInv
<1>4. CASE \E t \in Tasks : SettleTask(t)
  BY <1>1, <1>4, TaskMoves DEF PubInv
<1>5. CASE \E s \in Streams : PumpItems(s) \/ PumpSuccess(s) \/ PumpFailure(s) \/ PumpCancelled(s)
  BY <1>1, <1>5, PumpMoves DEF PubInv
<1> QED BY <1>2, <1>3, <1>4, <1>5 DEF QueueStep

LEMMA CancelIncrementalWorkInv == ASSUME PubInv, CancelIncrementalWork PROVE PubInv'
<1>1. comp' = [t \in Tasks |->
                 IF \/ t \in rootTasks /\ comp[t] \in {"idle", "early", "running"}
                    \/ t \in tracked
                 THEN "aborted" ELSE comp[t]]
  BY DEF CancelIncrementalWork
<1>2. \A u \in Tasks : comp'[u] # "early"
  BY <1>1 DEF PubInv, TrackedIsEarly
<1>3. tracked' = {}
  BY <1>1, <1>2 DEF CancelIncrementalWork, Track, PubInv, TrackedIsEarly
<1>4. \A t \in rootTasks : comp'[t] \in Over
  BY <1>1 DEF PubInv, CompStates, Over
<1> QED BY <1>1, <1>2, <1>3, <1>4
        DEF PubInv, TrackedIsEarly, CancelledIsOver, CancelIncrementalWork, CompStates

LEMMA CleanupGoesOn == ASSUME PubInv, [PublisherNext]_allVars PROVE PubInv'
<1>1. CASE QueueStep
  BY <1>1, QueueStepInv
<1>2. CASE Begin
  BY <1>2, LoopMoves, TrackInv DEF Begin, PubInv
<1>3. CASE Return \/ AbortWins \/ Close
  BY <1>3, FinallyInv
     DEF Return, AbortWins, Close, vars, asyncVars, PubInv, TrackedIsEarly, CancelledIsOver
<1>4. CASE CancelClient
  BY <1>4, FinallyInv, TrackInv, CancelMoves DEF CancelClient, PubInv
<1>5. CASE CancelIncrementalWork
  BY <1>5, CancelIncrementalWorkInv
<1>6. ASSUME UNCHANGED <<comp, tracked, rootTasks>>,
             closing' = closing \/ (closing = "executor" /\ closing' = "done")
      PROVE  PubInv'
  BY <1>6 DEF PubInv, TrackedIsEarly, CancelledIsOver
<1>7. CASE Request \/ Publish \/ RunHook \/ FireAbort \/ UNCHANGED allVars
  BY <1>6, <1>7 DEF Request, Publish, RunHook, FireAbort, allVars, pubVars, vars, asyncVars
<1> QED BY <1>1, <1>2, <1>3, <1>4, <1>5, <1>7 DEF PublisherNext

LEMMA CleanupBegins == PublisherInit => PubInv
<1> SUFFICES ASSUME PublisherInit PROVE PubInv
  OBVIOUS
<1>1. PICK T : comp = [t \in Tasks |-> IF t \in T THEN "idle" ELSE "none"]
  BY DEF PublisherInit, Init
<1> QED BY <1>1 DEF PublisherInit, PubInv, TrackedIsEarly, CancelledIsOver, CompStates

\* The finally block leaves no task behind that was primed early, or belongs to the
\* operation itself, also when a request survives the client (cancel_incremental_work).
THEOREM NoTrackedWorkLeftHolds == PublisherSpec => []NoTrackedWorkLeft
<1>1. PubInv => NoTrackedWorkLeft
  BY DEF PubInv, CancelledIsOver, NoTrackedWorkLeft, Over
<1>2. PubInv /\ [PublisherNext]_allVars => PubInv'
  BY CleanupGoesOn
<1> QED BY <1>1, <1>2, CleanupBegins, PTL DEF PublisherSpec
=============================================================================
