# A TLA+ verification of graphql-core

graphql-core is a library: a GraphQL operation is parsed, validated and executed inside
the process, and on the asyncio event loop, of the server that uses it. Most of it is
sequential and pure. What is concurrent is the *execution*, and most of all incremental
delivery (`@defer`, `@stream`): resolvers, early executed fragments, producers of streams,
pumps, the consumer of the results, cancellation and abort signals interleave at every
`await`, and the result has to be a protocol that a client can follow. The first half of
this project is about that. The second half follows a *request* through the sequential
algorithms: schema validation, document validation, coercion, the collection and the plan of
the fields to execute. Each of these relies on what the one before has established, and
that is what is checked.

- [The system](#the-system)
- [Modules](#modules)
- [How the models correspond to the code](#how-the-models-correspond-to-the-code)
- [Runs](#runs)
- [Fairness](#fairness)
- [Proofs](#proofs)
- [Where code and documentation disagree](#where-code-and-documentation-disagree)
- [What is not modelled](#what-is-not-modelled)
- [Plan](#plan)

## The system

Paths are relative to `src/src/graphql`.

| Component | State | Operations | Hard behaviour |
| --- | --- | --- | --- |
| **Memoized computation** `execution/incremental/computation.py` | `_status`, `_value` (a value, a reason or a future) | `prime`, `result`, `abort`, the callback `_settle` | `abort` between the end of the future and its callback; cancellation from outside; several callers |
| **Work queue** `execution/incremental/work_queue.py` | graph of groups and tasks, root groups and streams, task nodes, channel, `_stopped`, pump tasks | `events`, `cancel`, the handlers of graph events, `_start_*`, `_add_*`, `_prune_empty_groups`, `_remove_*` | tasks shared between groups, work that arrives while its group is being delivered, failure of subtrees, termination, cancellation at any time |
| **Incremental publisher** `execution/incremental/incremental_publisher.py` | `_ids`, `_next_id`, the position of the generator `_subscribe` | `build_response`, `_subscribe`, `_handle_batch` | ids over the whole iteration, abort signal against the next batch, the `finally` block |
| **Stream item queue** `execution/incremental/stream_item_queue.py` | bounded queue, pending futures, producer task and its flags, `_finished`, `_aborted`, `_stopped` | `push`, `batches`, `is_stopped`, `abort`, `_cleanup` | back-pressure, entry held back, failing source, repeated abort |
| **Incremental executor** `execution/incremental/incremental_executor.py` | groups, tasks and streams produced so far, memoized plans | sub-executors, execution groups, early priming, filtering of nulled work, stream items | work that is produced and then nulled; early execution |
| **Execution plan, field collection** `execution/incremental/build_execution_plan.py`, `execution/collect_fields.py` | none | partition of the collected fields by their defer usages | nested and overlapping fragments |
| **Executor** `execution/executor.py`, `execute.py`, `async_iterables.py` | collected errors, tracked and background futures, abort signal | `execute_fields`, `execute_fields_serially`, `complete_value` and its cases, `with_abort_signal`, the hook | null propagation, siblings of a failure, serial mutations, subscriptions |
| **Async helpers** `pyutils/abort_signal.py`, `gather_with_cancel.py`, `simple_pub_sub.py` | signal; queues of the subscriber | `abort`, `wait`; `gather_with_cancel`; `emit`, `__anext__`, `aclose` | races at each `await` |
| **Requests** `graphql.py`, `validation/validate.py`, `Executor.build` | none | the way of a request through schema and document validation, coercion and execution | what one stage relies on and another establishes; a schema that is replaced |
| **Values** `execution/values.py`, `utilities/coerce_input_value.py`, `validate_input_value.py`, `replace_variables.py`, ... | none | coercion and validation of variables, arguments and literals | the same question answered by four recursions |
| **Language** `language/` | position of the lexer, stack of the visitor | lexer, parser, visitor, printer, block strings | edits while visiting |
| **Type system** `type/` | maps of the schema, computed once | construction, validation, introspection | interfaces, cycles of input objects |
| **Validation** `validation/` | caches of the context, state of the rules | `validate`, the rules | overlapping fields with their caches, cycles of fragments, rules that rely on each other |
| **Schema utilities** `utilities/` | stacks of `TypeInfo` | changes of schemas, extension, comparison, sorting, conversion | changes that only together break a request |
| **Errors** `error/` | none | construction, formatting | - |

How they interact: the executor completes the initial result and, in its incremental
subclass, *produces work as data*: delivery groups, execution groups (a task with a
computation each) and item streams (with a stream item queue each). `build_response()`
hands this work to a publisher, which builds a work queue for it and returns the initial
result with the asynchronous generator `_subscribe()`. For each result the client asks for,
the generator asks `events()` of the work queue for a batch. The work queue starts the
computations of the tasks and one pump per stream; both push *graph events* into its
channel when they settle. Handling a graph event changes the graph, starts what has become
deliverable, and yields the *work queue events* of a batch, which the publisher translates.
A settled task or stream item brings further work with it. The end of the iteration, an
abort, a cancellation or a close all run the `finally` block, which cancels the work queue,
then the tracked futures of the executor, and then runs the hook.

What makes it correct:

- *computation*: the function runs once, all callers see one outcome, nothing is left
  running or waiting, and the cleanup is only run for what was started;
- *work queue*: the counter of each group is exact whatever is shared between groups; a
  group is announced when its parents are delivered, is reported once, after all of its
  tasks, whose values are reported once; whatever is announced is eventually reported;
  the queue ends, and does so when nothing is left; cancellation reaches what is pending;
- *publisher*: ids are announced before they are used and never used twice; the client's
  view of what is pending is the publisher's; `hasNext` is right; the iteration ends, and
  leaves nothing behind, however it ends;
- *executor*: nulls, errors and deferred fragments of a response fit together and are final
  when it is handed out, whatever is still running; mutations are serial; after an abort
  nothing is executed any more; the hook is run when everything has ended;
- *requests*: a valid document means one thing, whatever the runtime types are; a field of
  a valid request fails only for a null that validation lets pass; coercion and validation
  agree; `@defer` and `@stream` change when a field is delivered, never whether or how
  often; what is not deferred is in the initial result; a change of the schema that is not
  breaking keeps the requests that were answered; a valid schema has no input value
  without an end;
- *stream item queue*: order, back-pressure, end and failure seen behind the items,
  cleanup after everything that it cleans up, nothing left after an abort.

## Modules

| Module | Models | Extends |
| --- | --- | --- |
| `MemoCell` | what a computation promises: a cell that is started once, written once, and gives everybody what was written | |
| `Computation` | `computation.py` and the future it wraps | |
| `ComputationProofs` | theorems about `Computation` | `Computation`, TLAPS |
| `WorkQueue` | `work_queue.py`, with the tasks and pumps that run under it | |
| `WorkQueueProofs` | theorems about `WorkQueue` | `WorkQueue`, TLAPS |
| `WorkQueueOrderProofs` | theorems about the order in which `WorkQueue` reports | `WorkQueueProofs` |
| `WorkQueueReportProofs` | theorems about what `WorkQueue` reports and leaves behind | `WorkQueueOrderProofs` |
| `Delivery` | what incremental delivery promises to a client: ids, values and completions over all results | |
| `IncrementalPublisher` | `incremental_publisher.py` composed with the work queue, the client and the abort signal | `WorkQueue` |
| `PublisherProofs` | theorems about the ids, the results and the finally block of `IncrementalPublisher`, and about the queue in this composition | `IncrementalPublisher`, `WorkQueueReportProofs` |
| `StreamItemQueue` | `stream_item_queue.py` with its producer, its consumer and its callers | |
| `StreamItemQueueProofs` | theorems about `StreamItemQueue` | `StreamItemQueue`, TLAPS |
| `Execution` | the completion of a response in `executor.py`, with `gather_with_cancel.py`, the abort signal and `get_incremental_work()` | |
| `ExecutionProofs` | theorems about `Execution` | `Execution`, TLAPS |
| `Deferral` | how fields are distributed over execution groups and delivery groups, whatever is collected in the objects of a response | |
| `DeferralProofs` | theorems about `Deferral`: the shape of the work that `WorkQueue` assumes | `Deferral`, TLAPS |
| `Schemas` | types, schemas and type references as data: `type/definition.py`, `type/schema.py`, `type_comparators.py` | |
| `Documents` | documents as data, the types known at each node (`TypeInfo`), and `validation_context.py` | `Schemas` |
| `InputValues` | coercion and validation of values, literals, variables and arguments | `Documents` |
| `Collecting` | `collect_fields.py` and `build_execution_plan.py` | `InputValues` |
| `OverlappingFields` | `overlapping_fields_can_be_merged.py` with its caches, and the pairwise definition | `Documents` |
| `ValidationRules` | the rules for executable documents | `Collecting`, `OverlappingFields` |
| `SchemaValidation` | `type/validate.py`, and what its searches for cycles are to find | `InputValues` |
| `SchemaChanges` | `find_schema_changes.py` | `OverlappingFields` |
| `Requests` | the way of a request, its execution with deferred groups and streams, and its repetition under a later version of the schema | `ValidationRules`, `SchemaValidation`, `SchemaChanges` |
| `MC...` | the instances for TLC: work graphs, bounds | the module of the same name |

Operators whose comment begins with "Mutant" are plausible mistakes in the definition that
follows them. Each property of a run is violated when one of them replaces that definition.

## How the models correspond to the code

**Steps.** Everything runs on one event loop, so code between two `await`s is one step. An
action is a whole callback, handler or stretch between two suspension points, with all the
calls it makes. `HandleTaskSuccess`, for example, is `_task_success()` with
`_maybe_integrate_work()`, `_finish_group_success()`, `_prune_empty_groups()`,
`_remove_task()`, `_start_new_work()` and the computations that settle synchronously when
they are started.

**Computation.** `memo` is `_value` once it no longer is the future. The future, and the
difference between a future that is done and its callback having run, are variables of the
model, because `abort()` may come between them. `answers` of `MemoCell` is what callers have been
given, which is `returned` here: they all get the outcome of the cell.

**WorkQueue.** The dictionaries of the code are sets in the model. Where the code iterates
over one, the order is chosen freely, so the model has every order that the insertion could
give. `graph` is `_group_nodes`, with the children, tasks and counter of each node;
`taskNodes`, `valued` and `childStreams` are `_task_nodes` with the two slots of a node.
The recursive methods (`_prune_empty_groups`, `_remove_group`, `_cancel_group`) are
operators on the graph. `Reached` is the least set of groups that contains the starting
points and is closed under the recursion; `Empty`, `Promoted` and `Subtree` are the three
uses of it. `events()` is the variable `phase`: `new` before the first step, `parked` at
`await channel.get()`, `draining` while it handles graph events (no other coroutine runs
then, which is the guard `Idle` of all of them), and `yielded` at the `yield`. A value event
and the success event of its group are always reported together, and are one event of the
model. The work that a task or an item brings is any work the executor could produce there:
groups below those of the task (`TaskWork`) or at the root (`RootWork`), each produced
once. Two facts about the executor are assumptions, `ForestAssumption` and
`AntichainAssumption`; these, and the shape of `TaskWork`, are proved of the execution plan in
`DeferralProofs`. That items of a stream bring groups at the root (`RootWork`) is the empty map that
`complete_stream_item()` starts from (`PlanItem` of `Deferral`). The variables `made`, `announced`, `succeeded`, `failed` and `delivered` are history.

**IncrementalPublisher.** `ids` and `nextId` are the fields, `sub` is the position of the
generator with the fate of its request, `closing` the position in the `finally` block,
`tracked` the set `pending_incremental_futures`; `open` and `received` are the client's view: the ids
that are pending, and the tasks whose values have arrived. `Begin` is the
first step of the scheduled `anext(events)`. A client that is cancelled while it waits
behaves differently with and without an abort signal: `asyncio.wait()` does not cancel what
it waits for, so that the request survives (the states `detached...`). Values are tasks, and
the path of a group is its length.

**StreamItemQueue.** One iteration of `_run()` between two `await`s is one action; `producer`
names the `await` it is at (`pushing` and `parked` are both `entries.put()`, in `produce()`
and with the last entry). Items are numbers, in the order of the source. `Take` is one
resumption of `batches()`: the head, and everything that can be taken with it.
`cleaner` is the awaitable that `abort()` has returned. A future of an item that has been
cancelled may still end with a result or an exception.

**Execution.** A position is a `Path`; positions are numbered in document order, and each has
an object, a list or nothing below it. What every resolver does, synchronously, is chosen in
the initial state (`resolver`), and what that comes to before the first `await` is a function
of it (`become`, given by the recursion `AtOnce`); the answers of asynchronous resolvers are
chosen when they arrive. `state` is where the coroutine of a position is: `waiting` for its
resolver, `gathering` its sub-positions, `failing` while it waits for those it has cancelled;
then `value`, `null`, `failed` (null for an error that was reported), `raised` or `cancelled`.
A list that comes as an asynchronous iterable is `iterating`: it takes one item after the other
(`NextItem`), and completes each as far as it goes without an `await`; the coroutines of the items
are only started when the source has ended (`Unstarted`). If the source fails, is aborted, or an
item raises at once, the list is `closing` while the source is closed, and then settles the items
in the background. `Visited` are the positions that a synchronous stretch gets to: execution stops at the first
field that raises, the awaitables before it are settled in the background (`Abandoned`), and
those that the iterator of a list still holds, too (`Drained`). `Step` is the end of such a
stretch with the error handling of its own position. `doomed` are coroutines into which a
`CancelledError` will be thrown. A cancelled resolver may answer all the same, but
not if `with_abort_signal()` has wrapped it into a task. `outcome` is what the caller gets.
Abstractions: a coroutine is under way as soon as it exists, and `await`ing a single coroutine
is a step of its own; a source brings an item, ends or fails whenever it likes. The execution with
incremental work hands the hook over to the publisher.

**Schemas, documents, values.** A type reference is the sequence of its wrappers and its name,
a selection set is a sequence of nodes, a value has a kind and a content. The position of a
node is a path of indices, which stands for the identity of the node in the code. A
`Context` of `Documents` lists all nodes of a document with what `TypeInfo` has on its stacks
when it enters them, so that a rule is an operator that quantifies over these nodes; it
answers whether the rule reports an error. Where the *order* of a visit matters, the
recursion is translated: the fragments found so far in `collect_fields()`, the caches of the
overlapping fields (`CachedFragment`, `HasPair`), the searches for cycles in fragments and in
input objects with what they have visited.

**Collecting.** A `DeferUsage` object is the sequence of the `@defer` that it is nested in, each with
its path in the document and the object in which it was collected: the same `@defer`, met
in two items of a list, makes two usages. `CollectSelections` passes on what `collect_fields_impl()` changes in its context,
`PlannedKeys` and `NewUsageSets` are the two parts of an `ExecutionPlan`.

**Deferral.** `planned` are the fields that have been given to an executor since the request
began, with the usages they were met with, the usages of the executor, and the delivery group map they
are executed with. A `DeliveryGroup` is a usage with the object in which it was made, and the map
gives the latter. `PlanRoot`, `PlanObject` and `PlanItem` are the plan of the root, of an object
below a field, and of an object in a streamed item, each for all fields of the object. The
abstraction is in what is collected: any fields, met with the usages of the field above or
with new ones nested in these, in any object that is the value of a planned field or in it (a
list has several). `Requests` implements it; `Planned` maps its fields to those of `Deferral`.

**Requests.** One action per stage, each with the early returns of the code in `answer`. Then
`fields` is what is executed next, depth first, and `groups` and `streams` are what has been
deferred: `ExecuteField` is `execute_field()` down to the collection of the subfields of an
object and their plan, `ExecuteGroup` and `ExecuteItem` take a deferred group or the item of a
stream in any order. Resolvers return values, and the runtime type of an abstract type is any of
its possible types; nulls and failures of resolvers are the subject of `Execution`. `memo`
has the cached subfields of `collect_subfields()` whose key may be reused: in CPython, the
`id()` of an object that has been freed may be that of a later one. The field details of the
root are freed when `build_response()` returns and no `DeferUsage` refers to them; those
below the root are kept by the cache itself. With `MemoryIsReused` the model says so, without it
every object keeps its identity, as the other properties assume.

## Runs

| Run | Instance | Shows |
| --- | --- | --- |
| `computation` | two values, two reasons | cleanup only of what was started, no future left behind, settling; `Computation` implements `MemoCell`: one call, one outcome, the same for all callers |
| `queue_fork` | P with the children C and D, four tasks, one of them shared by C and D; a stream; early execution | the types, exact counters, announcement from the outside in, nothing announced is stuck, nothing left at the end, reach of the cancellation |
| `publisher_shared` | siblings P and Q, C below Q; tasks of Q, of P and Q, of P and C; a stream | the consistency of the graph; completeness and uniqueness of what is reported, and no task started before its group is announced; the results implement `Delivery`, and no value gets lost between the queue and the client |
| `publisher_live` | one group, three tasks, early execution, abort signal | the iteration ends, also by an abort while no resolver ever ends; the `finally` block completes, and leaves no tracked task |
| `stream_queue` | capacity 2, up to five items, two aborts; eager and lazy | order, back-pressure, cleanup as the last step and nothing left behind it, termination, and release of a parked producer by an abort |
| `execution` | `{ a { b! c [ d! e! ] } f! }`, every combination of synchronous and asynchronous resolvers; the list as an iterable or an asynchronous one; parallel and serial; with and without a signal | nulls, errors and deferred fragments of the response fit together, errors are final, mutations are serial, nothing is executed after an abort, the hook is run |
| `requests` | 1,260 documents, see below, in 5,464 scenarios, against 28 hand-written schemas and 1,536 with circular input objects | what each stage of a request promises to the next; the caches and searches against their definitions; deferral changes nothing but the order; the fields are distributed over delivery groups as `Deferral` says; the effect of schema changes |
| `requests_deferred` | the documents with `@defer`, `@stream` and subscriptions | violation, see below |
| `requests_memory` | the same, with memory that is reused | violation, see below |
| `queue_lost` | P, Q, C below Q; tasks of P, Q, P and C, P and Q | violation, see below |
| `publisher_unknown_id` | as `publisher_shared`, without the stream | violation, see below |
| `stream_failure` | as `stream_queue` | violation, see below |

Deadlock is not checked where the system stops by design: when the iteration has ended and
everything has settled, nothing happens any more.

**Bounds, and why they are enough.** `MaxBatches` bounds the batches of a stream. One batch
is enough for the stream's interesting cases, because each batch goes through the same
states: items before the end, the end seen behind the items, or after them. Groups: with
three groups there are siblings, parent and child, uncle and nephew, and chains that are
pruned; a task belongs to at most two groups, and sharing is what the counters depend on.
The work is not fixed: every subset of the groups, tasks and streams may be the initial
work, and the rest appears later, wherever it may, so that one instance contains many
graphs, those with empty groups included. Capacity 2 with five items lets the producer park
in front of an item and with its last entry, and lets a batch hold one, two or three items.
`abort()` is called twice since the second call has branches of its own. The tree of
`execution` has a nullable object between non-null positions, a nullable list in it, a list
whose items are non-null (both ways to settle siblings in the background; as an asynchronous
iterable it may end after its two items, fail before, between or after them, or be closed
because one raises), gathers in gathers, and a non-null root field, so that nulls end at each level; the serial
mode has two root fields, the first with a tree of its own.

The documents of `requests` are families that combine the cases which the code tells apart:
two selections (a field, one with arguments, an alias of another, an object, a spread) that
meet under equal, exclusive and abstract parent types, directly, in nested selection sets and
in fragments that spread each other; variables of six types, with and without a
default, in ten positions, with six values; fragment variables with and without default,
passed a constant, a null, a variable or nothing; nested, repeated and overlapping deferred
fragments beside selections that are not deferred; streamed lists; operations of the three
kinds with circular fragments; the requests that tell 27 changes of the schema apart; and the
input objects with up to three fields that refer to each other, with defaults. A document is
small because each rule compares two nodes, or follows one path; three fragments are
needed where a cache is hit by a third comparison.

## Fairness

- `Computation`: the loop runs a scheduled callback, and a coroutine that has been asked
  to cancel ends. A coroutine that nobody cancels may run forever.
- `WorkQueue`: `Spec` only has the consumer's steps, which are the loop's own. `LiveSpec`, for
  termination, adds that tasks and sources end, but only *as long as the queue has not been
  cancelled*: a resolver may well hang after that, and the iteration has to end anyway.
- `IncrementalPublisher`: the client keeps asking (what happens when it closes or is
  cancelled is an action it may or may not take), the loop runs what is ready, and resolvers
  end as long as the abort signal has not fired.
- `Execution`: the loop runs what is ready, and resolvers and sources end. An abort need not happen.
- `StreamItemQueue`: the producer, the consumer and the awaitable of an abort run when they
  can, and each item ends.

## Proofs

`ComputationProofs` proves for any sets of values and reasons that the computation is
well-typed, runs its cleanup only for what was started, never is pending
without its callback, and implements `MemoCell`: the function is called at most once, the outcome is
final, and every caller is given this outcome (`OneOutcomeHolds` says the last part as an
invariant). The inductive invariant adds to these what the
status says about memo, future and callback.

`WorkQueueProofs` proves for any finite sets of groups and tasks, with any parents and
any assignment of tasks to groups, any streams and both modes of execution that the queue is well-typed
(`TypeCorrect`), that graph, task nodes, channel and computations agree
(`GraphIsConsistentHolds`), and that the counters are exact (`PendingIsExactHolds`). The
last one is what decides when a group is delivered, and it is not inductive: it needs that
a counted success is counted once, and in exactly the groups that hold the task. The
inductive invariant is `TypeOK /\ GraphIsConsistent`, whose parts are

- `NodesAreMade`: only groups that have been produced have a node, and without a node there
  are no tasks and no count;
- `TasksAreEntered`: a task is entered in all of its groups that have a node, from its
  production until its value is delivered;
- `OutcomesAreUnique`: the outcome of a task is in the channel at most once, and only
  before its value is set or delivered;
- `NodesAreKept`: a task that was started keeps its node as long as a group holds it.

The proof abstracts from the queue first: `Sound` says of a graph, and of sets of produced,
valued and delivered tasks, what the first, second and last part say; lemmas show that
adding work, counting a success, removing groups and forgetting delivered tasks preserve
it. Each action is then a composition of these, and the channel is dealt with separately
(`ChannelOK`). The cardinalities of the counters are handled by the library's theorems about
finite sets. The invariant is also checked by TLC (`GraphIsConsistent` in
`publisher_shared`).

Assumptions used: `ShapeAssumption`, `DisjointAssumption` and `FinitenessAssumption` of
`WorkQueue`, here and in `WorkQueueOrderProofs`; in `WorkQueueReportProofs` also
`ForestAssumption`, and in `PublisherProofs` the `PublisherAssumption` on top of these (paths
have a length, and there are finitely many streams, as there are groups and tasks). `DeferralProofs`
shows that the executor's work satisfies `ForestAssumption` and `AntichainAssumption`, with any number
of groups. The antichain is needed for none of these theorems, which hold for any
assignment of tasks to groups; it says which instances a run may choose. TLC evaluates all
assumptions in the runs.

`WorkQueueOrderProofs` proves that groups are announced from the outside in
(`RootsAreOutermostHolds`), and that a group that has been reported as successful lacks no value,
even if further tasks are produced later (`SuccessIsCompleteHolds`). The two depend on each
other: a task that could still be added to a finished group would have to come from a task of that
group or of one above it. The inductive invariant `SInv` therefore adds to `IInv`

- `MadeIsClosed`: the ancestors of a group that has been produced have been produced;
- `Linked`: the children of a node are children in the forest;
- `AncestorsAreCleared`: above a group that is announced, or was reported as successful, the
  outcomes of all tasks produced so far have been handled (`Handled`, `Cleared`).

From the last part, and from the scope a task may hand over work in, it follows that new work
adds nothing to a reported group and nothing above it (`WorkBelow`, `WorkOrder`). Pruning is
dealt with once for all actions (`PruneOrder`): what it reaches lies below the groups it starts
from, and the empty groups it removes have no outcome ahead (`EmptyIsCleared`, which rests on
the exact counters). A failure only removes groups, with all that is below them. The three
actions that take new work in (the success of a task, the items of a stream, and the start) are one
form, `Grows`: work is entered, empty groups are pruned, and those that get a turn are started. Each
lemma about `Grows` serves all of them, here and in the next module.

`WorkQueueReportProofs` proves what the consumer of `events()` relies on, for every forest, any
assignment of tasks to groups, any number of streams and both modes: nothing that was announced is
stuck (`RootsAreServedHolds`); nothing is announced or reported twice, nor reported on before it is
announced or after its completion, and without early execution no task is started before one of its
groups is announced (`ReportsOnceHolds`); no value is reported twice (`ValuesOnceHolds`); a queue
that ends by itself has reported all it announced, and what it has left belongs to failed groups
(`NothingLeftBehindHolds`); and a cancellation reaches every task but those of failed groups
(`CancelReachesLiveWorkHolds`). These five share one invariant, `RInv`, since none of them is
inductive without parts of the others. It adds to `SInv`

- `GroupsAreBooked`, `StreamsAreBooked`: what was announced is a root, or was reported on, and
  has no node any more; a stream that has come with a task is announced with the value of that task,
  and with that of no other one;
- `NeverTwice`, `OutcomesAreUsed`: a delivered task is in no group, and an outcome that was taken
  from the channel has been counted, unless none of its groups has a node;
- `StartedForRoot`: what was started and is not delivered belongs to a root or to a lost group
  (`Doomed`: failed, or below a failed one);
- `RootsRun`: a root group has something pending, and all of it has been started. With the exact
  counters this is why a group that is to be delivered next never waits for a task nobody runs;
- `BackLinked`, `NodesHang`, `GoneIsCleared`: a node is linked from the node of its parent, and
  has one unless it is a root or lost; a group without a node gets no more tasks, or is lost;
- `PumpsAreServed`, `StreamsAreServed`: each pump has at most one event in the channel, and a
  root stream is iterating, or has its event there (or is cancelled, under early execution);
- `NewStarts`, `LoopRuns`: nothing has happened before the first iteration, and the loop does not
  stop before the roots are gone.

The argument for the end of the queue is one about the forest. A node that is not lost hangs
below a root group (`AliveIsReached`), because it is a root or its parent is another such node, and in
a finite forest a set of groups cannot contain the parent of each of its members
(`NoEndlessAscent`, by the number of ancestors). So without root groups all nodes are lost
(`NoRootsNoLife`), and a cancellation, which descends from the roots, meets all others.
Nor is a promoted group announced a second time: it hangs below a group that has just lost its
node (`PromotedBelow`), while an announced group that has a node is a root, with no node above it
(`RootsAreOutermost`). TLC has checked `RInv` on the state space of `queue_fork`, and, up to the
cancellation, on that of `publisher_shared`.

`StreamItemQueueProofs` proves for every capacity and any number of items and aborts that the
queue is well-typed, that the producer is bounded (`BoundedAheadHolds`), that the items are
delivered in order, without gaps, and completely before the queue is known to have stopped
(`OrderIsKeptHolds`), and that the cleanup comes last (`CleanupIsLastHolds`, an action
property). The order is not inductive: the invariant adds where every item that has been
pulled is. Its parts are

- `ItemsFollow`: as long as something may be delivered (`Live`), the entry held back and the
  entries of the queue are the next items of the source;
- `MarkerIsLast`: nothing comes behind the end or the failure of the source;
- `NothingIsLost`: the number of items pulled is the number delivered, held back, queued or
  about to be pushed, as long as the producer may pull more (`CanPull`), and when the
  consumer gets to see the end;
- `AbortedIsFinal`: after the end of the source, or an abort, nothing is pulled any more, and
  an item is only cancelled then, or together with the consumer. This is what excludes that
  a consumer meets a cancelled item, and loses a batch, while the producer goes on;
- `NothingResumes`: a cleanup that awaits the items, or is done, finds no producer.

Steps of either side that leave the queue alone share one lemma (`QuietInv`), steps that put
an entry two (`PushInv`, `PutMarkerInv`), and taking an entry is reduced to the entry and
what is behind it, wherever the entry comes from (`TakenFrom`, `CollectInv`). The only
assumption is `QueueAssumption`.

`PublisherProofs` proves, for the publisher composed with the queue, the client and the signal, that
the ids in use are those the client knows of and has not seen completed, that no two nodes share
one, and that between two results they are the ids of what the queue still owes
(`IdsMatchClientHolds`); that the results are what incremental delivery promises
(`ImplementsDeliveryHolds`); and that no value gets lost on its way to the client
(`ClientIsCompleteHolds`). What is promised is a specification of its own, `Delivery`: it knows
nothing of groups, tasks, batches or a queue, only of ids, values and completions, and
`IncrementalPublisher` implements it with the tasks as values and the ids below `_next_id` as those
that are used. `Publish` is the one step that sends a result, all others are stutters. The publisher reads a batch long after
the queue has made it: the queue is ahead of the client by a batch that grows with every step.
The argument bridges this by a ledger:

- `Books`: a step of the queue adds events that say exactly what the step has announced,
  completed and delivered, in an order where nothing follows its own completion (`NextBooks`, from `RInv`);
- `Ledger(U)`: for a client to whom the nodes U are pending, the events of the batch announce
  what it does not know yet, are about what it knows, except for a group that fails before it is
  announced, complete nothing twice, and lead it from U to what is pending for the queue now
  (`LedgerBegins`, `LedgerGrows`, which needs `EventsAreFresh` of `ReportsOnceHolds`);
- `Owed(R)`: for a client that has received the values R, each event of the batch has values that
  nothing before it has delivered, and R with all of them is what the queue has delivered
  (`OwedBegins`, `OwedGrows`);
- `Follows` and `Carries`: what holds of the translation between two events. Each event preserves it
  (`EventFollows`, from lemmas on `EnsureIds`, `Announce`, `Complete` and `BestId`), and so does
  the batch (`BatchFollows`), by the least index at which it would fail.

The id made up for a group that was never announced is not among the ids the client knows, nor will
it be: `Follows` keeps every completed id that the client has not been told of between the old and
the new `_next_id`. `Delivery` therefore allows for the failure of a new id that was never pending:
this is the disagreement of `publisher_unknown_id`, and the theorem shows that it is the only one. The
invariant `PInv` says that the queue runs (`RInv`) as long as the iteration is not being closed, that
between two results the ids are those of what is announced and not completed and the client has
received what the queue has delivered, and that the batch keeps the ledger, and what is owed, while
the client waits for it. The termination event is only sent when no root is left (`LoopRuns`), and the
batch that leaves none contains it (`EndIsTold`): a result says `hasNext: false` exactly when it
leaves nothing pending. Completeness then is that of the queue
(`SuccessIsComplete`, `NothingIsLeft`), read through `received = delivered`. `HandleBatch` is a recursive function, which TLAPS can unfold once its existence is shown
(`FoldExists`). TLC has checked `PInv` on the state
spaces of `publisher_shared` and `publisher_live`.

A further section of `PublisherProofs` carries the theorems about the queue over to this composition.
Three of its steps are not steps of the queue: the sentinel of `cancel()` is taken from the channel
(`SkipStop`), a client cancels the queue in the middle of a batch (`CancelClient`, which leaves the
phase alone), and the publisher aborts tasks that the queue still holds (`CancelIncrementalWork`).
None of them disturbs `SInv`: the first handles no outcome, and the last only aborts what has none
(`TrackedIsPending`). So the graph is consistent, the roots are outermost and successes are complete
all along (`QueueStaysConsistent`), and what is tracked does not escape a cancellation
(`QueueIsServedAndCancelled`; once the consumer is closed, `ClosedIsQuiet` says that nothing but the
ends of tasks and pumps is left). That nothing is reported twice holds for all steps but
those of a request that has outlived its client (`Attached`, `AttachedStepsAreFresh`). Only a client
with an abort signal can leave such a request behind; without one `ReportsOnce` and `ValuesOnce` hold
of the composition as they stand (`CompositionReportsOnce`). After the nodes of the roots have been
taken away under it, a request left behind goes on handling events whose result
nobody receives; for it the two are only model-checked. The invariant is `QueueInv`.

The last section of `PublisherProofs` proves that the finally block leaves no task running that was
primed early, or belongs to the operation itself (`NoTrackedWorkLeftHolds`). The invariant adds
that every task primed early and still pending is tracked, and that after
`cancel_incremental_work()` nothing is tracked and the tasks of the operation are over. `Moves`
says what any step of the work queue may do to the computations: what is over stays over, and only
`PrimeEarly` makes a task early; so a request for a batch that survives its client may start
further tasks, but none of these. No assumption on the forest is needed.

`ExecutionProofs` proves for any response tree, any resolvers and both modes of execution that
the response is well-formed (`ResponseIsSoundHolds`: every position in its data is complete, none
with a non-null type is null, and those null for an error are the ones reported), that it gets no
further error once it is built (`ErrorsAreFinalHolds`), that the deferred fragments announced
with it are those whose position is in the data (`WorkHasParentHolds`), that the fields of a
mutation run one after the other, each when those before it are complete with everything in their
data (`SerialOrderHolds`), and that after an abort no coroutine goes on
to execute fields (`NoCallAfterAbortHolds`). None but the last is inductive, because the data is
cut by errors while coroutines below the cut are still running. The parts of the invariant
`IInv` are

- `AtOnceRule`: what comes of each resolver at once follows the recursion over the tree. That
  a function that follows it exists is shown by a least counterexample (`Least`,
  `AtOnceExists`), without which `CHOOSE` would say nothing;
- `ReachedDown`: a position is visited below one that has, or had, a value;
- `ValueIsWhole`: the sub-positions of a value are complete;
- `AtOnceIsFinal`: what was complete, or had raised, before any await stays so;
- `NonNullIsKept` and `NulledFailed`: nothing with a non-null type is null or failed, and every
  failed position has a reported error at or above it;
- `WorkIsReached`: the deferred fragments below a value have been produced;
- `RootsInOrder`: a root field of a mutation is visited when those before it are complete.

The lemma everything rests on is `FirstMissing`: on the way from the root to a position without a
value, the first position without one is in the data. When the root is complete it is null or
failed, and has a reported error; so a step of a coroutine further down changes neither data nor
errors (`ErrorsKept`, `FoundIsKept`), and `sent`, computed when the root is completed, stays right.
The steps that complete positions are reduced to one form (`Comes`, `Visit`, `Changed`), in which
`StepInv` proves the invariant once for all actions; the steps that only end coroutines share
`EndsInv`. TLC has checked `IInv` on the state space of `execution` before.

The invariant of `NoCallAfterAbortHolds` is only that every position has a state (`StateTotal`): the
steps that visit positions are the start, the serial reducer, the arrival of a value and the next item
of a source; the reducer looks at the signal before each field, and `with_abort_signal()`
turns a value or an item that arrives late into an error. The assumption is `TreeAssumption`.

`DeferralProofs` proves about the execution plan, for any number of `@defer`, whatever is collected in
whatever objects, in any order of execution, that

- no usage is looked up that has no delivery group (`UsagesHaveGroupsHolds`: there is no `KeyError`
  in `get_new_delivery_group_map()` and `get_delivery_groups()`);
- the delivery groups form a forest (`GroupsFormForestHolds`), and those of one execution
  group are not nested in each other (`TasksAreAntichainsHolds`): the two assumptions of `WorkQueue`;
- a field is planned for the initial result exactly if it is selected outside of all `@defer`, and
  otherwise for a group at or above each `@defer` that selects it, so that it comes no later than
  any of them is reported as complete (`NothingComesLateHolds`). This is about what has been
  collected; that a selection may not be collected where it should be is disagreement 4 below;
- an execution group makes groups, and plans execution groups, only within its own groups or
  nested in them, and nothing for the initial result (`WorkStaysNestedHolds`): this is `TaskWork`.

The inductive invariant `PlanInv` says that a field's usages are in its map, and a map with
a usage has its parent (`FieldOK`), that groups are made in objects with planned fields
(`MadeInObjects`), and that two maps that know the same group agree on its parent (`MapsAgree`).
The last one makes the group of a parent independent of the field through which one looks at it; it is
kept because an object is planned once, with one map for all its fields. The least set in the definition of
`Ancestors` is reached by three lemmas: what is above a group has a usage nested around its usage
(`AncestorsAreAround`); a usage nested around another one has a group above that of the other one
(`NestedGroups`, by a shortest usage for which this fails); and among the usages met, each has an
outermost one at or around it (`OutermostExists`), which is why the filter loses no field. There is no assumption.
That `Requests` implements `Deferral` is only model-checked (`ImplementsDeferral`).

Only model-checked: the liveness properties (`DoneSettles`, `IterationEnds`, `BatchesEnd`, `HookFollows`),
which are beyond the proof system, and the ten properties of `Requests`, whose operators are recursive,
as documents are: the provers have no induction over them. Every other property of the
passing runs is a theorem.

## Where code and documentation disagree

Each of the five is a run of its own, with a counterexample that has been reproduced with
the library.

1. `publisher_unknown_id`. A fragment C, nested in Q, shares a task with the announced P. When
   that task fails, C fails with P although it has not been announced; `_ensure_id()` then
   makes up an id, and the client is told of the completion of something that was never
   pending.
2. `queue_lost`. P and C share a task, and C is nested in Q. When that task has succeeded, nothing
   is pending in C, while P still waits for a further task. Q is delivered, and C, which is to be
   promoted, is pruned as an empty group; then P fails, and the value is lost although none of C's
   tasks have failed. It is lost as well when P fails first.
3. `stream_failure`. With early execution, a source that fails cancels the items that are
   still pending, and the consumer, which is awaiting one of them, gets a `CancelledError`
   that nobody turns into an event: the stream is never completed, and the client waits
   forever. `RootsAreServed` therefore allows for it (`PumpCancelled`).
4. `requests_deferred`. In `{ ...F @defer ...G }`, with `F` containing a spread of `G`, the
   fragment `G` is met first below the deferred `F`, by a spread that is not itself deferred.
   It counts as visited and not deferred, and the spread outside of `F` is skipped: its fields
   are missing from the initial result, and come with the deferred one.
5. `requests_memory`. `collect_subfields()` caches by the `id()` of field details. Those of
   the root are freed when the initial result is returned and nothing at the root is deferred;
   objects that are executed later, in a streamed item or a nested deferred fragment, can have
   field details with the same `id()`, and get the subfields of another field. With ten root
   fields, most responses of such a request have wrong subfields.

Orphaned resolvers (a sixth disagreement, reproduced with the library, without a run of its
own): `gather_with_cancel()` promises to cancel and await the siblings of a failure. With an abort
signal, the coroutine of such a sibling waits for a task with `asyncio.wait()`, which leaves
that task alone when it is cancelled: the resolver goes on while the result is delivered and
the hook `async_work_finished` is run. Without a signal, a cancelled `gather()` that is
nested in another one ends with its first cancelled child, and does not wait for the others.

Met while modelling, and not stated as properties because the code promises nothing about
them:

- a root field of a mutation that fails, or has a null below it, is over while siblings of the
  failure are still running in the background: they may go on while the next root field is executed
  (`SerialOrder` is about what is in the data);
- a resolver of a serial operation that triggers the abort signal synchronously makes
  `execute()` raise the abort reason as it is, not an `AbortedGraphQLExecutionError`, and the
  hook is not run (the outcome `raised` of `Execution`);
- `complete_async_iterator_value()` closes its source and settles the items it has collected in an
  `except Exception` (`executor.py:1332`), which does not see a `CancelledError`: when a sibling of
  a non-null type fails while the list is being consumed, the source's `aclose()` is never called
  and the coroutines of the items are dropped, never awaited (`Interrupted` on `iterating`);
- a task that is running when its last group fails is not reached by a later `cancel()` of
  the queue (`CancelReachesLiveWork` says exactly what is reached); the executor's own
  cancellation may reach it;
- with an abort signal, a request that has been scheduled but has not run yet survives the
  cancellation of the client, and starts the root tasks after `cancel()`;
- an iteration that is closed before its first result was requested runs neither the
  cancellation nor the hook, because the generator's `finally` block is never entered;
- `abort()` of a stream item queue returns `None` while a failing producer is still
  settling its items, and this producer may then park on the full queue, where only a
  further `abort()` releases it; a consumer that is cancelled in `_cleanup()` leaves the
  source open; and the cleanup of the consumer closes a source that has already been
  exhausted;
- `validate()` raises instead of reporting when a rule relies on another one that runs in
  the same visit: on circular fragments below a mutation or a subscription (`RecursionError` in
  `defer_stream_directive_on_root_field.py`), on `@stream` at a field without a type
  (`AttributeError` in `stream_directive_on_list_field.py`), and on `@defer` in a
  subscription (`GraphQLError` in `single_field_subscriptions.py`); this is the answer `raised`
  of `Requests`;
- a nullable variable may stand where a default would replace a missing value, and then be
  null (allowed by the specification of GraphQL; `ArgumentsCoerce` says exactly that), or stand
  inside a OneOf input object behind a wrapped type;
- `find_schema_changes()` does not count some changes as breaking that make a valid
  document invalid; `HasUnreported` lists them;
- without locations, equal selection sets share an entry of the field cache of the overlapping
  fields, and so do fragments that are spread with different arguments: `OverlapIsPairwise` is
  about parsed documents without fragment arguments;
- `get_stream_usage()` evaluates `@stream` without the variables of the fragment.

## What is not modelled

- The *contents* of results, errors, paths and labels. Values are identities.
- Early execution *ahead of production*: in the code an execution group that runs early may
  itself produce and prime nested groups before its success is handled. Here a task is
  produced when the success that brings it is handled, and may be primed from then on.
- The awaitables returned by `abort()` and collected by `cancel()`: the model cancels in one
  step, and does not wait for coroutines that react to their cancellation (it does so in
  `Computation` and `StreamItemQueue`, where this is the question).
- A `BaseException` other than an `Exception` raised by the function of a computation, which
  leaves `prime()` as it is (`computation.py:66`).
- In the executor: awaitable runtime types and `is_type_of()` (a further `await` of the
  same form as that for the resolver), sources without an `aclose()`, awaitables that resolvers
  track themselves, middleware, subscriptions, execution without a running
  event loop, and a resolver that is cancelled before its first step.
- In a request: resolvers that fail or return null (they are in `Execution`), lists of
  more than one item, custom scalars, enum types with internal values, out names, the
  optional validation rules and those for type system documents, names that begin with `__`, custom
  directives, and the deprecated `value_from_ast()`. The streams of nested lists have one level.
- Parsing and printing: conversions between text and documents, character by
  character. Visitors that edit the document.
- Introspection data, scalars, printing, error formatting and the harness: conversions
  of data without states or orders of events.

## Plan

Done: computation, work queue, publisher, stream item queue, the completion of responses,
with the proofs above; the distribution of deferred fields, proved as well; field collection and execution plans, values, validation of
documents and schemas, schema changes, composed as requests.

Next, in this order:

1. *Executor*: awaitable runtime types in `Execution`; the mapping of subscriptions and
   `SimplePubSub`.
2. *Language*: the visitor with its edits, parallel visitors, block strings, the token
   machine of the lexer.
3. *Utilities*: extension and sorting of schemas against `SchemaChanges` (no changes).

Theorems worth proving then: that `Requests` implements `Deferral`. It needs `collect_fields()` with its
recursion taken out, for instance as a stack of selections, of which each step can be shown to add usages
nested in those met.
