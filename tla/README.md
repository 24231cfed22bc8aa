# A TLA+ verification project for the stream-processing baselines

This directory holds TLA+ models of this repository's concurrent and sequential
core, TLC configurations that check them on small instances, and TLAPS proofs of
the main safety results for every size. Paths below are relative to `src/`; `LS/`
stands for `lightsaber/LightSaber/src/`.

## 1. The system and its parts

The repository collects the systems a stream-processing benchmark compares:

* **LightSaber/Scabbard** (`lightsaber/LightSaber`), a C++ engine and by far the
  largest part;
* hand-coded C++ programs for the Yahoo benchmark (`hardcoded_cpp`);
* hand-coded Java programs for the Yahoo and Linear Road benchmarks
  (`handcoded_java`);
* job declarations for Kafka Streams and Flink (`kafka-streams`,
  `flink-benchmark`).

How one LightSaber query works:

1. The source thread (or the worker that forwards an upstream result) calls
   `TaskDispatcher::dispatch`. It `put`s the bytes into the query's circular
   buffer and spins while the buffer is full.
2. `assemble` cuts the stream into batches of `m_batchSize`; `newTaskFor` builds
   a task per batch and enqueues it in the task queue all queries share.
3. Worker threads dequeue tasks and run the operators on the batch, which they
   read in place.
4. The worker stores its result in the slot `(taskId - 1) % SLOTS` of the
   query's `ResultHandler`. Whoever gets the forward lock with `try_lock`
   forwards the ready results in task order to the downstream queries, then
   frees the batch in the circular buffer, then releases the slot.
5. With fault tolerance on, the input buffer is also a log on disk, a coordinator
   writes the result slots to checkpoints, and lineage graphs tell how far the log
   may be freed. All of it is built on these slots and pointers.

## 2. Modules

`PROJECT.json` maps every definition to the lines it models, lists the components
that are modelled, partly modelled or left out, and the hazards with the line where
each bites and the properties that cover it.

| Module | Source | What it models |
|---|---|---|
| `CircularQueryBuffer` | `LS/buffers/CircularQueryBuffer.h`, `QueryBuffer.h` | `put` and `free` of the input buffer |
| `TaskDispatcher` | `LS/dispatcher/TaskDispatcher.cpp` | the dispatching thread over its buffer; workers by contract |
| `ResultHandler` | `LS/result/ResultHandler.cpp` | `forwardAndFreeWithoutFrags`, one step per atomic access; dispatcher by contract |
| `OrderedOutput` | | abstract specification of a result handler |
| `PartialResultSlot` | `LS/result/PartialResultSlot.h` | the window fragments of a slot and how two slots are merged |
| `WindowResultHandler` | `LS/result/ResultHandler.cpp` | `aggregateAndForwardAndFree`, one step per atomic access |
| `Pipeline` | also `LS/processor`, `LS/tasks/Task.cpp` | a whole query: dispatcher, queue, workers, handler; no contract assumed |
| `Checkpoint` | `LS/checkpoint/FileBackedCheckpointCoordinator.cpp` | checkpoints, purge, crash and recovery of a window query |
| `PersistentBuffer`, `BlockManager` | `LS/buffers/PersistentCircularQueryBuffer.h`, `LS/checkpoint/BlockManager.cpp` | the input log: parallel insertion, acknowledgement, files, crash, replay |
| `Lineage` | `LS/checkpoint/LineageGraph.cpp` | lineage graphs on their way through two queries |
| `WindowKernels`, `AggregationTree` | `LS/cql/operators/codeGeneration/` | the four generated window kernels and the tree behind sliding windows |
| `WindowComputation` | | kernels and fragment merging composed over a stream |
| `HashTable` | `OperatorKernel.h` | the generated group-by table and the merges of its fragments |
| `GeneralAggregationGraph` | `GeneralAggregationGraph.h` | the generated code for several windows over one ring |
| `WindowBatch` | `LS/tasks/WindowBatch.cpp` | the window pointers of a batch |
| `JoinTaskDispatcher` | `LS/dispatcher/JoinTaskDispatcher.cpp`, `ThetaJoin.h` | two streams, their buffers, the tasks of a join |
| `ParallelMerge` | `LS/result/ResultHandler.cpp` | window results with parallel merging |
| `NumaBuffers` | `LS/buffers/*Numa*.h`, `LS/tasks/NumaTaskQueueWrapper.cpp` | input buffers and task queues per NUMA node |
| `SubQueue`, `FreeList`, `ProducerHash`, `ConsumerToken` | `LS/tasks/ConcurrentQueue.h`, `hardcoded_cpp/concurrentqueue.h` | the layers of the task queue |
| `ReaderWriterQueue`, `SpscQueue`, `BlockingQueue` | `hardcoded_cpp/readerwriterqueue.h`, `intelSPSC.h`, `blockingconcurrentqueue.h` | the other queues |
| `CampaignWindows`, `GlobalWindows`, `LocalWindows`, `FlinkApproach` | `hardcoded_cpp/*.cpp` | the hand-written benchmark programs |
| `TaskDispatcherProofs`, `TaskQueueProofs` | | theorems about `TaskDispatcher` |
| `ResultHandlerRing`, `ResultHandlerForwarding`, `ResultHandlerProofs` | | theorems about `ResultHandler` |
| `PipelineProofs` | | theorems about `Pipeline` |
| `LineageProofs` | | theorems about `Lineage` |
| `ModArithmetic` | | lemmas about `%` and `\div` |
| `MC*` | | instances for TLC |

### CircularQueryBuffer and TaskDispatcher

`startP`, `endP`, `temp`, `wraps` are `m_startP`, `m_endP`, `m_temp`, `m_wraps`.
The bytes are abstracted to their place in the stream: `mem[i]` is the stream
offset of what index `i` holds. So "the batch is intact" is a statement about
offsets, whatever the data is. `put` is two steps (`putAdmit` or `putReject`,
then `putCopy`), because workers free between the admission test and the
publication of the end pointer. The second half of `dispatch` is cut where
another thread can observe it: after the copy, after building a task, after
enqueueing it. A task carries the fields `newTaskFor` gives it: buffer pointers
`p` and `q`, stream pointers `b` and `d`, the free pointer, and the tuple that
is read for the end timestamp of the previous batch. `queue` and `mergeTasks`
are the shared task queue, a bounded set with atomic operations.

The contract of the rest of the system: a worker takes any queued task, and the
input of tasks is freed one at a time in task order.

### ResultHandler and OrderedOutput

`slot` is `m_slot` of every slot (-1 free, 0 being filled, 1 full, 2 locked),
`result` its payload, named by the task id, and `latch` is `m_latch`. Each
worker has a program counter. Reserving with `compare_exchange`, filling,
publishing, `try_lock`, looking at the next slot, each downstream `tryDispatch`,
freeing the input, releasing the slot and unlocking are separate steps. A
downstream query accepts or rejects nondeterministically. A failed
`compare_exchange` changes the worker's `oldVal`, as in C++. The contract of the
dispatcher is the bound on tasks in flight (`created`).

`OrderedOutput` has no slots, locks or threads. `ResultHandler` implements it
under the mapping "completed = in a full or locked slot, or freed".

### PartialResultSlot and WindowResultHandler

A window that lies across batches is computed from fragments: a batch opens it,
a batch closes it, and every batch in between adds its pending fragment, which
all such windows share. A window's value is abstracted to the set of
contributions `<<window, batch>>` it was aggregated from; whether a window is
right is then a question about sets, for any aggregate function.
`PartialResultSlot` has the four lists of a slot and the operators that merge
one slot with the next, with every check that throws. `withPending` and
`prepend` follow the loops in the generated code and in `PartialWindowResults`,
loop bounds included.

`WindowResultHandler` has the slots of the handler with the flags -1 free, 0
being filled, 1 to be merged, 3 ready, 4 being forwarded (2 and 5 belong to
checkpoints), and two critical sections with a pointer and a lock each. Merging
two slots is one step: both have flag 1, which only the holder of the merge lock
changes. An exception while merging leaves the worker through the `catch` clause
with the merge lock held, as in the code. What batches open and close is an
input, a member of `Queries`; a window is closed in the batch where the kernel
writes its closing fragment.

### Pipeline

`Pipeline` instantiates both modules and joins the actions they share: taking a
task with starting it, and the handler's free with the buffer's. Neither
contract is assumed. `D!Spec` and `R!Spec` are properties instead, checked by TLC
and proved, so what is shown of each component alone holds in the composition.

### Fault tolerance: Checkpoint, PersistentBuffer, Lineage

`Checkpoint` is one window query with its coordinator thread. The phases of the
coordinator (trigger, mark, write, commit in three stores, reset, purge) are
separate steps, and so are the workers' asynchronous writes and their callbacks.
A crash may happen at every step. Stores to persistent memory and completed writes
survive it; a write in flight reaches the file or does not. Recovery follows
`prepareRecovery`.

`PersistentBuffer` is the input buffer that is also a log. The dispatcher puts a
batch, a worker copies it and submits the write, a callback marks the slot, and
slots are acknowledged and consumed in order. `BlockManager` has the files of the
log, which `getFilePtr` reads without the lock that `freePersistent` holds. After a
crash the log is read back and the source goes on after the last acknowledged batch.

`Lineage` is a pipeline of two queries. A graph is abstracted to the free offset of
the upstream query. It travels with a task, is held by the result handler while the
downstream buffer is full, is left with the slot of the downstream buffer in which
the results end, is taken by the downstream task, and frees both buffers when that
task is forwarded. Results are counted in units, so a result may be empty, may end
within a batch, or may fill several.

### Algorithms: WindowKernels, HashTable, GeneralAggregationGraph, WindowBatch

These are the sequential algorithms that run within a task. Most are generated as
C++ text; the models are of the code that is generated. A value is the set, or the
bag, of tuples that were aggregated into it, so a tuple that is lost or counted
twice shows for any aggregate function. Each algorithm is compared with a direct
definition of a window, a map or a fold.

The selection of a query is part of the kernels: in the kernels for windows of time
without groups it encloses the whole body of the loop, so a tuple that fails it opens
and closes nothing; in the others it guards the aggregation only.

Three properties are stated for the queries for which the code is exact, and name
them:

* `BatchHoldsWindow` excludes batches with several complete tumbling windows of
  time (the kernel goes back to a tuple it has aggregated), panes of one tuple,
  groups that miss a pane of a sliding window, and selections that drop the tuple at
  which a window of time opens or closes (`BoundariesPass`);
* `MergeExact` names the windows whose fragments come out whole, which leaves out
  what the window violations below show, and the same selections;
* `Exact` of `GeneralAggregationGraph` leaves out MAX, and MIN over several windows,
  for which the generated answer is not the aggregate.

### Concurrency: joins, parallel merging, NUMA, queues, benchmark programs

`JoinTaskDispatcher`, `ParallelMerge` and `NumaBuffers` have one step per access
that another thread can observe, and every behaviour is followed to its end. Their
properties do not hold for every configuration; each names those for which it does:

* a join whose streams are fed directly (`DirectExact`) needs batches larger than
  two windows and a `put` together, and slides of more than one tuple (`WellSized`).
  With smaller batches one side can complete two tasks while the other has no new
  tuples, and the second gets a wrong range; with a slide of one tuple the first
  `free` may give back a whole round. A comment in `createTask` (line 367)
  admits it: "At the moment it works only when inserting small number of tuples from
  both sides";
* a join fed by upstream queries (`SerialInOrder`) takes their results in order and
  passes none over. What the tasks read is not claimed: an end index is stored before
  the lock is taken (`JoinTaskDispatcher.cpp:225`), and the other side may use it;
* parallel merging (`ParallelMergeSound`) never waits on itself for any windows, and
  forwards exact windows when no window lies within one batch and every batch leaves
  a window open (`Overlapping`). A window within a batch is the violation
  `merge_length` below. A batch that leaves none open leaves its result slot with a
  window slot that may already be forwarded, and is never freed. Input is freed in
  order as long as no checkpoint marks a slot: one that does reads a flag and
  overwrites it later. There is one downstream query: `m_latch` of a window slot is
  not reset when the slot is used again, so with two a window slot that was once
  rejected by the second skips the first ever after.

The concurrent queue is split into the layers its author separates: the sub-queue
of one producer with its blocks and block index (`SubQueue`), the free list of
blocks (`FreeList`), the hash table of implicit producers (`ProducerHash`) and the
choice of a sub-queue (`ConsumerToken`). Each is checked on its own against what the
layer above needs. The repository has two revisions of the header. Operations of the
interface are mapped to LightSaber's copy and their steps to the copy in
`hardcoded_cpp`, which differs in comments and in an assertion. Indices are taken
modulo a small width, so they wrap within a run. Two properties are weaker than one
might expect. An explicit producer is exact until one of its calls of `enqueue_bulk`
fails after it has inserted a block (`SubQueueExact`): the call sets
`pr_blockIndexSlotsUsed` back and leaves the block in the ring, and a later call
writes over the index entry of a block with items. A dequeue that returns false has
tried every producer (`FalseWhenEmpty`), but may have missed an item while another
consumer was dequeuing from the same producer, because that one claims an index
before it knows whether it may keep it.

The benchmark programs share hash tables without synchronisation.
`CampaignWindows` has the window switch that two of them share. Every access to a
table is a step. The programs do lose counts, and the models record where: a view
that meets a reset, or a second reset for the same window (`raced`); a buffer whose
array is filled again before it is read (`overwritten`); a tuple pushed after its
consumer has stopped (`late`). The properties say that the counts are right but for
these.

## 3. What the runs check

| Run | Bounds | Properties |
|---|---|---|
| `result_handler` | 3 slots, 3 workers, 2 downstream queries, 4 tasks, one with empty output | `ExclusiveSlot`, `NoResultLost`, `ImplementsOrderedOutput` |
| `small_ring` | the same with 2 slots for 3 batches | violation of `NoResultLost` |
| `pipeline` | buffer of 2 batches, 2 slots, 2 workers, 1 downstream query, 4 batches; fairness | `RunningBatchIntact`, `NextSlotIsOldest`, `DispatcherContract`, `HandlerContract`, `DispatchReturns` |
| `task_id_wrap` | ids wrap at 7, 4 slots | violation of `NextSlotIsOldest` |
| `window_merging` | 4 slots, 3 and 4 batches, 2 workers, 6 tasks; three window definitions; fairness | `WindowsComplete`, `MergeLockReleased`, `MergedBetweenPointers`, `EventuallyFreed`, `ImplementsOrderedOutput` |
| `window_long_sliding` | sliding windows of almost two batches | violation of `WindowsComplete` |
| `window_stale_pending` | sliding windows a little longer than a batch | violation of `MergeLockReleased` |
| `fault_tolerance` | checkpoint: 3 slots, 3 tasks, 2 checkpoints, 1 crash, with and without lineage; buffer: 2 slots, 3 files, 6 batches, 1 crash; lineage: 3 slots each, 6 batches, results of 0 to 3 units; fairness | 13: `TypesOK`, and per part those listed below |
| `exactly_once` | the same | violation of `NoResultLost` |
| `algorithms` | dispatcher: buffer 16, batch 4, tuple 2; dispatches of 2, 6, 8, 12; stream of 40; 2 workers, queue of 6. Algorithms: windows of 2 to 9 with all slides that divide them, batches of 3 to 12, 3 batches; 3 keys in a table of 2 buckets, 4 tuples, 3 fragments; graphs of up to 3 windows; window pointers of up to 6 tuples with gaps | `IInv`, `BatchReadable`, `PreviousTupleRead`, `InFlightBound`, `EnqueueNeverWaits`, `CompleteWindowsExact`, `WindowsExact`, `TableIsAMap`, `MergeIsUnion`, `GraphAnswersWindow`, `BoundariesExact` |
| `concurrency` | 14 parts, constants in `MCConcurrency` | `TasksExact`, `QueuesExact`, `BenchmarksExact` |
| `merge_length` | its part `merge`, with four window definitions | violation of `MergedWindowsExact` |

The properties of `fault_tolerance`:

* checkpoint: `SnapshotIsACut`, `NoSlotLeftMarked`, `CommittedIntact`,
  `MergesSucceed`, `PurgedWhenForwarded`, `RestoredAsWritten`;
* persistent buffer: `AcknowledgedIsLogged`, `TasksReadTheLog`, `ReplayMeetsInput`,
  `PutSucceeds`;
* lineage: `LineageExact`, and within `TypesOK` the inductive invariant of its proof;
* all: `WaitingEnds`. A triggered checkpoint is committed unless it reaches one of
  the states named in `Wedged`, and the source is never shut out of the buffer.

The last five runs hold several parts each, of which `merge_length` uses one. A behaviour is one of one part, which
the variable `part` names, and the variables of the others stay as they were.

**Why the bounds are enough.** For the dispatcher in `algorithms`, lengths below a batch, of one and a
half, two and three batches occur, and copies that cross the end of the buffer. The
stream is two and a half laps, so every index is overwritten twice and the free
pointer passes the end of the buffer. In `result_handler` the ring wraps (4 tasks, 3
slots), every worker can be ahead of every other, and a result can be rejected at the
first and at the second downstream query. As many slots as batches is the tight case;
more slots only relax it. What is said of the dispatcher, and what `result_handler` and
`pipeline` say of safety, is also
proved for all sizes. The window runs reuse slots (6 tasks on 4 slots) and cover the
three ways a slot is merged: closing fragments only (sliding windows within two
batches), pending ones in between (tumbling windows of two and a half batches), and
no fragments, when two slots become ready at once. In `fault_tolerance` a second
checkpoint starts while the first is purged, the crash falls on every step of both,
the log passes the end of its slots and reaches its last file, and results end
in every position of a downstream batch. In `algorithms` windows are shorter than,
equal to and longer than batches, selections keep every tuple or one in two, groups
are in up to three, and hash tables overflow. In `concurrency` every
queue passes its block or ring boundaries, and the indices of `SubQueue` wrap. The
join has the smallest batch that is `WellSized`, both buffers wrap, and several tasks
are made.

Worker names are interchangeable in the result handlers, so `result_handler`,
`small_ring` and the window violations use them as a symmetry set. No liveness
property is checked under symmetry.

**Fairness.** In `pipeline` and `window_merging` the dispatching thread and the
workers are threads that spin or poll, so weak fairness of each is what the operating
system gives. Two strong assumptions are added. A queued processing task is not
passed over for ever: the queue is first in, first out for its one producer. A
downstream query does not stay full for ever: it is a query with workers of its own.
Without merge tasks the property fails, as its mutant shows. In `window_merging`
merge tasks keep arriving, which is what the blocked dispatcher of `Pipeline` does.
In `fault_tolerance` the fairness is weak and per thread: the dispatcher, the workers
(with the disk, which answers) and the coordinator of `Checkpoint`; the dispatcher's
put, its consumption of slots, the workers and the two threads of recovery of
`PersistentBuffer`. No fairness is assumed of a crash.

**Deadlock** is checked in every run but the last five. In `Pipeline` the `quiescent`
action stutters when everything dispatched within the bound has been processed; in
the result handlers a merge task can always arrive. The streams, tasks and crashes of
`fault_tolerance`, `exactly_once`, `algorithms`, `concurrency` and `merge_length` are
finite, and the benchmark programs end: there a last state is
normal, and what must not be a last state is stated as a property (`EnqueueNeverWaits`,
`WaitingEnds`, `ParallelMerge`'s `NeverWaits`, `PutSucceeds`).

### The violations

* `small_ring`. `ResultHandler.cpp:150` passes `oldVal` to
  `compare_exchange_weak` in a loop. A failure stores the observed value in
  `oldVal`, and nothing resets it, so the next round succeeds on an occupied
  slot. The comment at line 175 says no other thread can modify the slot. The
  loop never runs twice when `SLOTS` is at least the number of batches
  (`SlotsSuffice`), as with the defaults, 256 slots for 32 batches. Nothing
  enforces it: `TestJoin.cpp:14-18` sets up 1024 batches with the default slots.
* `task_id_wrap`. `getTaskNumber` returns to 1 after `INT_MAX - 1`, but
  `m_nextToForward` continues with the next slot. The two agree only if
  `INT_MAX - 1` is a multiple of the number of slots, which a power of two
  greater than 2 never divides.
* `window_long_sliding`. `aggregate` merges `remainingWindows` windows with the
  pending fragment, starting after those the batch closed. The generated loop
  (`OperatorKernel.h:2168`, `2387`, `2772`) uses that number as the end of its
  index and not as a count: it stops early, or does not run, when some windows
  were closed. `PartialResultSlot.h:335` says the windows left are aggregated
  with the pending one.
* `window_stale_pending`. The kernel for sliding windows writes a pending fragment
  for every batch without a complete window. When the batch closes all open
  windows, `aggregate` leaves that fragment in the slot
  (`PartialResultSlot.h:338`), although its comment at line 303 says it is
  nullified. Merging the slot then throws "result slot aggregated but is not
  ready", and the merge lock stays locked. It happens for window sizes between a
  batch and a batch plus the slide.
* `exactly_once`. With lineage on, committing a checkpoint frees the log up to the
  newest task in it (`FileBackedCheckpointCoordinator.cpp:453`), and
  `prepareRecovery` uses a checkpoint only if the log still begins at or before it.
  A crash after the commit loses the open windows whose tuples were freed. The README
  of LightSaber announces exactly-once semantics.
* `merge_length`. With parallel merging, the complete windows of a batch go to a window
  slot whose flag is set to ready (`ResultHandler.cpp:864`) two statements before its
  length. A worker with the forward lock that comes in between reads a length of 0,
  sends nothing and releases the slot. The comment above the store says the slot is
  ready to forward.

## 4. What is proved

The theorems hold for every value of the constants that the assumptions allow: any
buffer, batch, tuple and result size, number of slots, workers, downstream queries and
tasks, any set of dispatch lengths.

| Theorem | Statement |
|---|---|
| `TaskDispatcherProofs`: `Invariance`, `TypeCorrect` | `Spec => []IInv`, `Spec => []TypeOK` |
| `BatchesReadable` | `Spec => []BatchReadable` |
| `PreviousTuplesRead` | `Spec => []PreviousTupleRead` |
| `NoOverruns` | `Spec => [](NoOverrun /\ StartFollowsTasks)` |
| `InFlightBounded` | `Spec => []InFlightBound` |
| `TaskQueueProofs`: `EnqueuesNeverWait` | `Spec => []EnqueueNeverWaits` |
| `ResultHandlerProofs`: `RingSafe` | `Spec => []RingInvariant` |
| `SlotsExclusive` | `Spec => []ExclusiveSlot` |
| `ResultsKept` | `Spec => NoResultLost`, an action property |
| `RingImplementsOrder` | `Spec => Ordered!Spec`: the slot ring refines `OrderedOutput` |
| `PipelineProofs`: `JointInvariance` | `Spec => []JointInv` |
| `DispatcherContractKept`, `HandlerContractKept` | `Spec => D!Spec`, `Spec => R!Spec` |
| `RunningBatchesIntact`, `NextSlotsOldest` | `Spec => []RunningBatchIntact`, `Spec => []NextSlotIsOldest` |
| `QueryOrdered` | the whole query refines `OrderedOutput` and loses no result |
| `LineageProofs`: `LineageInvariance`, `LineageIsExact` | `Spec => []IInv`, `Spec => []LineageExact` |

### Assumptions

* Sizes (`DispatcherAssumption`, `CapacityAssumption`, `PipelineAssumption`). Batches
  divide the buffer; a batch holds at least two tuples (`newTaskFor` ends the program
  otherwise); a tuple has at least two units (it starts with a timestamp).
* Task ids do not wrap within the bound on the stream (`TaskIdAssumption` of the
  dispatcher, `TaskIdsFit` of the pipeline). `task_id_wrap` shows that this is needed.
* No more batches than slots (`Batches <= NumberOfSlots`, `SlotsSuffice`).
  `small_ring` shows that this is needed.
* A result leaves one batch of the downstream buffer free (`SizesAssumption` of
  `Lineage`). A result that fills the buffer ends in the slot in which it begins.

### The dispatcher

None of the properties is inductive alone. That put overwrites
nothing (`BatchReadable`) needs to know where the unfreed batches lie, which
needs the start pointer in terms of the tasks freed. The code never stores that
relation: `free` recovers a distance from two indices. `StartFollowsTasks` says
what it comes to. After `k > 0` frees the start pointer is `k * BatchSize -
TupleSize`, one tuple short, because `newTaskFor` pulls the free pointer back.
The inductive invariant `IInv` adds to it that the dispatcher's pointers are
functions of the task counter (`PointersInv`), that a task's fields are
functions of its id (`TaskInv`), that each index holds an offset that belongs
there and the last `Capacity` offsets are present (`ContentInv`), and that the
cached start pointer is never ahead (`NoOverrun`). Wrap-around reduces to a few
facts on remainders in `ModArithmetic`. The bound on tasks in flight then
follows by arithmetic: it is a full buffer of batches before the first free and
one batch less afterwards, because of the tuple kept back. That is why exactly
as many slots as batches suffice, although a slot is released after its input.

`EnqueuesNeverWait` is a counting argument on top: the tasks in flight have distinct
ids in an interval of length `Batches`, a queued task is one of them, and a task that
is being enqueued is one of them that is not queued. `QueueInv` in `IInv` supplies
that relation of the queue to the tasks. The full buffer creates at most one merge
task per worker, so the queue is below its capacity whenever `try_enqueue` is called.

### The slot ring

`ExclusiveSlot` needs more than slots and workers: `compare_exchange` with the wrong
expectation would succeed on an occupied slot, so it must be known that it is never
called on one. `RingInvariant` says which slot may hold which task. All tasks that
have started lie within one lap after the slots given back (`FreedInOrder`), so two of
them never share a slot. Each such task is with exactly one worker or in exactly one
full slot (`OneHolder`), a worker that fills finds its mark (`FillingMarked`), and
locked slots belong to the one worker with the lock (`OneForwarder`). `LatchCounts`
ties `m_latch` and the loop variable of the forwarder to what each downstream query
has received; it is what makes a rejected result resume at the right query. The
refinement then maps every step of the ring to one step of `OrderedOutput`
(publishing completes, an accepted `tryDispatch` delivers, freeing frees) or to none.

The modules `ResultHandlerRing`, `ResultHandlerForwarding` and `ResultHandlerProofs`
hold the invariant with the steps outside the forwarding section, the steps inside it,
and the theorems.

### The whole query

Each component was proved under a contract about the other. That is circular, so the
composition has its own induction. `JointInv` is `D!IInv /\ R!RingInvariant /\
InFlight`, where `InFlight` says that input has been freed once per result, that a
queued task has not started and that any other task in flight has. `NextMaps` shows
for each action of `Pipeline`, from `JointInv` before the step, that it is an allowed
step of both components: `runTask` starts a task within the bound because
`InFlightBound` holds of the dispatcher, and the handler's free frees the dispatcher's
oldest task because the ring frees in order. The components' own step lemmas then
give their invariants after the step, and only `InFlight` is left to prove. Both
contracts follow, and with them every theorem about a component holds of the query
(`QueryOrdered`). `NextSlotsOldest` is what `task_id_wrap` refutes when ids wrap.

### Lineage

`LineageExact` has three parts: the log of a batch is freed only when all downstream
batches with results of it have been forwarded; a slot of the buffer is returned at
most once for a batch freed; the newest offset sent downstream is in a slot, in a
task, held, or freed. None is inductive, because a graph is merged into whatever the
slot holds. `GraphsInv` adds where graphs can be: upstream tasks are consecutive; only
the slot of the downstream batch being filled has a graph, so `mergeGraphs` merges
with an older graph of the same batch or with none; the offsets of the graphs on their
way increase from the oldest task to the slot being filled to the graph that is held;
and the results behind the graph of a task end in that task's batch. The last fact is
what makes freeing at the end of that batch safe. The slot in which results end is
found by arithmetic modulo the number of slots, which is where the size assumption
is used.

### Only model-checked

* Liveness: `DispatchReturns`, `EventuallyFreed`, `WaitingEnds`. The prover has no
  rules for fairness and `ENABLED`.
* `WindowComputation`, `HashTable`, `GeneralAggregationGraph`, `WindowBatch`, and the
  merged windows of `WindowResultHandler` and `ParallelMerge`: what their operators
  compute is defined by folds over fragments, tuples or panes, and induction over data
  is not available to the provers. The pointers of `WindowResultHandler`
  (`MergedBetweenPointers`) and its refinement of `OrderedOutput` have no proof
  either: which slot becomes ready depends on what merging leaves in it.
* `Checkpoint` and `PersistentBuffer`: no inductive invariant has been worked out;
  `Checkpoint` also merges fragments by those recursive operators.
* The queues, the join dispatcher, the NUMA buffers and the benchmark programs.

## 5. What is abstracted or not modelled

* **Memory model.** The pointers and slots are C++ atomics, many of them accessed
  with `memory_order_relaxed`. The models interleave sequentially consistent
  steps. This is what the x86 build gives for the accesses in question: loads
  and stores of the pointers keep their order, reservations are locked
  instructions, and batches are handed over through the task queue. Reordering
  by the compiler or on other processors is not covered.
* **Composition.** The models of the result handlers name a result by its task, or by
  the fragments in it. The kernels that compute fragments are modelled on their own,
  and composed with merging in `WindowComputation`. A downstream query accepts or
  rejects at will; a pipeline of two queries is composed only in `Lineage`. The queue
  is a bounded set with atomic operations in `TaskDispatcher` and `Pipeline`; its
  layers are modelled separately.
* **Timestamps, latency marks, measurements** are left out, except where a window is
  defined by time. The read of the previous batch's last tuple is kept because it
  constrains `free`.
* **Lengths that never fit.** A `dispatch` longer than the buffer less one tuple waits
  for ever after the first free. The drivers' bundle sizes stay below it.
* **Widths.** The checkpoint stores 64-bit offsets in a vector of `int`
  (`FileBackedCheckpointCoordinator.cpp:861`). `Checkpoint` keeps the conversion
  (`toInt`, with a small width), and `PurgedWhenForwarded` is stated for logs whose
  offsets fit: from 2^31 on the stored one is negative and any result purges the
  checkpoint. Other widths do
  not matter to what is stated, or wrap in the models (task ids, queue indices).
* **Not modelled in modelled components:** `createSymmetricTask` and joins over time;
  the second input of a lineage graph, whose pointer `LineageGraph.cpp:209` applies to
  the first buffer; checkpoints of stateless queries and joins; recovery of the NUMA
  buffer; `queryInterm` and the functions that fill in empty windows (a kernel that
  calls one ends the behaviour, and `WindowsExact` says when none does); a merge task
  that is given back to its pool and enqueued all the same
  (`TaskDispatcher.cpp:608`), which needs the pools as state.
* **Not modelled at all:** compression, the RDMA library, file-system wrappers,
  monitors, object pools, run-time compilation, application set-up, hardware
  samplers, `MCRingbuffer.h` (declarations only), functions of the C++ programs that
  nothing calls, and the Java, Kafka Streams and Flink programs. `PROJECT.json` gives
  the reason for each.
