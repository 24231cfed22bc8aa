--------------------------- MODULE TaskDispatcher ---------------------------
(***************************************************************************)
(* dispatcher/TaskDispatcher.cpp of LightSaber over its input buffer: the  *)
(* dispatching thread puts data, cuts the stream into batches of           *)
(* m_batchSize and hands one task per batch to the worker queue.           *)
(*                                                                         *)
(* The workers and the result handler are seen through their contract: a   *)
(* worker takes any queued task, and the input of the processing tasks is  *)
(* freed one task at a time in task order.  Pipeline.tla discharges it.    *)
(***************************************************************************)
EXTENDS CircularQueryBuffer, FiniteSets

CONSTANTS
    BatchSize,       \* m_batchSize
    TupleSize,       \* m_schema->getTupleSize()
    Lengths,         \* the lengths dispatch is called with
    NumWorkers,      \* SystemConf::WORKER_THREADS
    QueueCapacity,   \* m_parent.getTaskQueueCapacity()
    IntMax,          \* INT_MAX, 2^31 - 1 in the code: where task ids wrap
    MaxOffset        \* bound: dispatch is not called beyond this offset

\* A batch holds two tuples at least (newTaskFor exits otherwise), a tuple has
\* a timestamp, and sizes are powers of two: batches divide the buffer.
ASSUME DispatcherAssumption ==
    /\ BatchSize \in Nat
    /\ TupleSize \in Nat
    /\ TupleSize >= 2
    /\ BatchSize >= 2 * TupleSize
    /\ \E n \in 1 .. Capacity : Capacity = n * BatchSize
    /\ Lengths \subseteq Nat \ {0}
    /\ NumWorkers \in Nat
    /\ QueueCapacity \in Nat
    /\ IntMax \in Nat
    /\ MaxOffset \in Nat

\* Within the bound the task ids do not wrap.
ASSUME TaskIdAssumption == MaxOffset < (IntMax - 2) * BatchSize

VARIABLES
    dpc,              \* where the dispatching thread is
    length,           \* the argument of the current dispatch call
    accumulated,      \* m_accumulated
    thisBatchStart,   \* m_thisBatchStartPointer
    nextBatchEnd,     \* m_nextBatchEndPointer
    nextTask,         \* m_nextTask
    pending,          \* the task newTaskFor has built and is enqueueing, or none
    queue,            \* m_workerQueue: the processing tasks in it
    mergeTasks,       \* m_workerQueue: the MERGE_FORWARD tasks in it
    tasks             \* the processing tasks whose input is not freed yet

dispatcherVars == <<dpc, length, accumulated, thisBatchStart, nextBatchEnd,
                    nextTask, pending, queue, mergeTasks, tasks>>
vars == <<bufferVars, dispatcherVars>>

\* id; p, q: buffer pointers; free: free pointer; b, d: stream pointers;
\* prev: the tuple read for the end timestamp of the previous batch.
Task == [id : Nat, p : Nat, q : Nat, free : Int, b : Nat, d : Nat, prev : Int]

Init ==
    /\ BufferInit
    /\ dpc = "idle"
    /\ length = 0
    /\ accumulated = 0
    /\ thisBatchStart = 0
    /\ nextBatchEnd = BatchSize
    /\ nextTask = 1
    /\ pending = {}
    /\ queue = {}
    /\ mergeTasks = 0
    /\ tasks = {}

queueSize == Cardinality(queue) + mergeTasks

----------------------------------------------------------------------------
(* dispatch: put until it succeeds, then assemble.                         *)

dispatch(len) ==
    /\ dpc = "idle"
    /\ endP + len <= MaxOffset
    /\ dpc' = "put"
    /\ length' = len
    /\ UNCHANGED <<bufferVars, accumulated, thisBatchStart, nextBatchEnd,
                   nextTask, pending, queue, mergeTasks, tasks>>

\* Mutant: merge tasks are created whatever the number of queued tasks.
tryCreateUnbounded ==
    mergeTasks' = IF queueSize < QueueCapacity THEN mergeTasks + 1
                                               ELSE mergeTasks

\* Mutant: a full buffer creates no merge task.
tryCreateNothing == mergeTasks' = mergeTasks

\* tryCreateNonProcessingTasks: the MERGE_FORWARD task (checkpoints are off).
tryCreateNonProcessingTasks ==
    mergeTasks' = IF queueSize < QueueCapacity /\ queueSize < NumWorkers
                  THEN mergeTasks + 1 ELSE mergeTasks

dispatchBlocked ==
    /\ dpc = "put"
    /\ putReject(length)
    /\ tryCreateNonProcessingTasks
    /\ UNCHANGED <<dpc, length, accumulated, thisBatchStart, nextBatchEnd,
                   nextTask, pending, queue, tasks>>

dispatchAdmitted ==
    /\ dpc = "put"
    /\ putAdmit(length)
    /\ dpc' = "copy"
    /\ UNCHANGED <<length, accumulated, thisBatchStart, nextBatchEnd,
                   nextTask, pending, queue, mergeTasks, tasks>>

\* The copy, and the first statement of assemble.
dispatchCopy ==
    /\ dpc = "copy"
    /\ putCopy(length)
    /\ dpc' = "assemble"
    /\ accumulated' = accumulated + length
    /\ UNCHANGED <<length, thisBatchStart, nextBatchEnd, nextTask, pending,
                   queue, mergeTasks, tasks>>

----------------------------------------------------------------------------
(* assemble and newTaskFor.                                                *)

\* The last index of the batch that ends at _d (assemble's m_f).
lastIndex(_d) ==
    (IF normalise(_d) = 0 THEN Capacity ELSE normalise(_d)) - 1

\* Mutant: the first tuple of the previous batch instead of its last.
prevEndIndexOfStart(p) == IF p # 0 THEN p - BatchSize ELSE Capacity - BatchSize

\* Where newTaskFor finds the last tuple of the previous batch.
prevEndIndex(p) == IF p # 0 THEN p - TupleSize ELSE Capacity - TupleSize

\* Mutant: the free pointer keeps no tuple back.
newTaskForKeepsNothing ==
    LET p == normalise(thisBatchStart)
        q == normalise(nextBatchEnd)
    IN [id   |-> nextTask,
        p    |-> p,
        q    |-> IF q <= p THEN q + Capacity ELSE q,
        free |-> lastIndex(nextBatchEnd),
        b    |-> thisBatchStart,
        d    |-> nextBatchEnd,
        prev |-> IF thisBatchStart = 0 THEN Unwritten ELSE mem[prevEndIndex(p)]]

\* The task of the batch [thisBatchStart, nextBatchEnd), for a range-based
\* window without replay: m_step is -1 for the first batch only.
newTaskFor ==
    LET p == normalise(thisBatchStart)
        q == normalise(nextBatchEnd)
    IN [id   |-> nextTask,
        p    |-> p,
        q    |-> IF q <= p THEN q + Capacity ELSE q,
        free |-> lastIndex(nextBatchEnd) - TupleSize,
        b    |-> thisBatchStart,
        d    |-> nextBatchEnd,
        prev |-> IF thisBatchStart = 0 THEN Unwritten ELSE mem[prevEndIndex(p)]]

\* getTaskNumber: fetch_add, then back to 1 at INT_MAX.
getTaskNumber ==
    nextTask' = IF nextTask + 1 = IntMax THEN 1 ELSE nextTask + 1

\* newTaskFor up to its enqueue loop; a negative free pointer ends the program.
assembleTask ==
    /\ dpc = "assemble"
    /\ accumulated >= nextBatchEnd
    /\ newTaskFor.free >= 0
    /\ pending' = {newTaskFor}
    /\ tasks' = tasks \cup {newTaskFor}
    /\ getTaskNumber
    /\ dpc' = "enqueue"
    /\ UNCHANGED <<bufferVars, length, accumulated, thisBatchStart,
                   nextBatchEnd, queue, mergeTasks>>

\* try_enqueue succeeds, newTaskFor returns and assemble advances its pointers.
enqueueTask ==
    /\ dpc = "enqueue"
    /\ queueSize < QueueCapacity
    /\ queue' = queue \cup pending
    /\ pending' = {}
    /\ thisBatchStart' = thisBatchStart + BatchSize
    /\ nextBatchEnd' = nextBatchEnd + BatchSize
    /\ dpc' = "assemble"
    /\ UNCHANGED <<bufferVars, length, accumulated, nextTask, mergeTasks, tasks>>

assembleDone ==
    /\ dpc = "assemble"
    /\ accumulated < nextBatchEnd
    /\ dpc' = "idle"
    /\ UNCHANGED <<bufferVars, length, accumulated, thisBatchStart,
                   nextBatchEnd, nextTask, pending, queue, mergeTasks, tasks>>

----------------------------------------------------------------------------
(* The workers, by contract.                                               *)

\* A worker dequeues a processing task.
take(t) ==
    /\ t \in queue
    /\ queue' = queue \ {t}
    /\ UNCHANGED <<bufferVars, dpc, length, accumulated, thisBatchStart,
                   nextBatchEnd, nextTask, pending, mergeTasks, tasks>>

\* A worker dequeues a MERGE_FORWARD task.
takeMerge ==
    /\ mergeTasks > 0
    /\ mergeTasks' = mergeTasks - 1
    /\ UNCHANGED <<bufferVars, dpc, length, accumulated, thisBatchStart,
                   nextBatchEnd, nextTask, pending, queue, tasks>>

\* The result of t has been forwarded: its input is freed.
freeInput(t) ==
    /\ t \in tasks \ (queue \cup pending)
    /\ t.id = tasksProcessed + 1
    /\ free(t.free)
    /\ tasks' = tasks \ {t}
    /\ UNCHANGED <<dpc, length, accumulated, thisBatchStart, nextBatchEnd,
                   nextTask, pending, queue, mergeTasks>>

\* All that was dispatched within the bound has been processed.
quiescent ==
    /\ dpc = "idle"
    /\ \A len \in Lengths : endP + len > MaxOffset
    /\ tasks = {}
    /\ mergeTasks = 0
    /\ UNCHANGED vars

Dispatcher ==
    \/ \E len \in Lengths : dispatch(len)
    \/ dispatchBlocked
    \/ dispatchAdmitted
    \/ dispatchCopy
    \/ assembleTask
    \/ enqueueTask
    \/ assembleDone

Next ==
    \/ Dispatcher
    \/ \E t \in queue : take(t)
    \/ takeMerge
    \/ \E t \in tasks : freeInput(t)
    \/ quiescent

Spec == Init /\ [][Next]_vars

----------------------------------------------------------------------------
(* Properties.                                                             *)

Batches == Capacity \div BatchSize

\* Type invariant.
TypeOK ==
    /\ startP \in Nat /\ endP \in Nat /\ temp \in Nat /\ wraps \in Nat
    /\ mem \in [Index -> Int]
    /\ tasksProcessed \in Nat
    /\ dpc \in {"idle", "put", "copy", "assemble", "enqueue"}
    /\ length \in Lengths \cup {0}
    /\ accumulated \in Nat /\ thisBatchStart \in Nat /\ nextBatchEnd \in Nat
    /\ nextTask \in Nat
    /\ pending \subseteq Task /\ queue \subseteq Task /\ tasks \subseteq Task
    /\ mergeTasks \in Nat

\* The batch of every task that is not freed is one contiguous piece of the
\* buffer (operators walk it from p to q without wrapping) and holds exactly the
\* stream offsets [b, d): put never overwrites data a worker may still read.
\* When data is not copied after the first lap, it holds that lap's data.
BatchReadable ==
    \A t \in tasks :
        /\ t.q - t.p = BatchSize
        /\ t.q <= Capacity
        /\ \A k \in 0 .. BatchSize - 1 :
              /\ mem[t.p + k] # Unwritten
              /\ normalise(mem[t.p + k]) = normalise(t.b + k)
              /\ CopyDataOnInsert => mem[t.p + k] = t.b + k

\* The tuple newTaskFor reads for the previous batch's end timestamp is the last
\* tuple of that batch, although its task may be done and its batch freed: the
\* free pointer keeps one tuple back.
PreviousTupleRead ==
    CopyDataOnInsert =>
        \A t \in tasks : t.prev = IF t.id = 1 THEN Unwritten
                                  ELSE t.b - TupleSize

\* The free pointers give back whole batches, in terms of the stream: after k
\* tasks the start pointer is one tuple short of the end of batch k, so the
\* "offset <= index" case of free never misreads the distance.
StartFollowsTasks ==
    startP = IF tasksProcessed = 0 THEN 0
             ELSE tasksProcessed * BatchSize - TupleSize

\* The unfreed part of the stream fits the buffer, with the space reserved by a
\* put that is still copying: a stale cached start pointer only rejects more.
NoOverrun ==
    /\ temp <= startP
    /\ (endP + (IF dpc = "copy" THEN length ELSE 0)) - startP <= Capacity

\* How far the dispatcher runs ahead of the frees: a full buffer of batches at
\* the start, one batch less from the first free on.  The result handler's slot
\* ring relies on it.
InFlightBound ==
    \/ nextTask - 1 <= Batches
    \/ nextTask - 1 <= tasksProcessed + Batches - 1

\* A full buffer creates one merge task per worker at most, and the loop around
\* try_enqueue in newTaskFor never waits when the task queue is sized for the
\* batches of the buffer and those merge tasks.
EnqueueNeverWaits ==
    /\ mergeTasks <= NumWorkers
    /\ (dpc = "enqueue" /\ QueueCapacity >= Batches + NumWorkers)
          => queueSize < QueueCapacity

----------------------------------------------------------------------------
(* The inductive invariant of the proofs in TaskDispatcherProofs.          *)

\* The dispatcher's pointers and counters in terms of the number of tasks.
PointersInv ==
    /\ accumulated = endP
    /\ endP <= MaxOffset
    /\ dpc \in {"put", "copy"} => length \in Lengths /\ endP + length <= MaxOffset
    /\ nextTask >= (IF dpc = "enqueue" THEN 2 ELSE 1)
    /\ thisBatchStart =
          (IF dpc = "enqueue" THEN nextTask - 2 ELSE nextTask - 1) * BatchSize
    /\ nextBatchEnd = thisBatchStart + BatchSize
    /\ (nextTask - 1) * BatchSize <= endP
    /\ tasksProcessed < nextTask

\* Everything about a task follows from its id.
TaskInv ==
    /\ \A t \in tasks :
          /\ tasksProcessed < t.id /\ t.id < nextTask
          /\ t.b = (t.id - 1) * BatchSize
          /\ t.p = normalise(t.b)
          /\ t.q = t.p + BatchSize
          /\ t.q <= Capacity
          /\ t.free = t.p + BatchSize - 1 - TupleSize
    /\ \A t, u \in tasks : t.id = u.id => t = u

\* What the buffer holds: each index some offset that belongs there, and the
\* last Capacity offsets when data is copied on every insert.
ContentInv ==
    /\ wraps > 0 => endP >= Capacity
    /\ \A i \in Index : /\ mem[i] = Unwritten \/ (mem[i] \in Nat /\ normalise(mem[i]) = i)
                        /\ i < endP => mem[i] # Unwritten
    /\ CopyDataOnInsert =>
          \A o \in 0 .. endP - 1 : endP - Capacity <= o => mem[normalise(o)] = o

\* The tasks that are not freed are consecutive; those that no worker has taken are
\* queued, or the youngest one is still being enqueued.
QueueInv ==
    /\ queue \subseteq tasks
    /\ pending \subseteq tasks \ queue
    /\ \A t \in pending : dpc = "enqueue" /\ t.id = nextTask - 1
    /\ dpc = "enqueue" => pending # {}
    /\ \A id \in tasksProcessed + 1 .. nextTask - 1 : \E t \in tasks : t.id = id

\* The pointers of dispatch, put and free, the tasks in flight and the contents
\* of the buffer belong together: every one follows from the number of tasks.
IInv ==
    /\ TypeOK
    /\ PointersInv
    /\ TaskInv
    /\ QueueInv
    /\ ContentInv
    /\ StartFollowsTasks
    /\ NoOverrun
    /\ PreviousTupleRead
============================================================================
