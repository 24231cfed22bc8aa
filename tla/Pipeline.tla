------------------------------ MODULE Pipeline ------------------------------
(***************************************************************************)
(* One query of LightSaber end to end: the dispatching thread and its      *)
(* circular buffer (TaskDispatcher), the shared task queue, the worker     *)
(* loop (processor/TaskProcessor.cpp, tasks/Task.cpp) and the result       *)
(* handler (ResultHandler).  The contracts the two components assume of    *)
(* each other are not assumed here: they are properties.                   *)
(***************************************************************************)
EXTENDS Integers, Sequences, FiniteSets

CONSTANTS
    Capacity, CopyDataOnInsert, BatchSize, TupleSize, Lengths, QueueCapacity,
    IntMax, MaxOffset,
    NumberOfSlots, Workers, NoWorker, NumDownstream, EmptyResults

VARIABLES
    startP, endP, temp, wraps, mem, tasksProcessed,
    dpc, length, accumulated, thisBatchStart, nextBatchEnd, nextTask, pending,
    queue, mergeTasks, tasks,
    slot, result, latch, nextToForward, forwardLock, maxTaskId, pc, task,
    oldVal, qry, started, delivered, freed

NumWorkers == Cardinality(Workers)
Batches == Capacity \div BatchSize
MaxTask == MaxOffset \div BatchSize

\* The sizes, as in TaskDispatcher and ResultHandler.
ASSUME PipelineAssumption ==
    /\ Capacity \in Nat \ {0}
    /\ CopyDataOnInsert \in BOOLEAN
    /\ BatchSize \in Nat
    /\ TupleSize \in Nat
    /\ TupleSize >= 2
    /\ BatchSize >= 2 * TupleSize
    /\ \E n \in 1 .. Capacity : Capacity = n * BatchSize
    /\ Lengths \subseteq Nat \ {0}
    /\ QueueCapacity \in Nat
    /\ IntMax \in Nat
    /\ MaxOffset \in Nat
    /\ NumberOfSlots \in Nat \ {0}
    /\ NumWorkers \in Nat
    /\ NoWorker \notin Workers
    /\ NumDownstream \in Nat

\* The two components.  TaskDispatcherProofs and ResultHandlerProofs extend
\* TaskDispatcher and ResultHandler: their lemmas come with the actions.
D == INSTANCE TaskDispatcherProofs
R == INSTANCE ResultHandlerProofs

inputVars == <<startP, endP, temp, wraps, mem, tasksProcessed, dpc, length,
               accumulated, thisBatchStart, nextBatchEnd, nextTask, pending,
               queue, mergeTasks, tasks>>
outputVars == <<slot, result, latch, nextToForward, forwardLock, maxTaskId, pc,
                task, oldVal, qry, started, delivered, freed>>
vars == <<inputVars, outputVars>>

Init == D!Init /\ R!Init

----------------------------------------------------------------------------
(* The worker loop: dequeue a task and run it.                             *)

\* Task::run of a processing task; the operator's computation is not modelled,
\* its result goes to the result handler.
runTask(w) ==
    \E t \in queue : D!take(t) /\ R!runProcess(w, "PROCESS", t.id)

runMergeTask(w) == D!takeMerge /\ R!startMergeForward(w)

\* The result handler frees the input buffer with the free pointer stored in the
\* slot.
freeInput(w) ==
    /\ R!freeInput(w)
    /\ \E t \in tasks :
          /\ t.id = result[nextToForward]
          /\ D!free(t.free)
          /\ tasks' = tasks \ {t}
    /\ UNCHANGED <<dpc, length, accumulated, thisBatchStart, nextBatchEnd,
                   nextTask, pending, queue, mergeTasks>>

handleResult(w) ==
    /\ \/ R!reserveSlot(w) \/ R!fillSlot(w) \/ R!publishSlot(w)
       \/ R!tryLock(w) \/ R!checkReady(w) \/ R!checkEmpty(w)
       \/ R!forwardAccepted(w) \/ R!forwardRejected(w)
       \/ R!releaseSlot(w) \/ R!unlock(w)
    /\ UNCHANGED inputVars

Worker(w) ==
    runTask(w) \/ runMergeTask(w) \/ freeInput(w) \/ handleResult(w)

DispatcherStep == D!Dispatcher /\ UNCHANGED outputVars

\* No more input within the bound, no task queued, every worker polling.
quiescent ==
    /\ dpc = "idle"
    /\ \A len \in Lengths : endP + len > MaxOffset
    /\ queue = {} /\ mergeTasks = 0
    /\ \A w \in Workers : pc[w] = "idle"
    /\ UNCHANGED vars

Next ==
    \/ DispatcherStep
    \/ \E w \in Workers : Worker(w)
    \/ quiescent

Spec == Init /\ [][Next]_vars

----------------------------------------------------------------------------
(* Fairness: threads keep running; the task queue is first in first out    *)
(* for its one producer, so a queued processing task is not passed over    *)
(* for ever; a downstream query does not stay full for ever.               *)

Fairness ==
    /\ WF_vars(DispatcherStep /\ dpc # "idle")
    /\ \A w \in Workers : WF_vars(Worker(w))
    /\ SF_vars(\E w \in Workers : runTask(w))
    /\ \A w \in Workers : SF_vars(R!forwardAccepted(w) /\ UNCHANGED inputVars)

FairSpec == Spec /\ Fairness

----------------------------------------------------------------------------
(* Properties.                                                             *)

\* The workers and the result handler free the input as the dispatcher assumes:
\* one task at a time, in task order, and only tasks that were dequeued.
DispatcherContract == D!Spec

\* The dispatcher never has more tasks in flight than the result handler's ring
\* is built for.
HandlerContract == R!Spec

\* The data a running task reads, up to the moment its input is freed, is its own
\* batch: no interleaving of puts, workers and frees overwrites it.
RunningBatchIntact == D!BatchReadable

\* "The results are stored in-order based on their task id and forwarded": unless
\* a worker is between freeing input and releasing its slot, the slot the
\* forwarder looks at next is the slot of the oldest task that is not freed.
NextSlotIsOldest ==
    (\A w \in Workers : pc[w] # "release") =>
        \A t \in tasks : (\A u \in tasks : t.b <= u.b) =>
            R!idx(t.id) = nextToForward

\* A dispatch call that finds the buffer full returns in the end: even when the
\* last forwarder misses a result that is published just before it unlocks, the
\* MERGE_FORWARD tasks of tryCreateNonProcessingTasks pick the result up.
DispatchReturns == (dpc = "put") ~> (dpc = "idle")
============================================================================
