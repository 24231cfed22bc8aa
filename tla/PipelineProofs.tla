--------------------------- MODULE PipelineProofs ---------------------------
(***************************************************************************)
(* The dispatcher and the result handler discharge each other's contract,  *)
(* for every capacity, batch size, number of slots, workers, downstream    *)
(* queries and dispatch lengths: what is proved of each alone holds of the *)
(* whole query.                                                            *)
(***************************************************************************)
EXTENDS Pipeline, ModArithmetic

\* Two conditions on the configuration.  Fewer tasks than INT_MAX: a wrapped task id
\* breaks the order of the slots (run task_id_wrap).  And no more batches in the
\* input buffer than slots (run small_ring).
TaskIdsFit == MaxOffset < (IntMax - 2) * BatchSize
SlotsSuffice == Batches <= NumberOfSlots

\* How the tasks of the dispatcher and the results of the handler correspond: input
\* is freed once per result; a task that is queued or being enqueued has not started,
\* any other task that is not freed has.
InFlight ==
    /\ tasksProcessed = Len(freed)
    /\ \A t \in queue \cup pending : t.id \notin started
    /\ \A t \in tasks \ (queue \cup pending) : t.id \in started
    /\ \A id \in started : id < nextTask

\* The inductive invariant of the pipeline.
JointInv == D!IInv /\ R!RingInvariant /\ InFlight

----------------------------------------------------------------------------
(* The components.                                                         *)

\* The sizes derived from the configuration.
LEMMA Derived ==
    /\ Batches \in Nat \ {0}
    /\ MaxTask \in Nat
    /\ \A id \in Nat : id * BatchSize <= MaxOffset => id <= MaxTask
<1>1. PICK n \in 1 .. Capacity : Capacity = n * BatchSize
  BY PipelineAssumption
<1>2. n \in Nat \ {0} /\ BatchSize \in Nat \ {0} /\ MaxOffset \in Nat
  BY <1>1, PipelineAssumption
<1> QED BY <1>1, <1>2, DivMultiple, DivLargest DEF Batches, MaxTask

\* The dispatcher's invariant, for the sizes of the pipeline.
LEMMA DispatcherInv ==
    ASSUME TaskIdsFit
    PROVE  /\ D!Init => D!IInv
           /\ D!IInv /\ [D!Next]_D!vars => D!IInv'
           /\ D!IInv => D!BatchReadable /\ D!InFlightBound
BY PipelineAssumption, D!InitIInv, D!NextIInv, D!IInvReadable, D!IInvInFlight
   DEF TaskIdsFit

\* The handler's invariant, for the sizes of the pipeline.
LEMMA HandlerInv ==
    ASSUME SlotsSuffice
    PROVE  /\ R!Init => R!RingInvariant
           /\ R!RingInvariant /\ [R!Next]_R!vars => R!RingInvariant'
BY PipelineAssumption, Derived, R!InitRing, R!StepRing DEF SlotsSuffice

\* The result whose input a worker is about to free is the oldest one.
LEMMA FreesOldest ==
    ASSUME JointInv, NEW w \in Workers, pc[w] = "free"
    PROVE  /\ result[nextToForward] = tasksProcessed + 1
           /\ tasksProcessed + 1 \in started
<1>1. R!Sends(w)
  BY DEF R!Sends
<1>2. result[nextToForward] = R!Turn /\ R!Turn \in started
  BY <1>1, PipelineAssumption, Derived, R!SendsTurn DEF JointInv
<1> QED BY <1>2 DEF R!Turn, JointInv, InFlight

----------------------------------------------------------------------------
(* Every step of the pipeline is a step of each component, or leaves it    *)
(* alone, and keeps the two in correspondence.                             *)

\* What a step of the pipeline does to the components.
ComponentStep == [D!Next]_D!vars /\ [R!Next]_R!vars

\* The dispatching thread.
LEMMA DispatcherStepMaps ==
    ASSUME TaskIdsFit, JointInv, DispatcherStep
    PROVE  ComponentStep /\ InFlight'
<1>1. D!Next /\ UNCHANGED R!vars
  BY DEF DispatcherStep, D!Next, outputVars, R!vars
<1>2. D!IInv'
  BY <1>1, DispatcherInv DEF JointInv
<1>3. UNCHANGED <<started, freed>>
  BY DEF DispatcherStep, outputVars
<1>4. ASSUME D!assembleTask PROVE InFlight'
  <2>1. /\ tasks' = tasks \cup {D!newTaskFor} /\ pending' = {D!newTaskFor}
        /\ UNCHANGED <<queue, tasksProcessed>> /\ dpc = "assemble" /\ dpc' = "enqueue"
        /\ nextTask' \in {1, nextTask + 1}
    BY <1>4 DEF D!assembleTask, D!bufferVars, D!getTaskNumber
  <2>2. nextTask \in Nat /\ nextTask' # 1 /\ pending = {} /\ queue \subseteq tasks
    BY <1>2, <2>1 DEF JointInv, D!IInv, D!TypeOK, D!PointersInv, D!QueueInv
  <2>3. D!newTaskFor.id = nextTask
    BY DEF D!newTaskFor
  <2>4. nextTask' = nextTask + 1 /\ \A id \in started : id < nextTask
    BY <2>1, <2>2 DEF JointInv, InFlight
  <2>5. started \subseteq Nat
    BY Derived DEF JointInv, R!RingInvariant, R!TypeOK, R!TaskIds
  <2> QED BY <1>3, <2>1, <2>2, <2>3, <2>4, <2>5 DEF JointInv, InFlight
<1>5. ASSUME ~D!assembleTask PROVE InFlight'
  <2>1. /\ queue' \cup pending' = queue \cup pending
        /\ UNCHANGED <<tasks, tasksProcessed, nextTask>>
    BY <1>5 DEF DispatcherStep, D!Dispatcher, D!dispatch, D!dispatchBlocked, D!putReject,
         D!dispatchAdmitted, D!putAdmit, D!dispatchCopy, D!putCopy, D!enqueueTask,
         D!assembleDone, D!bufferVars
  <2> QED BY <1>3, <2>1 DEF JointInv, InFlight
<1> QED BY <1>1, <1>4, <1>5 DEF ComponentStep

\* A worker runs a processing task: the dispatcher's bound on the tasks in flight is
\* what the result handler assumes of a task it is handed.
LEMMA RunTaskMaps ==
    ASSUME TaskIdsFit, JointInv, NEW w \in Workers, runTask(w)
    PROVE  ComponentStep /\ InFlight'
<1>1. PICK t \in queue : D!take(t) /\ R!runProcess(w, "PROCESS", t.id)
  BY DEF runTask
<1>2. D!Next
  BY <1>1 DEF D!Next
<1>3. /\ t \in tasks /\ t.id \in Nat \ {0} /\ t.id < nextTask /\ nextTask \in Nat
      /\ tasksProcessed \in Nat /\ (nextTask - 1) * BatchSize <= MaxOffset
  <2>1. tasks \subseteq D!Task /\ queue \subseteq tasks /\ tasksProcessed \in Nat /\ nextTask \in Nat
        /\ endP \in Nat
    BY DEF JointInv, D!IInv, D!TypeOK, D!QueueInv
  <2>2. \A u \in tasks : tasksProcessed < u.id /\ u.id < nextTask
    BY DEF JointInv, D!IInv, D!TaskInv
  <2>3. (nextTask - 1) * BatchSize <= endP /\ endP <= MaxOffset
    BY DEF JointInv, D!IInv, D!PointersInv
  <2>4. (nextTask - 1) * BatchSize \in Int
    BY <2>1, PipelineAssumption
  <2> QED BY <1>1, <2>1, <2>2, <2>3, <2>4, PipelineAssumption DEF D!Task
<1>4. t.id \in R!TaskIds
  <2>1. nextTask - 1 <= MaxTask
    BY <1>3, Derived
  <2> QED BY <1>3, <2>1, Derived DEF R!TaskIds
<1>5. R!created(t.id)
  <2>1. D!InFlightBound /\ D!Batches = Batches
    BY DispatcherInv DEF JointInv, D!Batches, Batches
  <2> QED BY <1>3, <2>1, Derived DEF D!InFlightBound, R!created, JointInv, InFlight
<1>6. t.id \notin started
  BY <1>1 DEF JointInv, InFlight
<1>7. R!Next
  BY <1>1, <1>4, <1>5, <1>6 DEF R!Next, R!startProcess
<1>8. /\ queue' = queue \ {t} /\ started' = started \cup {t.id}
      /\ UNCHANGED <<pending, tasks, tasksProcessed, nextTask, freed>>
  BY <1>1 DEF D!take, D!bufferVars, R!runProcess
<1>9. InFlight'
  <2>1. \A u \in tasks : u.id = t.id => u = t
    BY <1>3 DEF JointInv, D!IInv, D!TaskInv
  <2>2. queue \subseteq tasks /\ pending \subseteq tasks \ queue
    BY DEF JointInv, D!IInv, D!QueueInv
  <2> QED BY <1>1, <1>3, <1>8, <2>1, <2>2 DEF JointInv, InFlight
<1> QED BY <1>2, <1>7, <1>9 DEF ComponentStep

\* A worker runs a MERGE_FORWARD task.
LEMMA RunMergeTaskMaps ==
    ASSUME JointInv, NEW w \in Workers, runMergeTask(w)
    PROVE  ComponentStep /\ InFlight'
<1>1. D!Next /\ R!Next
  BY DEF runMergeTask, D!Next, R!Next
<1>2. UNCHANGED <<queue, pending, tasks, tasksProcessed, nextTask, started, freed>>
  BY DEF runMergeTask, D!takeMerge, D!bufferVars, R!startMergeForward
<1> QED BY <1>1, <1>2 DEF ComponentStep, JointInv, InFlight

\* The holder of the forward lock frees the input of a result: as the dispatcher
\* assumes, it is the oldest task, and a task a worker has taken.
LEMMA FreeInputMaps ==
    ASSUME JointInv, NEW w \in Workers, freeInput(w)
    PROVE  ComponentStep /\ InFlight'
<1>1. PICK t \in tasks : /\ t.id = result[nextToForward]
                         /\ D!free(t.free)
                         /\ tasks' = tasks \ {t}
  BY DEF freeInput
<1>2. R!freeInput(w) /\ pc[w] = "free"
  BY DEF freeInput, R!freeInput
<1>3. t.id = tasksProcessed + 1 /\ t.id \in started
  BY <1>1, <1>2, FreesOldest
<1>4. t \notin queue \cup pending
  BY <1>3 DEF JointInv, InFlight
<1>5. D!freeInput(t)
  BY <1>1, <1>3, <1>4 DEF freeInput, D!freeInput
<1>6. D!Next /\ R!Next
  BY <1>2, <1>5 DEF D!Next, R!Next, R!Work
<1>7. /\ tasksProcessed' = tasksProcessed + 1
      /\ freed' = Append(freed, result[nextToForward])
      /\ UNCHANGED <<queue, pending, nextTask, started>>
  BY <1>1, <1>2 DEF freeInput, D!free, R!freeInput
<1>8. Len(freed') = Len(freed) + 1
  <2>1. freed \in Seq(0 .. MaxTask)
    BY DEF JointInv, R!RingInvariant, R!TypeOK
  <2> QED BY <1>7, <2>1
<1> QED BY <1>1, <1>6, <1>7, <1>8 DEF ComponentStep, JointInv, InFlight

\* The other steps of a worker in the result handler.
LEMMA HandleResultMaps ==
    ASSUME JointInv, NEW w \in Workers, handleResult(w)
    PROVE  ComponentStep /\ InFlight'
<1>1. R!Next
  BY DEF handleResult, R!Next, R!Work
<1>2. UNCHANGED inputVars
  BY DEF handleResult
<1>3. UNCHANGED <<started, freed>>
  BY DEF handleResult, R!reserveSlot, R!fillSlot, R!publishSlot, R!tryLock, R!checkReady,
         R!checkEmpty, R!forwardAccepted, R!forwardRejected, R!releaseSlot, R!unlock
<1>4. UNCHANGED D!vars
  BY <1>2 DEF inputVars, D!vars, D!bufferVars, D!dispatcherVars
<1>5. InFlight'
  BY <1>2, <1>3 DEF inputVars, JointInv, InFlight
<1> QED BY <1>1, <1>4, <1>5 DEF ComponentStep

\* Every step of the pipeline.
LEMMA NextMaps ==
    ASSUME TaskIdsFit, JointInv, [Next]_vars
    PROVE  ComponentStep /\ InFlight'
<1>1. CASE DispatcherStep
  BY <1>1, DispatcherStepMaps
<1>2. ASSUME NEW w \in Workers, Worker(w) PROVE ComponentStep /\ InFlight'
  BY <1>2, RunTaskMaps, RunMergeTaskMaps, FreeInputMaps, HandleResultMaps DEF Worker
<1>3. CASE UNCHANGED vars
  <2>1. UNCHANGED D!vars /\ UNCHANGED R!vars
    BY <1>3 DEF vars, inputVars, outputVars, D!vars, D!bufferVars, D!dispatcherVars, R!vars
  <2>2. InFlight'
    BY <1>3 DEF vars, inputVars, outputVars, JointInv, InFlight
  <2> QED BY <2>1, <2>2 DEF ComponentStep
<1> QED BY <1>1, <1>2, <1>3 DEF Next, quiescent

----------------------------------------------------------------------------
(* The theorems.                                                           *)

\* The joint invariant is inductive.
LEMMA JointStep ==
    ASSUME TaskIdsFit, SlotsSuffice
    PROVE  /\ Init => JointInv
           /\ JointInv /\ [Next]_vars => JointInv'
<1>1. ASSUME Init PROVE JointInv
  <2>1. D!IInv /\ R!RingInvariant
    BY <1>1, DispatcherInv, HandlerInv DEF Init
  <2>2. InFlight
    BY <1>1 DEF Init, D!Init, D!BufferInit, R!Init, InFlight
  <2> QED BY <2>1, <2>2 DEF JointInv
<1>2. ASSUME JointInv, [Next]_vars PROVE JointInv'
  <2>1. ComponentStep /\ InFlight'
    BY <1>2, NextMaps
  <2>2. D!IInv' /\ R!RingInvariant'
    BY <1>2, <2>1, DispatcherInv, HandlerInv DEF ComponentStep, JointInv
  <2> QED BY <2>1, <2>2 DEF JointInv
<1> QED BY <1>1, <1>2

\* The state of the dispatcher, of the result handler and of the tasks between them
\* stay consistent, whatever the interleaving of the dispatching thread and the
\* workers.
THEOREM JointInvariance ==
    ASSUME TaskIdsFit, SlotsSuffice
    PROVE  Spec => []JointInv
BY JointStep, PTL DEF Spec

\* The workers and the result handler do what the dispatcher assumes of them.
THEOREM DispatcherContractKept ==
    ASSUME TaskIdsFit, SlotsSuffice
    PROVE  Spec => DispatcherContract
<1>1. Init => D!Init
  BY DEF Init
<1>2. JointInv /\ [Next]_vars => [D!Next]_D!vars
  BY NextMaps DEF ComponentStep
<1> QED BY <1>1, <1>2, JointInvariance, PTL DEF Spec, DispatcherContract, D!Spec

\* The dispatcher hands out tasks as the result handler assumes: each once, and none
\* that is more than the buffer's batches ahead of the oldest result.
THEOREM HandlerContractKept ==
    ASSUME TaskIdsFit, SlotsSuffice
    PROVE  Spec => HandlerContract
<1>1. Init => R!Init
  BY DEF Init
<1>2. JointInv /\ [Next]_vars => [R!Next]_R!vars
  BY NextMaps DEF ComponentStep
<1> QED BY <1>1, <1>2, JointInvariance, PTL DEF Spec, HandlerContract, R!Spec

\* No interleaving of puts, workers and frees overwrites the batch of a task that is
\* running, or queued, or whose result waits to be forwarded.
THEOREM RunningBatchesIntact ==
    ASSUME TaskIdsFit, SlotsSuffice
    PROVE  Spec => []RunningBatchIntact
<1>1. JointInv => RunningBatchIntact
  BY DispatcherInv DEF JointInv, RunningBatchIntact
<1> QED BY <1>1, JointInvariance, PTL

\* "The results are stored in-order based on their task id and forwarded": the slot
\* the forwarder looks at is that of the oldest task that is not freed.
THEOREM NextSlotsOldest ==
    ASSUME TaskIdsFit, SlotsSuffice
    PROVE  Spec => []NextSlotIsOldest
<1>1. ASSUME JointInv PROVE NextSlotIsOldest
  <2> SUFFICES ASSUME \A w \in Workers : pc[w] # "release",
                      NEW t \in tasks, \A u \in tasks : t.b <= u.b
               PROVE  R!idx(t.id) = nextToForward
    BY DEF NextSlotIsOldest
  <2>1. /\ tasksProcessed \in Nat /\ nextTask \in Nat /\ t.id \in Nat
        /\ tasksProcessed < t.id /\ t.id < nextTask
        /\ \A u \in tasks : u.b = (u.id - 1) * BatchSize
    BY <1>1 DEF JointInv, D!IInv, D!TypeOK, D!TaskInv, D!Task
  <2>2. PICK u \in tasks : u.id = tasksProcessed + 1
    BY <1>1, <2>1 DEF JointInv, D!IInv, D!QueueInv
  <2>3. BatchSize \in Nat \ {0}
    BY PipelineAssumption
  <2>4. (t.id - 1) * BatchSize <= tasksProcessed * BatchSize
    BY <2>1, <2>2
  <2>5. t.id = tasksProcessed + 1
    BY <2>1, <2>3, <2>4, MulCancel
  <2>6. nextToForward = tasksProcessed % NumberOfSlots
    BY <1>1 DEF JointInv, InFlight, R!RingInvariant, R!FreedInOrder, R!Released,
         R!Releasing
  <2>7. R!idx(tasksProcessed + 1) = tasksProcessed % NumberOfSlots
    BY <2>1, PipelineAssumption, Derived, R!SlotAfter
  <2> QED BY <2>5, <2>6, <2>7
<1>2. JointInv => NextSlotIsOldest
  BY <1>1
<1> QED BY <1>2, JointInvariance, PTL

\* End to end, the results of a query leave in task order for all downstream queries,
\* none is lost or overwritten, and input is freed after they left.
THEOREM QueryOrdered ==
    ASSUME TaskIdsFit, SlotsSuffice
    PROVE  Spec => R!ImplementsOrderedOutput /\ R!NoResultLost
<1>1. R!Spec => R!ImplementsOrderedOutput /\ R!NoResultLost
  BY PipelineAssumption, Derived, R!RingImplementsOrder, R!ResultsKept DEF SlotsSuffice
<1>2. Spec => R!Spec
  BY HandlerContractKept DEF HandlerContract
<1> QED BY <1>1, <1>2
============================================================================
