-------------------------- MODULE TaskQueueProofs --------------------------
(***************************************************************************)
(* How many tasks the dispatcher's queue holds.                            *)
(***************************************************************************)
EXTENDS TaskDispatcherProofs, FiniteSetTheorems

\* The processing tasks in flight have distinct ids in a bounded interval, so there
\* are finitely many of them, and no more than the interval is long.
LEMMA TasksFinite ==
    ASSUME IInv, NEW S \in SUBSET tasks
    PROVE  /\ IsFiniteSet(S)
           /\ Cardinality(S) \in Nat
           /\ Cardinality(S) <= nextTask - 1 - tasksProcessed
<1> DEFINE T == tasksProcessed + 1 .. nextTask - 1
           f == [t \in S |-> t.id]
<1>1. /\ tasksProcessed \in Nat /\ nextTask \in Nat /\ tasksProcessed < nextTask
      /\ tasks \subseteq Task
  BY DEF IInv, TypeOK, PointersInv
<1>2. \A t \in S : t.id \in T
  BY <1>1 DEF IInv, TaskInv, Task
<1>3. \A t, u \in S : t.id = u.id => t = u
  BY DEF IInv, TaskInv
<1>4. f \in Injection(S, T)
  <2>1. f \in [S -> T]
    BY <1>2
  <2>2. \A t, u \in S : f[t] = f[u] => t = u
    BY <1>3
  <2> QED BY <2>1, <2>2 DEF Injection, IsInjective
<1>5. IsFiniteSet(T) /\ Cardinality(T) = nextTask - 1 - tasksProcessed
  <2>1. tasksProcessed + 1 \in Int /\ nextTask - 1 \in Int
    BY <1>1
  <2>2. /\ IsFiniteSet(T)
        /\ Cardinality(T) = IF tasksProcessed + 1 > nextTask - 1 THEN 0
                            ELSE nextTask - 1 - (tasksProcessed + 1) + 1
    BY <2>1, FS_Interval
  <2> QED BY <1>1, <2>2
<1> HIDE DEF T, f
<1>6. IsFiniteSet(S) /\ Cardinality(S) <= Cardinality(T)
  BY <1>4, <1>5, FS_Injection
<1>7. Cardinality(S) \in Nat
  BY <1>6, FS_CardinalityType
<1> QED BY <1>5, <1>6, <1>7

\* tryCreateNonProcessingTasks is the only source of merge tasks, and it looks at
\* all the tasks queued.
LEMMA MergeTasksStep ==
    ASSUME IInv, mergeTasks <= NumWorkers, [Next]_vars
    PROVE  mergeTasks' <= NumWorkers
<1>1. mergeTasks \in Nat /\ NumWorkers \in Nat
  BY DispatcherAssumption DEF IInv, TypeOK
<1>2. CASE dispatchBlocked
  <2>1. Cardinality(queue) \in Nat
    BY TasksFinite DEF IInv, QueueInv
  <2> QED BY <1>1, <1>2, <2>1
          DEF dispatchBlocked, tryCreateNonProcessingTasks, queueSize
<1>3. CASE takeMerge
  BY <1>1, <1>3 DEF takeMerge
<1>4. CASE ~dispatchBlocked /\ ~takeMerge
  <2>1. mergeTasks' = mergeTasks
    BY <1>4 DEF Next, Dispatcher, dispatch, dispatchAdmitted, dispatchCopy, assembleTask,
                enqueueTask, assembleDone, take, freeInput, quiescent, vars,
                dispatcherVars
  <2> QED BY <2>1
<1> QED BY <1>2, <1>3, <1>4

\* When the task queue is sized for the batches of the buffer and a merge task per
\* worker, try_enqueue in newTaskFor succeeds at once: the task it enqueues is one of
\* at most Batches in flight, so fewer than that are queued.
THEOREM EnqueuesNeverWait == Spec => []EnqueueNeverWaits
<1>1. IInv /\ mergeTasks <= NumWorkers => EnqueueNeverWaits
  <2> SUFFICES ASSUME IInv, mergeTasks <= NumWorkers, dpc = "enqueue", QueueCapacity >= Batches + NumWorkers
               PROVE  queueSize < QueueCapacity
    BY DEF EnqueueNeverWaits
  <2>1. PICK t \in pending : TRUE
    BY DEF IInv, QueueInv
  <2>2. t \notin queue /\ queue \cup {t} \in SUBSET tasks /\ queue \in SUBSET tasks
    BY <2>1 DEF IInv, QueueInv
  <2>3. IsFiniteSet(queue) /\ Cardinality(queue) \in Nat
    BY <2>2, TasksFinite
  <2>4. Cardinality(queue \cup {t}) = Cardinality(queue) + 1
    BY <2>2, <2>3, FS_AddElement
  <2>5. Cardinality(queue) + 1 <= nextTask - 1 - tasksProcessed
    BY <2>2, <2>4, TasksFinite
  <2>6. InFlightBound
    BY IInvInFlight
  <2>7. /\ nextTask \in Nat /\ tasksProcessed \in Nat /\ mergeTasks \in Nat
        /\ mergeTasks <= NumWorkers
    BY DEF IInv, TypeOK
  <2>8. Batches \in Nat
    <3>1. PICK n \in Nat \ {0} : Capacity = n * BatchSize
      BY Sizes
    <3> QED BY <3>1, Sizes, DivMultiple DEF Batches
  <2> QED BY <2>3, <2>5, <2>6, <2>7, <2>8, DispatcherAssumption
          DEF InFlightBound, queueSize
<1>2. Init => mergeTasks <= NumWorkers
  BY DispatcherAssumption DEF Init
<1>3. IInv /\ mergeTasks <= NumWorkers /\ [Next]_vars => (mergeTasks <= NumWorkers)'
  BY MergeTasksStep
<1> QED BY <1>1, <1>2, <1>3, Invariance, PTL DEF Spec
============================================================================
