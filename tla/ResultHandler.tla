--------------------------- MODULE ResultHandler ---------------------------
(***************************************************************************)
(* result/ResultHandler.cpp of LightSaber for operators without window     *)
(* fragments (forwardAndFreeWithoutFrags), run by the worker threads.      *)
(* Workers finish tasks in any order; a ring of slots puts the results     *)
(* back in task order, and whoever gets the forward lock with try_lock     *)
(* hands the ready ones to the downstream queries and frees their input.   *)
(*                                                                         *)
(* Every atomic operation on shared state is a step of its own.  A slot's  *)
(* payload (result buffer, free pointers, latency mark) is named by the    *)
(* task id.  The dispatcher is seen through the bound proved for it in     *)
(* TaskDispatcher.tla (InFlightBound).                                     *)
(***************************************************************************)
EXTENDS Integers, Sequences, FiniteSets

CONSTANTS
    NumberOfSlots,   \* m_numberOfSlots (SystemConf::SLOTS)
    Workers,         \* the worker threads
    NoWorker,        \* the forward lock is not held
    NumDownstream,   \* getNumberOfDownstreamQueries()
    EmptyResults,    \* the tasks whose output is empty (length = 0)
    Batches,         \* capacity / batch size of the input buffer
    MaxTask          \* bound: number of processing tasks

ASSUME ResultHandlerAssumption ==
    /\ NumberOfSlots \in Nat \ {0}
    /\ NoWorker \notin Workers
    /\ NumDownstream \in Nat
    /\ Batches \in Nat \ {0}
    /\ MaxTask \in Nat

VARIABLES
    slot,            \* m_slot of each slot: -1 free, 0 filling, 1 full, 2 locked
    result,          \* the payload of each slot: a task id, 0 when never filled
    latch,           \* m_latch of each slot: first downstream query to serve
    nextToForward,   \* m_nextToForward
    forwardLock,     \* m_forwardLock: its holder
    maxTaskId,       \* m_maxTaskId
    pc,              \* where each worker is
    task,            \* the task each worker runs
    oldVal,          \* the expected value of the worker's compare_exchange
    qry,             \* the loop variable q of the forwarding loop
    started,         \* the processing tasks handed to workers so far
    delivered,       \* per downstream query, the results it has accepted
    freed            \* the tasks whose input was freed, in order

vars == <<slot, result, latch, nextToForward, forwardLock, maxTaskId, pc, task,
          oldVal, qry, started, delivered, freed>>

Slots == 0 .. NumberOfSlots - 1
Downstream == 1 .. NumDownstream
TaskIds == 1 .. MaxTask
MergeTask == [type |-> "MERGE_FORWARD", id |-> 0]

Init ==
    /\ slot = [s \in Slots |-> -1]
    /\ result = [s \in Slots |-> 0]
    /\ latch = [s \in Slots |-> 0]
    /\ nextToForward = 0
    /\ forwardLock = NoWorker
    /\ maxTaskId = 0
    /\ pc = [w \in Workers |-> "idle"]
    /\ task = [w \in Workers |-> MergeTask]
    /\ oldVal = [w \in Workers |-> -1]
    /\ qry = [w \in Workers |-> 0]
    /\ started = {}
    /\ delivered = [d \in Downstream |-> <<>>]
    /\ freed = <<>>

\* Mutant: the last slot is never used.
idxShort(id) == IF NumberOfSlots = 1 THEN 0 ELSE (id - 1) % (NumberOfSlots - 1)

\* Mutant: task ids taken as if they started at zero.
idxFromZero(id) == id % NumberOfSlots

\* The slot of a task.
idx(id) == (id - 1) % NumberOfSlots

goto(w, l) == pc' = [pc EXCEPT ![w] = l]

----------------------------------------------------------------------------
(* A worker gets a task: a processing task the dispatcher can have created *)
(* by now, or a MERGE_FORWARD task.                                        *)

created(id) == id <= Batches \/ id <= Len(freed) + Batches - 1

runProcess(w, type, id) ==
    /\ pc[w] = "idle"
    /\ started' = started \cup {id}
    /\ task' = [task EXCEPT ![w] = [type |-> type, id |-> id]]
    /\ oldVal' = [oldVal EXCEPT ![w] = -1]
    /\ goto(w, "reserve")
    /\ UNCHANGED <<slot, result, latch, nextToForward, forwardLock, maxTaskId,
                   qry, delivered, freed>>

startProcess(w, type, id) ==
    /\ id \notin started
    /\ created(id)
    /\ runProcess(w, type, id)

startMergeForward(w) ==
    /\ pc[w] = "idle"
    /\ task' = [task EXCEPT ![w] = MergeTask]
    /\ goto(w, "lock")
    /\ UNCHANGED <<slot, result, latch, nextToForward, forwardLock, maxTaskId,
                   oldVal, qry, started, delivered, freed>>

----------------------------------------------------------------------------
(* Reserving and filling the slot of a processing task.                    *)

\* One round of the compare_exchange loop.  A failure loads the value it saw into
\* oldVal, which the loop does not reset before it tries again.
reserveSlot(w) ==
    LET s == idx(task[w].id) IN
    /\ pc[w] = "reserve"
    /\ IF slot[s] = oldVal[w]
       THEN /\ slot' = [slot EXCEPT ![s] = 0]
            /\ goto(w, "fill")
            /\ oldVal' = oldVal
       ELSE /\ oldVal' = [oldVal EXCEPT ![w] = slot[s]]
            /\ UNCHANGED <<slot, pc>>
    /\ UNCHANGED <<result, latch, nextToForward, forwardLock, maxTaskId, task,
                   qry, started, delivered, freed>>

\* Mutant: the latch of the slot's last occupant is kept.
fillSlotKeepsLatch(w) ==
    LET s == idx(task[w].id) IN
    /\ pc[w] = "fill"
    /\ result' = [result EXCEPT ![s] = task[w].id]
    /\ goto(w, "publish")
    /\ UNCHANGED <<slot, latch, nextToForward, forwardLock, maxTaskId, task,
                   oldVal, qry, started, delivered, freed>>

fillSlot(w) ==
    LET s == idx(task[w].id) IN
    /\ pc[w] = "fill"
    /\ result' = [result EXCEPT ![s] = task[w].id]
    /\ latch' = [latch EXCEPT ![s] = 0]
    /\ goto(w, "publish")
    /\ UNCHANGED <<slot, nextToForward, forwardLock, maxTaskId, task, oldVal,
                   qry, started, delivered, freed>>

\* m_slot.store(1) and updateMaximumTaskId, an atomic maximum.
publishSlot(w) ==
    LET s == idx(task[w].id) IN
    /\ pc[w] = "publish"
    /\ slot' = [slot EXCEPT ![s] = 1]
    /\ maxTaskId' = IF maxTaskId < task[w].id THEN task[w].id ELSE maxTaskId
    /\ goto(w, IF task[w].type = "PROCESS" THEN "lock" ELSE "idle")
    /\ UNCHANGED <<result, latch, nextToForward, forwardLock, task, oldVal, qry,
                   started, delivered, freed>>

----------------------------------------------------------------------------
(* Forwarding the ready results, under the forward lock.                   *)

tryLock(w) ==
    /\ pc[w] = "lock"
    /\ IF forwardLock = NoWorker
       THEN forwardLock' = w /\ goto(w, "check")
       ELSE forwardLock' = forwardLock /\ goto(w, "idle")
    /\ UNCHANGED <<slot, result, latch, nextToForward, maxTaskId, task, oldVal,
                   qry, started, delivered, freed>>

\* Is slot nextToForward occupied?  Its result is forwarded from m_latch on.
checkReady(w) ==
    /\ pc[w] = "check"
    /\ slot[nextToForward] = 1
    /\ slot' = [slot EXCEPT ![nextToForward] = 2]
    /\ qry' = [qry EXCEPT ![w] = latch[nextToForward]]
    /\ goto(w, IF NumDownstream > 0 /\ result[nextToForward] \notin EmptyResults
               THEN "forward" ELSE "free")
    /\ UNCHANGED <<result, latch, nextToForward, forwardLock, maxTaskId, task,
                   oldVal, started, delivered, freed>>

checkEmpty(w) ==
    /\ pc[w] = "check"
    /\ slot[nextToForward] # 1
    /\ goto(w, "unlock")
    /\ UNCHANGED <<slot, result, latch, nextToForward, forwardLock, maxTaskId,
                   task, oldVal, qry, started, delivered, freed>>

\* tryDispatch of downstream query qry + 1 accepts the result.
forwardAccepted(w) ==
    LET d == qry[w] + 1 IN
    /\ pc[w] = "forward"
    /\ delivered' = [delivered EXCEPT ![d] = Append(@, result[nextToForward])]
    /\ qry' = [qry EXCEPT ![w] = d]
    /\ goto(w, IF d = NumDownstream THEN "free" ELSE "forward")
    /\ UNCHANGED <<slot, result, latch, nextToForward, forwardLock, maxTaskId,
                   task, oldVal, started, freed>>

\* It is full: remember where to resume and give the slot back.
forwardRejected(w) ==
    /\ pc[w] = "forward"
    /\ latch' = [latch EXCEPT ![nextToForward] = qry[w]]
    /\ slot' = [slot EXCEPT ![nextToForward] = 1]
    /\ goto(w, "unlock")
    /\ UNCHANGED <<result, nextToForward, forwardLock, maxTaskId, task, oldVal,
                   qry, started, delivered, freed>>

\* Free the input of the task in the slot ...
freeInput(w) ==
    /\ pc[w] = "free"
    /\ freed' = Append(freed, result[nextToForward])
    /\ goto(w, "release")
    /\ UNCHANGED <<slot, result, latch, nextToForward, forwardLock, maxTaskId,
                   task, oldVal, qry, started, delivered>>

\* Mutant: the slot is not given back.
releaseSlotKept(w) ==
    /\ pc[w] = "release"
    /\ nextToForward' = IF nextToForward + 1 = NumberOfSlots THEN 0
                        ELSE nextToForward + 1
    /\ goto(w, "check")
    /\ UNCHANGED <<slot, result, latch, forwardLock, maxTaskId, task, oldVal,
                   qry, started, delivered, freed>>

\* ... then the slot itself, and go on with the next one.
releaseSlot(w) ==
    /\ pc[w] = "release"
    /\ slot' = [slot EXCEPT ![nextToForward] = -1]
    /\ nextToForward' = IF nextToForward + 1 = NumberOfSlots THEN 0
                        ELSE nextToForward + 1
    /\ goto(w, "check")
    /\ UNCHANGED <<result, latch, forwardLock, maxTaskId, task, oldVal, qry,
                   started, delivered, freed>>

unlock(w) ==
    /\ pc[w] = "unlock"
    /\ forwardLock' = NoWorker
    /\ goto(w, "idle")
    /\ UNCHANGED <<slot, result, latch, nextToForward, maxTaskId, task, oldVal,
                   qry, started, delivered, freed>>

\* What worker w does once it has a task.
Work(w) ==
    \/ reserveSlot(w) \/ fillSlot(w) \/ publishSlot(w)
    \/ tryLock(w) \/ checkReady(w) \/ checkEmpty(w)
    \/ forwardAccepted(w) \/ forwardRejected(w)
    \/ freeInput(w) \/ releaseSlot(w) \/ unlock(w)

Next ==
    \E w \in Workers :
        \/ \E type \in {"PROCESS", "ONLY_PROCESS"}, id \in TaskIds :
              startProcess(w, type, id)
        \/ startMergeForward(w)
        \/ Work(w)

Spec == Init /\ [][Next]_vars

\* What the handler promises: see OrderedOutput.  A result is completed once it
\* is in a full or locked slot, or its input is freed.
Completed == {result[s] : s \in {s \in Slots : slot[s] \in {1, 2}}}
                 \cup {freed[i] : i \in 1 .. Len(freed)}
Ordered == INSTANCE OrderedOutput WITH
    emptyResults <- EmptyResults, completed <- Completed

\* The slot ring implements ordered output: results leave in task order for all
\* downstream queries, and input is freed after they left.
ImplementsOrderedOutput == Ordered!Spec

----------------------------------------------------------------------------
(* Properties.                                                             *)

pcLabels == {"idle", "reserve", "fill", "publish", "lock", "check", "forward",
             "free", "release", "unlock"}

TypeOK ==
    /\ slot \in [Slots -> {-1, 0, 1, 2}]
    /\ result \in [Slots -> 0 .. MaxTask]
    /\ latch \in [Slots -> 0 .. NumDownstream]
    /\ nextToForward \in Slots
    /\ forwardLock \in Workers \cup {NoWorker}
    /\ maxTaskId \in 0 .. MaxTask
    /\ pc \in [Workers -> pcLabels]
    /\ task \in [Workers -> [type : {"PROCESS", "ONLY_PROCESS", "MERGE_FORWARD"},
                             id : 0 .. MaxTask]]
    /\ oldVal \in [Workers -> {-1, 0, 1, 2}]
    /\ qry \in [Workers -> 0 .. NumDownstream]
    /\ started \subseteq TaskIds
    /\ delivered \in [Downstream -> Seq(0 .. MaxTask)]
    /\ freed \in Seq(0 .. MaxTask)

Filling == {w \in Workers : pc[w] \in {"fill", "publish"}}
Forwarding == {w \in Workers :
                  pc[w] \in {"check", "forward", "free", "release", "unlock"}}

\* The forward lock is held by the worker in the forwarding section, and only
\* that worker locks a slot.
ForwardLockHeld ==
    /\ \A w \in Forwarding : forwardLock = w
    /\ (\A w \in Workers : pc[w] \notin {"forward", "free", "release"})
          => \A s \in Slots : slot[s] # 2

\* "No other thread can modify this slot": the slot a worker fills is marked as
\* being filled, no other worker fills it, and a worker never waits for its slot.
\* Slots are locked only by the worker that forwards, and there is one.
ExclusiveSlot ==
    /\ TypeOK
    /\ ForwardLockHeld
    /\ \A w \in Filling :
          /\ slot[idx(task[w].id)] = 0
          /\ \A v \in Filling : idx(task[v].id) = idx(task[w].id) => v = w
    /\ \A w \in Workers : pc[w] = "reserve" => slot[idx(task[w].id)] = -1

\* A published result stays in its slot until its input has been freed: nothing
\* overwrites the payload of a full or locked slot.
NoResultLost ==
    [][\A s \in Slots : slot[s] \in {1, 2} =>
          /\ result'[s] = result[s]
          /\ slot'[s] \in {1, 2} \/ \E i \in 1 .. Len(freed) : freed[i] = result[s]]_vars
============================================================================
