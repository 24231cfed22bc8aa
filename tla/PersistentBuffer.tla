-------------------------- MODULE PersistentBuffer --------------------------
(***************************************************************************)
(* buffers/PersistentCircularQueryBuffer.h with lineage: a circular buffer *)
(* of slots, one per batch, that is also a log on disk.  The dispatcher    *)
(* puts a batch and acknowledges batches that have been written; workers   *)
(* copy a batch into its slot and submit the write, whose callback marks   *)
(* the slot; the dispatcher makes tasks of acknowledged slots in order; the*)
(* worker that forwards results frees the slot and the log behind it.  The *)
(* files of the log are those of BlockManager, which put reads without the *)
(* lock that freeing holds.  The process may die at any point; the log is  *)
(* then read back into the slots.                                          *)
(*                                                                         *)
(* A batch is its number in the stream.  Offsets are counted in batches.   *)
(* After a restart the source sends what follows the acknowledged batches. *)
(***************************************************************************)
EXTENDS Integers, FiniteSets

CONSTANTS
    LogSlots,        \* m_numberOfSlots, a power of two
    LogFiles,        \* m_listSize of the block manager
    MaxBatch,        \* bound: batches of the input
    MaxLogCrash      \* bound: crashes

B == INSTANCE BlockManager WITH ListSize <- LogFiles, Capacity <- LogSlots

VARIABLES
    slotFlag,        \* m_slot: -1 free, 0 filling, 1 written, 2 acknowledged, 3 in a task
    memory,          \* the batch in each slot of m_buffer
    memcpyFinished,  \* m_memcpyFinished of each slot
    emptySlots,      \* m_emptySlots
    nextSlotToWrite, \* m_nextSlotToWrite, which is not reduced to a slot
    nextPersistentSlot, \* m_nextPersistentSlot
    readerSlot,      \* m_readerSlot
    nextFreeSlot,    \* m_nextFreeSlot
    endPtr,          \* m_endP, in memory
    startPtr,        \* m_startP, in memory
    cachedStart,     \* m_temp
    dpc,             \* where the dispatcher is in put
    inserting,       \* INSERT tasks: slot, batch and file
    writing,         \* asynchronous writes and reads in flight
    list,            \* the block manager's list of files
    fpc,             \* where the worker is that frees the oldest task
    disk,            \* the log: per file and slot, a batch
    rootStart,       \* m_root->m_startP
    rootEnd,         \* m_root->m_endP
    trimmed,         \* m_prevFreeOffset
    slotsToRecover,  \* m_numberOfSlotsToRecover
    slotsToFree,     \* m_numberOfSlotsToFree
    logOffset,       \* m_recoveryOffset of the dispatcher
    input,           \* the next batch of the source
    log,             \* "up", "down" or "failed"
    logCrashes,      \* crashes so far
    number,          \* history: m_nextSlotToWrite of what is in each slot
    raced            \* history: the list of files changed while put was using it

memVars == <<slotFlag, memory, memcpyFinished, number>>
ptrVars == <<nextPersistentSlot, readerSlot, nextFreeSlot, endPtr, startPtr>>
rootVars == <<rootStart, rootEnd, trimmed>>
recVars == <<slotsToRecover, slotsToFree, logOffset, log, logCrashes>>
vars == <<memVars, ptrVars, rootVars, recVars, emptySlots, nextSlotToWrite, cachedStart,
          dpc, inserting, writing, list, fpc, disk, input, raced>>

LSlots == 0 .. LogSlots - 1
LFiles == 0 .. LogFiles - 1
NoBatch == -1
Idle == [at |-> "idle", choice |-> "none", file |-> B!NoFile]
slotOf(n) == n % LogSlots

Init ==
    /\ slotFlag = [s \in LSlots |-> -1] /\ memory = [s \in LSlots |-> NoBatch]
    /\ memcpyFinished = [s \in LSlots |-> FALSE] /\ number = [s \in LSlots |-> NoBatch]
    /\ emptySlots = LogSlots /\ nextSlotToWrite = 0 /\ nextPersistentSlot = 0
    /\ readerSlot = 0 /\ nextFreeSlot = 0 /\ endPtr = 0 /\ startPtr = 0 /\ cachedStart = 0
    /\ dpc = Idle /\ inserting = {} /\ writing = {}
    /\ list = B!CircularFileList /\ fpc = "idle"
    /\ disk = [f \in 0 .. MaxBatch \div LogSlots |-> [s \in LSlots |-> NoBatch]]
    /\ rootStart = 0 /\ rootEnd = 0 /\ trimmed = -1
    /\ slotsToRecover = 0 /\ slotsToFree = 0 /\ logOffset = 0
    /\ input = 0 /\ log = "up" /\ logCrashes = 0 /\ raced = FALSE

----------------------------------------------------------------------------
(* tryToAcknowledge, the end of put and of recover.                        *)

\* The slots acknowledged when the flags are f: as far as they are written.
ackCount(f) ==
    CHOOSE n \in 0 .. LogSlots :
        /\ \A i \in 0 .. n - 1 : f[slotOf(nextPersistentSlot + i)] = 1
        /\ n < LogSlots => f[slotOf(nextPersistentSlot + n)] # 1

\* Mutant: a slot is acknowledged when its task has been created.
tryToAcknowledgeEarly(f) ==
    LET n == Cardinality({s \in LSlots : f[s] \in {0, 1}})
    IN  /\ slotFlag' = [s \in LSlots |-> IF f[s] = 1 THEN 2 ELSE f[s]]
        /\ nextPersistentSlot' = slotOf(nextPersistentSlot + n)
        /\ endPtr' = endPtr + n
        /\ rootEnd' = rootEnd + n
        /\ slotsToFree' = slotsToFree

\* The end of the log in persistent memory moves, but not for replayed batches.
tryToAcknowledge(f) ==
    LET n == ackCount(f)
        replayed == IF n < slotsToFree THEN n ELSE slotsToFree
        acked == {slotOf(nextPersistentSlot + i) : i \in 0 .. n - 1}
    IN  /\ slotFlag' = [s \in LSlots |-> IF s \in acked THEN 2 ELSE f[s]]
        /\ nextPersistentSlot' = slotOf(nextPersistentSlot + n)
        /\ endPtr' = endPtr + n
        /\ rootEnd' = rootEnd + n - replayed
        /\ slotsToFree' = slotsToFree - replayed

----------------------------------------------------------------------------
(* put                                                                     *)

bufferFull == cachedStart <= endPtr - LogSlots \/ emptySlots <= 0
bufferFullNow == startPtr <= endPtr - LogSlots \/ emptySlots <= 0
mayPut == log = "up" /\ dpc = Idle /\ slotsToRecover = 0 /\ slotsToFree = 0 /\ input < MaxBatch

\* Mutant: a full buffer acknowledges nothing.
putFullOnly ==
    /\ mayPut /\ bufferFull /\ bufferFullNow
    /\ cachedStart' = startPtr
    /\ UNCHANGED <<memVars, ptrVars, rootVars, recVars, emptySlots, nextSlotToWrite, dpc,
                   inserting, writing, list, fpc, disk, input, raced>>

\* The buffer is full: only writes that have finished are acknowledged.
putFull ==
    /\ mayPut /\ bufferFull /\ bufferFullNow
    /\ cachedStart' = startPtr
    /\ tryToAcknowledge(slotFlag)
    /\ UNCHANGED <<memory, memcpyFinished, number, readerSlot, nextFreeSlot, startPtr, rootStart,
                   trimmed, slotsToRecover, logOffset, log, logCrashes, emptySlots,
                   nextSlotToWrite, dpc, inserting, writing, list, fpc, disk, input, raced>>

\* createInsertionTask has the number of its slot and looks for the file.
putChoose ==
    /\ mayPut /\ ~(bufferFull /\ bufferFullNow)
    /\ cachedStart' = IF bufferFull THEN startPtr ELSE cachedStart
    /\ dpc' = [at |-> "chosen", choice |-> B!choice(list, nextSlotToWrite),
               file |-> B!front(list)]
    /\ raced' = (raced \/ fpc = "pop")
    /\ UNCHANGED <<memVars, ptrVars, rootVars, recVars, emptySlots, nextSlotToWrite, inserting,
                   writing, list, fpc, disk, input>>

\* It has the file, reserves the slot and creates the task.
putCreate ==
    LET n == nextSlotToWrite
        s == slotOf(n)
        file == CASE dpc.choice = "front"  -> dpc.file
                  [] dpc.choice = "second" -> B!secondFront(list)
                  [] dpc.choice = "new"    -> B!newFile(list, n)
    IN  /\ log = "up" /\ dpc.at = "chosen"
        /\ dpc.choice = "second" => list.elements > 1
        /\ dpc.choice = "new" => ~B!full(list)
        /\ slotFlag[s] = -1
        /\ list' = IF dpc.choice = "new" THEN B!withNewFile(list, n) ELSE list
        /\ inserting' = inserting \cup {[slot |-> s, batch |-> input, file |-> file]}
        /\ number' = [number EXCEPT ![s] = n]
        /\ nextSlotToWrite' = n + 1
        /\ emptySlots' = emptySlots - 1
        /\ input' = input + 1
        /\ dpc' = Idle
        /\ tryToAcknowledge([slotFlag EXCEPT ![s] = 0])
        /\ UNCHANGED <<memory, memcpyFinished, readerSlot, nextFreeSlot, startPtr, rootStart,
                       trimmed, slotsToRecover, logOffset, log, logCrashes, cachedStart, writing,
                       fpc, disk, raced>>

\* secondFront and push_back throw: the list is not what put took it to be.
putThrows ==
    /\ log = "up" /\ dpc.at = "chosen"
    /\ \/ dpc.choice = "second" /\ list.elements <= 1
       \/ dpc.choice = "new" /\ B!full(list)
    /\ log' = "failed"
    /\ UNCHANGED <<memVars, ptrVars, rootVars, slotsToRecover, slotsToFree, logOffset, logCrashes,
                   emptySlots, nextSlotToWrite, cachedStart, dpc, inserting, writing, list, fpc,
                   disk, input, raced>>

----------------------------------------------------------------------------
(* putRows, by a worker, and the callbacks of the disk                     *)

\* Mutant: the slot counts as copied before the batch is in it.
putRowsNoCopy(t) ==
    /\ log = "up" /\ t \in inserting /\ slotFlag[t.slot] = 0
    /\ inserting' = inserting \ {t}
    /\ memcpyFinished' = [memcpyFinished EXCEPT ![t.slot] = TRUE]
    /\ writing' = writing \cup {[op |-> "write", slot |-> t.slot, batch |-> t.batch, file |-> t.file]}
    /\ UNCHANGED <<slotFlag, memory, number, ptrVars, rootVars, recVars, emptySlots,
                   nextSlotToWrite, cachedStart, dpc, list, fpc, disk, input, raced>>

putRows(t) ==
    /\ log = "up" /\ t \in inserting /\ slotFlag[t.slot] = 0
    /\ inserting' = inserting \ {t}
    /\ memory' = [memory EXCEPT ![t.slot] = t.batch]
    /\ memcpyFinished' = [memcpyFinished EXCEPT ![t.slot] = TRUE]
    /\ writing' = writing \cup {[op |-> "write", slot |-> t.slot, batch |-> t.batch, file |-> t.file]}
    /\ UNCHANGED <<slotFlag, number, ptrVars, rootVars, recVars, emptySlots, nextSlotToWrite,
                   cachedStart, dpc, list, fpc, disk, input, raced>>

\* A write or read completes, in any order, and its callback marks the slot.
callback(w) ==
    /\ log = "up" /\ w \in writing /\ slotFlag[w.slot] = 0
    /\ writing' = writing \ {w}
    /\ slotFlag' = [slotFlag EXCEPT ![w.slot] = 1]
    /\ disk' = IF w.op = "write" THEN [disk EXCEPT ![w.file][w.slot] = w.batch] ELSE disk
    /\ memory' = IF w.op = "read" THEN [memory EXCEPT ![w.slot] = disk[w.file][w.slot]] ELSE memory
    /\ UNCHANGED <<memcpyFinished, number, ptrVars, rootVars, recVars, emptySlots,
                   nextSlotToWrite, cachedStart, dpc, inserting, list, fpc, input, raced>>

----------------------------------------------------------------------------
(* tryConsumeNextSlot                                                      *)

\* Mutant: a slot whose write is only under way is ready.
isSlotReadyUnwritten(f, s) == f[s] \in {0, 1, 2} /\ memcpyFinished[s]

isSlotReady(f, s) == f[s] = 2 /\ memcpyFinished[s]

tryConsumeNextSlot ==
    /\ log = "up" /\ dpc = Idle /\ isSlotReady(slotFlag, readerSlot)
    /\ slotFlag' = [slotFlag EXCEPT ![readerSlot] = 3]
    /\ readerSlot' = slotOf(readerSlot + 1)
    /\ UNCHANGED <<memory, memcpyFinished, number, nextPersistentSlot, nextFreeSlot, endPtr,
                   startPtr, rootVars, recVars, emptySlots, nextSlotToWrite, cachedStart, dpc,
                   inserting, writing, list, fpc, disk, input, raced>>

----------------------------------------------------------------------------
(* The worker that has forwarded the oldest task: LineageNode::tryToFree.  *)

freeIndex == number[nextFreeSlot] + 1 + logOffset
freeing == log = "up" /\ slotFlag[nextFreeSlot] = 3

\* BlockManager::freePersistent moves the end of a file it is done with ...
freeReset ==
    /\ freeing /\ fpc # "pop" /\ B!freesFront(list, freeIndex)
    /\ list' = B!resetFront(list)
    /\ fpc' = "pop"
    /\ raced' = (raced \/ dpc.at = "chosen")
    /\ UNCHANGED <<memVars, ptrVars, rootVars, recVars, emptySlots, nextSlotToWrite, cachedStart,
                   dpc, inserting, writing, disk, input>>

\* ... and then takes it off the list.
freePop ==
    /\ freeing /\ fpc = "pop"
    /\ list' = B!pop_front(list)
    /\ fpc' = "loop"
    /\ raced' = (raced \/ dpc.at = "chosen")
    /\ UNCHANGED <<memVars, ptrVars, rootVars, recVars, emptySlots, nextSlotToWrite, cachedStart,
                   dpc, inserting, writing, disk, input>>

\* A late call never moves the start of the log back.
updateFileStartPtr(offset) ==
    /\ trimmed' = IF offset < trimmed THEN trimmed ELSE offset
    /\ rootStart' = IF offset < trimmed THEN rootStart ELSE offset

\* PersistentCircularQueryBuffer::free.
free ==
    /\ slotFlag' = [slotFlag EXCEPT ![nextFreeSlot] = -1]
    /\ memcpyFinished' = [memcpyFinished EXCEPT ![nextFreeSlot] = FALSE]
    /\ emptySlots' = emptySlots + 1
    /\ nextFreeSlot' = slotOf(nextFreeSlot + 1)
    /\ startPtr' = startPtr + 1

tryToFree ==
    /\ freeing /\ fpc # "pop" /\ ~B!freesFront(list, freeIndex)
    /\ fpc' = "idle"
    /\ updateFileStartPtr(freeIndex)
    /\ free
    /\ UNCHANGED <<memory, number, nextPersistentSlot, readerSlot, endPtr, rootEnd, recVars,
                   nextSlotToWrite, cachedStart, dpc, inserting, writing, list, disk, input, raced>>

----------------------------------------------------------------------------
(* A crash, and recoverData with TaskDispatcher::recover                   *)

\* Of the writes in flight any may have reached the disk.
LogCrash ==
    /\ log = "up" /\ logCrashes < MaxLogCrash
    /\ log' = "down" /\ logCrashes' = logCrashes + 1
    /\ \E done \in SUBSET {w \in writing : w.op = "write"} :
          disk' = [f \in DOMAIN disk |-> [s \in LSlots |->
                     IF \E w \in done : w.file = f /\ w.slot = s
                     THEN (CHOOSE w \in done : w.file = f /\ w.slot = s).batch ELSE disk[f][s]]]
    /\ UNCHANGED <<memVars, ptrVars, rootVars, slotsToRecover, slotsToFree, logOffset, emptySlots,
                   nextSlotToWrite, cachedStart, dpc, inserting, writing, list, fpc, input, raced>>

filesOnDisk == Cardinality({list.ptr[i] : i \in LFiles} \ {B!NoFile})

\* Mutant: the batches after the end of the log are replayed as well.
remainingSlotsBeyond == rootEnd - rootStart + 1

\* getUnsafeRemainingBytes.
remainingSlots == rootEnd - rootStart

recoverData ==
    /\ log = "down" /\ log' = "up"
    /\ slotFlag' = [s \in LSlots |-> -1] /\ memory' = [s \in LSlots |-> NoBatch]
    /\ memcpyFinished' = [s \in LSlots |-> FALSE] /\ number' = [s \in LSlots |-> NoBatch]
    /\ emptySlots' = LogSlots /\ nextSlotToWrite' = 0 /\ nextPersistentSlot' = 0
    /\ readerSlot' = 0 /\ nextFreeSlot' = 0 /\ endPtr' = 0 /\ startPtr' = 0 /\ cachedStart' = 0
    /\ dpc' = Idle /\ inserting' = {} /\ writing' = {} /\ fpc' = "idle"
    /\ list' = B!loadFiles(filesOnDisk) /\ trimmed' = -1
    /\ slotsToRecover' = remainingSlots /\ slotsToFree' = remainingSlots
    /\ logOffset' = rootStart
    /\ input' = rootEnd
    /\ UNCHANGED <<rootStart, rootEnd, disk, logCrashes, raced>>

\* recover: the next slot is read back, from the first file: the pointers it
\* takes are those of the pool's outer root, which nothing ever sets.
recover ==
    LET s == slotOf(nextSlotToWrite) IN
    /\ log = "up" /\ slotsToRecover > 0 /\ emptySlots > 0 /\ slotFlag[s] = -1
    /\ writing' = writing \cup {[op |-> "read", slot |-> s, batch |-> NoBatch, file |-> 0]}
    /\ memcpyFinished' = [memcpyFinished EXCEPT ![s] = TRUE]
    /\ number' = [number EXCEPT ![s] = nextSlotToWrite]
    /\ nextSlotToWrite' = nextSlotToWrite + 1
    /\ slotsToRecover' = slotsToRecover - 1
    /\ emptySlots' = emptySlots - 1
    /\ tryToAcknowledge([slotFlag EXCEPT ![s] = 0])
    /\ UNCHANGED <<memory, readerSlot, nextFreeSlot, startPtr, rootStart, trimmed, logOffset, log,
                   logCrashes, cachedStart, dpc, inserting, list, fpc, disk, input, raced>>

\* The loops of TaskDispatcher::recover acknowledge while they wait.
recoverAcknowledges ==
    /\ log = "up" /\ slotsToFree > 0 /\ ackCount(slotFlag) > 0
    /\ tryToAcknowledge(slotFlag)
    /\ UNCHANGED <<memory, memcpyFinished, number, readerSlot, nextFreeSlot, startPtr, rootStart,
                   trimmed, slotsToRecover, logOffset, log, logCrashes, emptySlots,
                   nextSlotToWrite, cachedStart, dpc, inserting, writing, list, fpc, disk, input,
                   raced>>

LogDispatcher ==
    putFull \/ putChoose \/ putCreate \/ putThrows \/ tryConsumeNextSlot
    \/ recover \/ recoverAcknowledges
LogWorker ==
    (\E t \in inserting : putRows(t)) \/ (\E w \in writing : callback(w))
    \/ freeReset \/ freePop \/ tryToFree

Next == LogDispatcher \/ LogWorker \/ LogCrash \/ recoverData
Spec == Init /\ [][Next]_vars
\* The dispatcher and the workers are threads that keep running; the disk
\* answers every request.
FairSpec == Spec /\ WF_vars(putFull \/ putChoose \/ putCreate \/ putThrows)
                 /\ WF_vars(tryConsumeNextSlot) /\ WF_vars(recover \/ recoverAcknowledges)
                 /\ WF_vars(LogWorker) /\ WF_vars(recoverData)
----------------------------------------------------------------------------

TypeOK ==
    /\ slotFlag \in [LSlots -> -1 .. 3] /\ memcpyFinished \in [LSlots -> BOOLEAN]
    /\ memory \in [LSlots -> NoBatch .. MaxBatch - 1]
    /\ number \in [LSlots -> NoBatch .. MaxBatch - 1]
    /\ emptySlots \in 0 .. LogSlots /\ nextSlotToWrite \in 0 .. MaxBatch
    /\ {nextPersistentSlot, readerSlot, nextFreeSlot} \subseteq LSlots
    /\ {endPtr, startPtr, cachedStart, rootStart, rootEnd, input} \subseteq 0 .. MaxBatch
    /\ {slotsToRecover, slotsToFree} \subseteq 0 .. LogSlots
    /\ log \in {"up", "down", "failed"} /\ fpc \in {"idle", "pop", "loop"} /\ raced \in BOOLEAN
    /\ list.elements \in 0 .. LogFiles

\* The file list was never read while it changed, has not come round, and this
\* run of the process started at the beginning of the log: the cases in which
\* getFilePtr and recover find the right file.
Regular == ~raced /\ logOffset = 0 /\ ~B!hasWrapped(list)

\* tryToAcknowledge moves the durable end of the log past a batch only when the
\* batch is in the log, in the file and slot where its offset says it is, and
\* it stays there until freePersistent has moved the durable start past it:
\* whatever the order in which writes finish, and in every state a crash can
\* leave behind.
AcknowledgedIsLogged ==
    Regular => \A b \in rootStart .. rootEnd - 1 : disk[b \div LogSlots][slotOf(b)] = b

\* A batch is in a task only when it is in the log (a slot is consumed in state
\* 2, which tryToAcknowledge gives in order), and the slot then holds the
\* batch the task is for: no put has overwritten it, and a replay has put it
\* back where it was.
TasksReadTheLog ==
    Regular => \A s \in LSlots : slotFlag[s] = 3 =>
        /\ memory[s] = number[s]
        /\ number[s] >= rootStart - 1 /\ (log = "up" /\ slotsToFree = 0 => number[s] < rootEnd)

\* createInsertionTask spins until its slot is free: m_emptySlots and the order
\* in which slots are freed make sure that it never has to.
PutNeverSpins ==
    log = "up" /\ (dpc.at = "chosen" \/ (slotsToRecover > 0 /\ emptySlots > 0))
        => slotFlag[slotOf(nextSlotToWrite)] = -1

\* A restart replays exactly the batches that were acknowledged and not freed:
\* what the source sends next is the batch after the last one in the log, and
\* no batch in between is skipped by the numbers of the slots.
ReplayMeetsInput ==
    log = "up" /\ slotsToRecover = 0 => logOffset + nextSlotToWrite = input

\* getFilePtr throws only when freePersistent changed the list under it or the
\* list has come round.
ThrowsOnlyOnRace == log = "failed" => raced \/ B!hasWrapped(list)

\* put neither waits for its slot nor fails on the files of the log.
PutSucceeds == PutNeverSpins /\ ThrowsOnlyOnRace
============================================================================
