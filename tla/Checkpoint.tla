----------------------------- MODULE Checkpoint -----------------------------
(***************************************************************************)
(* Checkpoints and recovery of one window query: the coordinator thread of *)
(* checkpoint/FileBackedCheckpointCoordinator.cpp, the workers that write  *)
(* marked result slots asynchronously, the ring of result slots they share *)
(* with merging and forwarding (result/ResultHandler.cpp), the log of the  *)
(* persistent input buffer, and a crash of the process at any point.       *)
(*                                                                         *)
(* The log is measured in batches: startP = n means that the input of the  *)
(* tasks 1 .. n is not replayed.  Slots hold the fragments of              *)
(* PartialResultSlot.  A write of a slot that is in flight when the process*)
(* dies reaches the file or does not; stores to persistent memory and      *)
(* completed writes survive.  The critical sections of workers are one     *)
(* step per slot pair (merging) or a few steps per slot (forwarding).      *)
(* Queues of tasks are large enough for the tasks the coordinator creates. *)
(***************************************************************************)
EXTENDS Integers, Sequences, FiniteSets

CONSTANTS
    NumberOfSlots,   \* m_numberOfSlots of the result handler
    Batches,         \* capacity / batch size of the input buffer
    MaxTask,         \* bound: tasks of the input stream
    MaxCheckpoint,   \* bound: checkpoints started
    MaxCrash,        \* bound: crashes
    Configs          \* the [lineage, windows, width] considered: 2^31, in batches,
                     \* is the width

P == INSTANCE PartialResultSlot WITH UsePtrs <- TRUE, PartialWindows <- MaxTask

VARIABLES
    config,            \* LINEAGE_ON, the first and last batch of each window, and the
                       \* first offset an int does not hold
    ring,              \* the result slots
    nextToAggregate,   \* m_nextToAggregate
    nextToForward,     \* m_nextToForward
    maxTaskId,         \* m_maxTaskId
    mergeThrown,       \* an exception left m_mergeLock locked
    fwd,               \* where the worker is that holds m_forwardLock
    nextTask,          \* m_nextTask of the dispatcher
    recoveryOffset,    \* m_recoveryOffset of the dispatcher
    processing,        \* tasks without a result slot
    unannounced,       \* tasks with a slot, not yet counted in m_maxTaskId
    hasConcurrentCheckpoint, \* m_hasConcurrentCheckpoint
    cpc,               \* where the coordinator is
    checkpointId,      \* m_checkpointId
    ptrs,              \* m_checkpointPtrs: entries 0, 1, 8, 9 and 10
    lastTaskId,        \* m_lastTaskId
    marking,           \* idx and cnt of prepareCheckpoint; history: cnt at the start,
                       \* and whether a published task was not in m_maxTaskId yet
    readySlots,        \* m_readySlots
    writes,            \* asynchronous writes and their callbacks
    count,             \* Checkpoint: m_numberOfSlots and m_counter
    checkpointCounter, \* m_checkpointCounter
    prevFreeOffset,    \* m_prevFreeOffset of the input buffer
    files,             \* the two checkpoint files
    metadata,          \* m_root->m_metadata
    version,           \* m_root->m_version
    valid,             \* m_root->m_valid
    startP,            \* m_root->m_startP of the input buffer
    up,                \* "up", "down", or "failed" in recovery
    delivered,         \* the windows that have left the system
    crashes,           \* crashes so far
    started,           \* checkpoints started so far
    snapshot,          \* history: what the slots held when they were marked
    committed,         \* history: the snapshot of the version in m_version
    recovered          \* history: no checkpoint was committed since a recovery

ringVars == <<ring, nextToAggregate, nextToForward, maxTaskId, mergeThrown>>
taskVars == <<nextTask, recoveryOffset, processing, unannounced>>
coordVars == <<checkpointId, ptrs, lastTaskId, marking, snapshot, started>>
writeVars == <<readySlots, writes, count, checkpointCounter, files>>
logVars == <<prevFreeOffset, startP>>
commitVars == <<metadata, version, committed>>
faultVars == <<config, up, crashes, recovered>>
vars == <<ringVars, taskVars, coordVars, writeVars, logVars, commitVars, faultVars,
          fwd, hasConcurrentCheckpoint, cpc, valid, delivered>>

Slots == 0 .. NumberOfSlots - 1
TaskIds == 1 .. MaxTask
Lineage == config.lineage
Windows == config.windows
Width == config.width
INT_MIN == -Width

\* m_checkpointPtrs is a vector<int>: what is left of a long that is stored in it.
toInt(offset) == ((offset + Width) % (2 * Width)) - Width

\* A slot: m_slot, m_previousSlot, m_taskId, the fragments, and whether its
\* lineage graph is that of a dispatched task (and not a new, empty one).
EmptySlot == [slot |-> -1, prev |-> 0, task |-> -1, parts |-> P!NoPartials, graph |-> FALSE]
NoPtrs == [first |-> -1, last |-> -1, sIdx |-> -1, eIdx |-> -1, offset |-> -1]
NoMarking == [idx |-> 0, cnt |-> 0, total |-> 0, late |-> FALSE]
Unwritten == [task |-> -1, parts |-> P!NoPartials]
BlankFile == [s \in Slots |-> Unwritten]

idx(id) == (id - 1) % NumberOfSlots
next(s) == (s + 1) % NumberOfSlots
prev(s) == (s - 1) % NumberOfSlots
max(a, b) == IF a < b THEN b ELSE a

Init ==
    /\ config \in Configs
    /\ ring = [s \in Slots |-> EmptySlot] /\ nextToAggregate = 0 /\ nextToForward = 0
    /\ maxTaskId = 0 /\ mergeThrown = FALSE /\ fwd = "none"
    /\ nextTask = 1 /\ recoveryOffset = 0 /\ processing = {} /\ unannounced = {}
    /\ hasConcurrentCheckpoint = FALSE /\ cpc = "idle" /\ checkpointId = 0
    /\ ptrs = NoPtrs /\ lastTaskId = 0 /\ marking = NoMarking
    /\ readySlots = {} /\ writes = {} /\ count = [slots |-> 0, done |-> 0]
    /\ checkpointCounter = 0
    /\ files = [v \in 0 .. 1 |-> BlankFile]
    /\ metadata = NoPtrs /\ version = 0 /\ valid = FALSE
    /\ startP = 0 /\ prevFreeOffset = -1
    /\ up = "up" /\ delivered = <<>> /\ crashes = 0 /\ started = 0
    /\ snapshot = BlankFile /\ committed = BlankFile /\ recovered = FALSE

----------------------------------------------------------------------------
(* Workers: processing, merging and forwarding.                            *)

\* What the operator computes from batch id, for tumbling windows.
fragmentsOf(id) ==
    LET list(F(_)) == LET ws == SelectSeq([w \in 1 .. Len(Windows) |-> w], F)
                      IN  [i \in 1 .. Len(ws) |-> {<<ws[i], id>>}]
        opens(w) == Windows[w].first = id /\ id < Windows[w].last
        closes(w) == Windows[w].first < id /\ id = Windows[w].last
        within(w) == Windows[w].first = id /\ id = Windows[w].last
        covers(w) == Windows[w].first < id /\ id < Windows[w].last
    IN  [closing |-> list(closes), opening |-> list(opens), complete |-> list(within),
         pending |-> IF list(covers) = <<>> THEN <<>> ELSE << {<<P!AnyWindow, id>>} >>]

\* The tasks whose input is in the circular buffer.
Buffered == processing \cup {ring[s].task : s \in {t \in Slots : ring[t].graph}}

\* The dispatcher creates the task of the next batch, of new or replayed input.
Dispatch ==
    /\ up = "up" /\ nextTask <= MaxTask
    /\ Cardinality(Buffered) < Batches
    /\ processing' = processing \cup {nextTask}
    /\ nextTask' = nextTask + 1
    /\ UNCHANGED <<ringVars, recoveryOffset, unannounced, coordVars, writeVars, logVars,
                   commitVars, faultVars, fwd, hasConcurrentCheckpoint, cpc, valid, delivered>>

\* A worker fills the slot of its task once it is free.
publish(id) ==
    /\ up = "up" /\ id \in processing
    /\ ring[idx(id)].slot = -1
    /\ processing' = processing \ {id}
    /\ unannounced' = unannounced \cup {id}
    /\ ring' = [ring EXCEPT ![idx(id)] =
            [slot |-> 1, prev |-> @.prev, task |-> id, parts |-> fragmentsOf(id), graph |-> TRUE]]
    /\ UNCHANGED <<nextToAggregate, nextToForward, maxTaskId, mergeThrown, nextTask,
                   recoveryOffset, coordVars, writeVars, logVars, commitVars, faultVars,
                   fwd, hasConcurrentCheckpoint, cpc, valid, delivered>>

updateMaximumTaskId(id) ==
    /\ up = "up" /\ id \in unannounced
    /\ unannounced' = unannounced \ {id}
    /\ maxTaskId' = max(maxTaskId, id)
    /\ UNCHANGED <<ring, nextToAggregate, nextToForward, mergeThrown, nextTask, recoveryOffset,
                   processing, coordVars, writeVars, logVars, commitVars, faultVars,
                   fwd, hasConcurrentCheckpoint, cpc, valid, delivered>>

\* prepareCheckpoint holds m_mergeLock and m_forwardLock.
coordinatorLocks == cpc \in {"mark", "spin"}

\* Mutant: a slot that is being checkpointed is merged like any other.
mergeableMarked(c) == ring[c].slot \in {1, 5} /\ ring[next(c)].slot \in {1, 5}

\* Both slots are published; a slot of a checkpoint, 5, is left alone.
mergeable(c) == ring[c].slot = 1 /\ ring[next(c)].slot = 1
mergeFails(c) ==
    \/ ring[c].slot \in {3, 4}
    \/ ring[c].slot = 1 /\ ring[next(c)].slot = 3
    \/ /\ mergeable(c)
       /\ \/ P!aggregateThrows(ring[c].parts, ring[next(c)].parts)
          \/ ~P!isReady(P!aggregateCurrent(ring[c].parts, ring[next(c)].parts))

mergePair ==
    LET c == nextToAggregate
        n == next(c)
        merged == P!aggregateNext(ring[c].parts, ring[n].parts)
        ready == P!isReady(merged)
    IN  /\ up = "up" /\ ~coordinatorLocks /\ ~mergeThrown
        /\ mergeable(c) /\ ~mergeFails(c)
        /\ ring' = [ring EXCEPT
                ![c].parts = P!aggregateCurrent(ring[c].parts, ring[n].parts),
                ![c].slot = 3,
                ![n].parts = merged,
                ![n].slot = IF ready THEN 3 ELSE @]
        /\ nextToAggregate' = IF ready THEN next(n) ELSE n
        /\ UNCHANGED <<nextToForward, maxTaskId, mergeThrown, taskVars, coordVars, writeVars,
                       logVars, commitVars, faultVars, fwd, hasConcurrentCheckpoint, cpc,
                       valid, delivered>>

\* An exception: the catch clause does not unlock m_mergeLock.
mergeThrows ==
    /\ up = "up" /\ ~coordinatorLocks /\ ~mergeThrown
    /\ mergeFails(nextToAggregate)
    /\ mergeThrown' = TRUE
    /\ UNCHANGED <<ring, nextToAggregate, nextToForward, maxTaskId, taskVars, coordVars,
                   writeVars, logVars, commitVars, faultVars, fwd, hasConcurrentCheckpoint,
                   cpc, valid, delivered>>

\* The next result is ready: its windows leave the system.
forward ==
    LET s == nextToForward IN
    /\ up = "up" /\ ~coordinatorLocks /\ fwd = "none"
    /\ ring[s].slot = 3
    /\ ring' = [ring EXCEPT ![s].slot = 4]
    /\ delivered' = delivered \o ring[s].parts.complete
    /\ fwd' = IF Lineage THEN "check" ELSE "release"
    /\ UNCHANGED <<nextToAggregate, nextToForward, maxTaskId, mergeThrown, taskVars, coordVars,
                   writeVars, logVars, commitVars, faultVars, hasConcurrentCheckpoint, cpc, valid>>

\* The first test of tryToPurgeCheckpoint.
checkValid ==
    /\ up = "up" /\ fwd = "check"
    /\ fwd' = IF valid THEN "purge" ELSE "free"
    /\ UNCHANGED <<ringVars, taskVars, coordVars, writeVars, logVars, commitVars, faultVars,
                   hasConcurrentCheckpoint, cpc, valid, delivered>>

\* m_freeOffset1 of m_checkpointGraph, the largest offset freed so far.
graphOffset == IF ring[nextToForward].graph THEN ring[nextToForward].task ELSE INT_MIN

\* Mutant: the flag is not waited for.
tryToPurgeCheckpointAnyTime ==
    /\ up = "up" /\ fwd = "purge"
    /\ valid' = (valid /\ graphOffset < ptrs.offset)
    /\ fwd' = "free"
    /\ UNCHANGED <<ringVars, taskVars, coordVars, writeVars, logVars, commitVars, faultVars,
                   hasConcurrentCheckpoint, cpc, delivered>>

\* The checkpoint was valid when it was looked at; once no other is under way it
\* is invalidated if its results have all been forwarded.
tryToPurgeCheckpoint ==
    /\ up = "up" /\ fwd = "purge"
    /\ ~hasConcurrentCheckpoint
    /\ valid' = (valid /\ graphOffset < ptrs.offset)
    /\ fwd' = "free"
    /\ UNCHANGED <<ringVars, taskVars, coordVars, writeVars, logVars, commitVars, faultVars,
                   hasConcurrentCheckpoint, cpc, delivered>>

\* BlockManager::freePersistent and updateFileStartPtr.  m_prevFreeOffset begins with
\* -1, a byte and not a batch: a negative offset is below it.
freePersistent(offset) ==
    IF offset < max(prevFreeOffset, 0) THEN UNCHANGED logVars
    ELSE prevFreeOffset' = offset /\ startP' = offset

\* LineageGraph::freePersistentState: the graph of a restored slot is not valid.
freePersistentState ==
    /\ up = "up" /\ fwd = "free"
    /\ IF ring[nextToForward].graph THEN freePersistent(ring[nextToForward].task)
       ELSE UNCHANGED logVars
    /\ fwd' = "release"
    /\ UNCHANGED <<ringVars, taskVars, coordVars, writeVars, commitVars, faultVars,
                   hasConcurrentCheckpoint, cpc, valid, delivered>>

releaseSlot ==
    /\ up = "up" /\ fwd = "release"
    /\ ring' = [ring EXCEPT ![nextToForward] =
            [EmptySlot EXCEPT !.task = ring[nextToForward].task, !.prev = ring[nextToForward].prev]]
    /\ nextToForward' = next(nextToForward)
    /\ fwd' = "none"
    /\ UNCHANGED <<nextToAggregate, maxTaskId, mergeThrown, taskVars, coordVars, writeVars,
                   logVars, commitVars, faultVars, hasConcurrentCheckpoint, cpc, valid, delivered>>

----------------------------------------------------------------------------
(* The coordinator: prepareCheckpoint.                                     *)

\* The loop of operator() has the flag; prepareCheckpoint resets the checkpoint.
trigger ==
    /\ up = "up" /\ cpc = "idle" /\ started < MaxCheckpoint
    /\ ~hasConcurrentCheckpoint
    /\ hasConcurrentCheckpoint' = TRUE
    /\ started' = started + 1
    /\ ptrs' = [ptrs EXCEPT !.sIdx = -1, !.eIdx = -1, !.offset = INT_MIN]
    /\ count' = [slots |-> 0, done |-> 0]
    /\ snapshot' = BlankFile
    /\ cpc' = "lock"
    /\ UNCHANGED <<ringVars, taskVars, checkpointId, lastTaskId, marking, readySlots, writes,
                   checkpointCounter, files, logVars, commitVars, faultVars, fwd, valid, delivered>>

\* Both locks are free.
canLock == up = "up" /\ cpc = "lock" /\ fwd = "none" /\ ~mergeThrown

\* "checkpointing has to wait for processing": no result since the last checkpoint.
\* The checkpoint is completed with nothing in it.
prepareIdle ==
    /\ canLock
    /\ lastTaskId = maxTaskId
    /\ checkpointCounter' = checkpointCounter + 1
    /\ cpc' = "wait"
    /\ UNCHANGED <<ringVars, taskVars, coordVars, readySlots, writes, count, files, logVars,
                   commitVars, faultVars, fwd, hasConcurrentCheckpoint, valid, delivered>>

\* Mutant: the slot of the last task is left out.
slotsToMarkShort ==
    LET prevTaskId == ring[prev(nextToForward)].task
    IN  IF prevTaskId >= maxTaskId THEN 0 ELSE maxTaskId - max(prevTaskId, 0) - 1

\* cnt: the slots from m_nextToForward up to the one of the last task.
slotsToMark ==
    LET prevTaskId == ring[prev(nextToForward)].task
    IN  IF prevTaskId >= maxTaskId THEN 0 ELSE maxTaskId - max(prevTaskId, 0)

\* The loop "while (cnt > numOfSlots)" does not change what it computes cnt from.
prepare ==
    LET s == nextToForward IN
    /\ canLock
    /\ lastTaskId # maxTaskId
    /\ ring[s].slot \in {-1, 1, 3}
    /\ lastTaskId' = maxTaskId
    /\ ptrs' = [ptrs EXCEPT !.sIdx = s, !.eIdx = s, !.first = ring[s].task, !.last = maxTaskId]
    /\ marking' = [idx |-> s, cnt |-> slotsToMark, total |-> slotsToMark,
                   late |-> unannounced # {}]
    /\ cpc' = IF slotsToMark > NumberOfSlots THEN "spin" ELSE "mark"
    /\ UNCHANGED <<ringVars, taskVars, checkpointId, snapshot, started, writeVars, logVars,
                   commitVars, faultVars, fwd, hasConcurrentCheckpoint, valid, delivered>>

hasFragments(parts) == parts # P!NoPartials

\* Mutant: the flag of a slot is set whether or not it has something to write.
markSlotEmpty ==
    LET s == marking.idx IN
    /\ up = "up" /\ cpc = "mark" /\ marking.cnt > 0
    /\ ring[s].slot \in {1, 3}
    /\ marking' = [marking EXCEPT !.idx = next(s), !.cnt = @ - 1]
    /\ ring' = [ring EXCEPT ![s].prev = ring[s].slot, ![s].slot = 5]
    /\ snapshot' = [snapshot EXCEPT ![s] = [task |-> ring[s].task, parts |-> ring[s].parts]]
    /\ IF hasFragments(ring[s].parts)
       THEN readySlots' = readySlots \cup {s} /\ count' = [count EXCEPT !.slots = @ + 1]
       ELSE UNCHANGED <<readySlots, count>>
    /\ UNCHANGED <<nextToAggregate, nextToForward, maxTaskId, mergeThrown, taskVars,
                   checkpointId, ptrs, lastTaskId, started, writes, checkpointCounter, files,
                   logVars, commitVars, faultVars, fwd, hasConcurrentCheckpoint, cpc, valid, delivered>>

\* The next slot, once it is published, is marked if it has fragments.
markSlot ==
    LET s == marking.idx IN
    /\ up = "up" /\ cpc = "mark" /\ marking.cnt > 0
    /\ ring[s].slot \in {1, 3}
    /\ marking' = [marking EXCEPT !.idx = next(s), !.cnt = @ - 1]
    /\ IF hasFragments(ring[s].parts)
       THEN /\ ring' = [ring EXCEPT ![s].prev = ring[s].slot, ![s].slot = 5]
            /\ snapshot' = [snapshot EXCEPT ![s] = [task |-> ring[s].task, parts |-> ring[s].parts]]
            /\ readySlots' = readySlots \cup {s}
            /\ count' = [count EXCEPT !.slots = @ + 1]
       ELSE UNCHANGED <<ring, snapshot, readySlots, count>>
    /\ UNCHANGED <<nextToAggregate, nextToForward, maxTaskId, mergeThrown, taskVars,
                   checkpointId, ptrs, lastTaskId, started, writes, checkpointCounter, files,
                   logVars, commitVars, faultVars, fwd, hasConcurrentCheckpoint, cpc, valid, delivered>>

\* All slots are marked: the locks are released and the checkpoint tasks created.
\* The offset is m_freeOffset of the last slot, which counts from the last restart,
\* cut to an int.
startWriting ==
    LET e == prev(marking.idx) IN
    /\ up = "up" /\ cpc = "mark" /\ marking.cnt = 0
    /\ ptrs' = IF marking.total = 0 THEN ptrs
               ELSE [ptrs EXCEPT !.eIdx = e,
                        !.offset = IF ~Lineage THEN @
                                   ELSE IF ring[e].graph THEN toInt(ring[e].task - recoveryOffset)
                                   ELSE INT_MIN]
    /\ checkpointCounter' = checkpointCounter + (IF count.slots = 0 THEN 1 ELSE 0)
    /\ cpc' = "wait"
    /\ UNCHANGED <<ringVars, taskVars, checkpointId, lastTaskId, marking, snapshot, started,
                   readySlots, writes, count, files, logVars, commitVars, faultVars, fwd,
                   hasConcurrentCheckpoint, valid, delivered>>

----------------------------------------------------------------------------
(* Workers write the marked slots: checkpointWithFragments.                *)

\* A worker takes a slot off the queue, copies it and submits the write.
checkpointSlot(s) ==
    /\ up = "up" /\ cpc = "wait" /\ s \in readySlots
    /\ ring[s].slot = 5
    /\ readySlots' = readySlots \ {s}
    /\ writes' = writes \cup {[slot |-> s, prev |-> ring[s].prev, file |-> checkpointId % 2,
                     data |-> [task |-> ring[s].task, parts |-> ring[s].parts], done |-> FALSE]}
    /\ UNCHANGED <<ringVars, taskVars, coordVars, count, checkpointCounter, files, logVars,
                   commitVars, faultVars, fwd, hasConcurrentCheckpoint, cpc, valid, delivered>>

\* The callback: the write is complete and the slot gets its state back.
slotWritten(w) ==
    /\ up = "up" /\ w \in writes /\ ~w.done
    /\ files' = [files EXCEPT ![w.file][w.slot] = w.data]
    /\ ring' = [ring EXCEPT ![w.slot].slot = w.prev]
    /\ writes' = (writes \ {w}) \cup {[w EXCEPT !.done = TRUE]}
    /\ UNCHANGED <<nextToAggregate, nextToForward, maxTaskId, mergeThrown, taskVars, coordVars,
                   readySlots, count, checkpointCounter, logVars, commitVars, faultVars, fwd,
                   hasConcurrentCheckpoint, cpc, valid, delivered>>

\* Mutant: a write counts when it has been submitted.
updateCounterEarly(w) ==
    LET done == count.done + 1 IN
    /\ up = "up" /\ w \in writes
    /\ writes' = writes \ {w}
    /\ count' = [count EXCEPT !.done = done]
    /\ checkpointCounter' = checkpointCounter + (IF done = count.slots THEN 1 ELSE 0)
    /\ UNCHANGED <<ringVars, taskVars, coordVars, readySlots, files, logVars, commitVars,
                   faultVars, fwd, hasConcurrentCheckpoint, cpc, valid, delivered>>

\* Checkpoint::updateCounter, the end of the callback.
updateCounter(w) ==
    LET done == count.done + 1 IN
    /\ up = "up" /\ w \in writes /\ w.done
    /\ writes' = writes \ {w}
    /\ count' = [count EXCEPT !.done = done]
    /\ checkpointCounter' = checkpointCounter + (IF done = count.slots THEN 1 ELSE 0)
    /\ UNCHANGED <<ringVars, taskVars, coordVars, readySlots, files, logVars, commitVars,
                   faultVars, fwd, hasConcurrentCheckpoint, cpc, valid, delivered>>

----------------------------------------------------------------------------
(* The coordinator commits the checkpoint.                                 *)

\* The slots from s to the one before e, in ring order.
between(s, e) == {t \in Slots : (t - s) % NumberOfSlots < (e - s) % NumberOfSlots}

\* All pipelines have checkpointed; the slots of the checkpoint are free again.
persistMetadata ==
    /\ up = "up" /\ cpc = "wait" /\ checkpointCounter = 1
    /\ \A s \in between(ptrs.sIdx, ptrs.eIdx) : ring[s].slot # 5
    /\ metadata' = [ptrs EXCEPT !.offset = -1]
    /\ cpc' = "version"
    /\ UNCHANGED <<ringVars, taskVars, coordVars, writeVars, logVars, version, committed,
                   faultVars, fwd, hasConcurrentCheckpoint, valid, delivered>>

setVersion ==
    /\ up = "up" /\ cpc = "version"
    /\ version' = checkpointId
    /\ committed' = snapshot
    /\ cpc' = "valid"
    /\ UNCHANGED <<ringVars, taskVars, coordVars, writeVars, logVars, metadata, faultVars,
                   fwd, hasConcurrentCheckpoint, valid, delivered>>

setValid ==
    /\ up = "up" /\ cpc = "valid"
    /\ valid' = TRUE
    /\ recovered' = FALSE
    /\ cpc' = IF Lineage THEN "free" ELSE "release"
    /\ UNCHANGED <<ringVars, taskVars, coordVars, writeVars, logVars, commitVars, config, up,
                   crashes, fwd, hasConcurrentCheckpoint, delivered>>

\* The log up to the end of the last task of the checkpoint is freed.
freeLog ==
    /\ up = "up" /\ cpc = "free"
    /\ IF ptrs.offset = INT_MIN THEN UNCHANGED logVars ELSE freePersistent(ptrs.offset)
    /\ cpc' = "release"
    /\ UNCHANGED <<ringVars, taskVars, coordVars, writeVars, commitVars, faultVars, fwd,
                   hasConcurrentCheckpoint, valid, delivered>>

releaseFlag ==
    /\ up = "up" /\ cpc = "release"
    /\ hasConcurrentCheckpoint' = FALSE
    /\ cpc' = "reset"
    /\ UNCHANGED <<ringVars, taskVars, coordVars, writeVars, logVars, commitVars, faultVars,
                   fwd, valid, delivered>>

\* Mutant: the next checkpoint goes to the same file.
resetSameVersion ==
    /\ up = "up" /\ cpc = "reset"
    /\ checkpointCounter' = 0
    /\ cpc' = "idle"
    /\ UNCHANGED <<ringVars, taskVars, coordVars, readySlots, writes, count, files, logVars,
                   commitVars, faultVars, fwd, hasConcurrentCheckpoint, valid, delivered>>

reset ==
    /\ up = "up" /\ cpc = "reset"
    /\ checkpointCounter' = 0
    /\ checkpointId' = checkpointId + 1
    /\ cpc' = "idle"
    /\ UNCHANGED <<ringVars, taskVars, ptrs, lastTaskId, marking, snapshot, started, readySlots,
                   writes, count, files, logVars, commitVars, faultVars, fwd,
                   hasConcurrentCheckpoint, valid, delivered>>

----------------------------------------------------------------------------
(* The process dies and is started again: prepareRecovery, recoverData.    *)

\* Writes that were submitted may have reached the file.  Without lineage the
\* input buffer refuses to recover, so only processes with it are restarted.
Crash ==
    /\ up = "up" /\ crashes < MaxCrash /\ Lineage
    /\ crashes' = crashes + 1
    /\ up' = "down"
    /\ \E landed \in SUBSET {w \in writes : ~w.done} :
          files' = [v \in 0 .. 1 |-> [s \in Slots |->
              IF \E w \in landed : w.file = v /\ w.slot = s
              THEN (CHOOSE w \in landed : w.file = v /\ w.slot = s).data ELSE files[v][s]]]
    /\ ring' = [s \in Slots |-> EmptySlot] /\ nextToAggregate' = 0 /\ nextToForward' = 0
    /\ maxTaskId' = 0 /\ mergeThrown' = FALSE /\ fwd' = "none"
    /\ nextTask' = 1 /\ recoveryOffset' = 0 /\ processing' = {} /\ unannounced' = {}
    /\ hasConcurrentCheckpoint' = FALSE /\ cpc' = "idle" /\ checkpointId' = 0
    /\ ptrs' = NoPtrs /\ lastTaskId' = 0 /\ marking' = NoMarking
    /\ readySlots' = {} /\ writes' = {} /\ count' = [slots |-> 0, done |-> 0]
    /\ checkpointCounter' = 0 /\ prevFreeOffset' = -1 /\ snapshot' = BlankFile
    /\ UNCHANGED <<config, recovered, started, commitVars, valid, startP, delivered>>

\* The checkpoint ends after the first task in the log.
usesCheckpoint == valid /\ startP + 1 <= metadata.last

\* Results that were freed from the log since the checkpoint are skipped.
shift == max(startP + 1 - metadata.first, 0)
startSlot == (metadata.sIdx + shift) % NumberOfSlots
restoredSlots ==
    IF ~usesCheckpoint \/ metadata.eIdx = -1 THEN {}
    ELSE between(startSlot, next(metadata.eIdx))
saved(s) == files[version % 2][s]

\* recoverWithFragments: a slot is ready if it has no partial windows.
restoredSlot(s) ==
    [EmptySlot EXCEPT !.task = saved(s).task, !.parts = saved(s).parts,
                      !.slot = IF P!isReady(saved(s).parts) THEN 3 ELSE 1]

\* A slot that was never written cannot be parsed.
RecoveryFails ==
    /\ up = "down"
    /\ \E s \in restoredSlots : saved(s) = Unwritten
    /\ up' = "failed"
    /\ UNCHANGED <<ringVars, taskVars, coordVars, writeVars, logVars, commitVars, config,
                   crashes, recovered, fwd, hasConcurrentCheckpoint, cpc, valid, delivered>>

\* Mutant: the log is replayed from its first task, as without a checkpoint.
RecoverReplaysAll ==
    /\ up = "down"
    /\ \A s \in restoredSlots : saved(s) # Unwritten
    /\ up' = "up" /\ recovered' = TRUE
    /\ checkpointId' = version
    /\ ptrs' = IF usesCheckpoint
               THEN [metadata EXCEPT !.first = @ + shift, !.sIdx = startSlot] ELSE NoPtrs
    /\ ring' = [s \in Slots |-> IF s \in restoredSlots THEN restoredSlot(s) ELSE EmptySlot]
    /\ nextToForward' = idx(startP + 1)
    /\ nextToAggregate' = nextToForward'
    /\ nextTask' = startP + 1 /\ recoveryOffset' = startP
    /\ UNCHANGED <<maxTaskId, mergeThrown, processing, unannounced, lastTaskId, marking,
                   snapshot, started, writeVars, logVars, commitVars, config, crashes, fwd,
                   hasConcurrentCheckpoint, cpc, valid, delivered>>

\* The start of the log moves past the checkpoint before anything is restored.
\* m_checkpointId is the version that was recovered, so the next one replaces it.
Recover ==
    LET start == IF usesCheckpoint THEN metadata.last ELSE startP
        first == IF usesCheckpoint /\ metadata.eIdx # -1 THEN metadata.first + shift
                 ELSE start + 1
    IN  /\ up = "down"
        /\ \A s \in restoredSlots : saved(s) # Unwritten
        /\ up' = "up" /\ recovered' = TRUE
        /\ checkpointId' = version
        /\ ptrs' = IF ~valid THEN NoPtrs
                   ELSE IF ~usesCheckpoint THEN metadata
                   ELSE [metadata EXCEPT !.first = @ + shift,
                                         !.sIdx = IF shift = 0 THEN @ ELSE startSlot]
        /\ IF usesCheckpoint THEN freePersistent(start) ELSE UNCHANGED logVars
        /\ ring' = [s \in Slots |-> IF s \in restoredSlots THEN restoredSlot(s) ELSE EmptySlot]
        /\ nextToForward' = idx(first) /\ nextToAggregate' = idx(first)
        /\ nextTask' = start + 1 /\ recoveryOffset' = start
        /\ UNCHANGED <<maxTaskId, mergeThrown, processing, unannounced, lastTaskId, marking,
                       snapshot, started, writeVars, commitVars, config, crashes, fwd,
                       hasConcurrentCheckpoint, cpc, valid, delivered>>

Worker ==
    \/ \E id \in TaskIds : publish(id) \/ updateMaximumTaskId(id)
    \/ mergePair \/ mergeThrows
    \/ forward \/ checkValid \/ tryToPurgeCheckpoint \/ freePersistentState \/ releaseSlot
    \/ \E s \in Slots : checkpointSlot(s)
    \/ \E w \in writes : slotWritten(w) \/ updateCounter(w)

Coordinator ==
    \/ prepareIdle \/ prepare \/ markSlot \/ startWriting
    \/ persistMetadata \/ setVersion \/ setValid \/ freeLog \/ releaseFlag \/ reset

Next == Dispatch \/ Worker \/ trigger \/ Coordinator \/ Crash \/ Recover \/ RecoveryFails

Spec == Init /\ [][Next]_vars

\* The threads run; when the timer triggers a checkpoint, when input arrives and
\* whether the process dies are left open.
FairSpec == Spec /\ WF_vars(Dispatch) /\ WF_vars(Worker) /\ WF_vars(Coordinator)

----------------------------------------------------------------------------
(* Properties.                                                             *)

TypeOK ==
    /\ config \in Configs
    /\ \A s \in Slots : /\ ring[s].slot \in {-1, 1, 3, 4, 5} /\ ring[s].prev \in {0, 1, 3}
                        /\ ring[s].task \in TaskIds \cup {-1} /\ ring[s].graph \in BOOLEAN
    /\ {nextToAggregate, nextToForward} \subseteq Slots
    /\ {maxTaskId, lastTaskId, startP, recoveryOffset} \subseteq 0 .. MaxTask
    /\ nextTask \in 1 .. MaxTask + 1
    /\ processing \cup unannounced \subseteq TaskIds
    /\ fwd \in {"none", "check", "purge", "free", "release"}
    /\ cpc \in {"idle", "lock", "mark", "spin", "wait", "version", "valid", "free",
                "release", "reset"}
    /\ {mergeThrown, hasConcurrentCheckpoint, valid, recovered} \subseteq BOOLEAN
    /\ up \in {"up", "down", "failed"}
    /\ readySlots \subseteq Slots
    /\ count.slots \in 0 .. NumberOfSlots /\ count.done \in 0 .. NumberOfSlots
    /\ checkpointCounter \in 0 .. 1
    /\ {checkpointId, version, started} \subseteq 0 .. MaxCheckpoint
    /\ prevFreeOffset \in -1 .. MaxTask

\* The contributions of batch id to windows, in one slot, in a list of windows.
flatten(lists) == UNION {lists[i] : i \in DOMAIN lists}
contributions(parts) ==
    UNION {flatten(parts.closing), flatten(parts.pending), flatten(parts.opening),
           flatten(parts.complete)}
held(slots) == UNION {contributions(slots[s].parts) : s \in Slots}

\* prepareCheckpoint takes a consistent cut: when the slots are marked, every
\* contribution of a task up to m_lastTaskId is in a slot that will be written or
\* has been forwarded, whatever was merged into which slot in the meantime, and
\* no window has contributions in both.  Not so when a worker has published its
\* slot and not yet called updateMaximumTaskId: the windows of earlier tasks may
\* have been merged into that slot, which the checkpoint leaves out.
SnapshotIsACut ==
    cpc = "mark" /\ marking.cnt = 0 /\ ~marking.late /\ crashes = 0 =>
        LET sent == flatten(delivered) IN
        /\ UNION {contributions(fragmentsOf(id)) : id \in 1 .. ptrs.last}
              \subseteq held(snapshot) \cup sent
        /\ \A c \in held(snapshot) \cap sent : c[1] = P!AnyWindow

\* The callbacks give every slot its state back before the checkpoint is over:
\* no slot is kept from merging and forwarding by a checkpoint that has ended.
NoSlotLeftMarked ==
    cpc \in {"idle", "release", "reset"} =>
        /\ \A s \in Slots : ring[s].slot # 5
        /\ readySlots = {} /\ writes = {}

\* Double buffering: while a checkpoint is valid its file holds what its slots
\* held when they were marked, also while the next checkpoint is being written
\* and after a crash that loses some of its writes.  Not so for the first
\* checkpoint after a recovery, which is written over the one recovered from.
CommittedIntact ==
    valid /\ ~recovered /\ cpc \notin {"version", "valid"} =>
        \A s \in Slots : committed[s] # Unwritten => files[version % 2][s] = committed[s]

\* In a process that has not been restarted no merge fails: the checkpoint does
\* not disturb the order in which slots become ready.
MergesSucceed == mergeThrown => crashes > 0

\* tryToPurgeCheckpoint invalidates a checkpoint only when its last result has
\* been forwarded (in a process that has not been restarted, and unless the
\* checkpoint was taken when there was nothing to take).  Not so from the offset
\* 2^31 on: the int it is stored in is negative, and any result purges the
\* checkpoint.
PurgedWhenForwarded ==
    [][valid /\ ~valid' /\ crashes = 0 /\ metadata.sIdx # -1 /\ metadata.last < Width
         => ring[nextToForward].task >= metadata.last]_vars

\* The checkpoint in persistent memory describes itself: it was taken when there
\* were results, its first slot was published and all slots had fragments.
Sound ==
    /\ valid /\ ~recovered /\ metadata.sIdx # -1
    /\ metadata.first > 0 /\ idx(metadata.first) = metadata.sIdx
    /\ \A id \in metadata.first .. metadata.last : committed[idx(id)].task = id

\* Recovery from such a checkpoint that the log has not been freed up to: the
\* slots are those of the tasks after the start of the log, as they were when
\* the checkpoint was taken; the replay starts right after its last task.
RestoredAsWritten ==
    [][up = "down" /\ up' = "up" /\ Sound /\ usesCheckpoint =>
         /\ nextTask' = metadata.last + 1
         /\ nextToForward' = idx(max(metadata.first, startP + 1))
         /\ \A id \in max(metadata.first, startP + 1) .. metadata.last :
               /\ ring'[idx(id)].task = id
               /\ ring'[idx(id)].parts = committed[idx(id)].parts]_vars

\* The states a checkpoint does not get out of: a worker that holds m_forwardLock
\* waits for the flag while the coordinator that has the flag waits for the
\* lock; a merge has failed; after a restart, when the slot before the first has
\* no task id, cnt is counted from task 1 on, and the loop over cnt does not end
\* or the coordinator waits, with both locks, for a slot that no task fills.
Wedged ==
    \/ cpc = "lock" /\ fwd = "purge"
    \/ cpc = "lock" /\ mergeThrown
    \/ cpc = "spin"
    \/ crashes > 0 /\ cpc = "mark" /\ marking.cnt > 0 /\ ring[marking.idx].slot = -1

\* "Scabbard ... supports exactly-once fault-tolerance semantics": no result is
\* lost by a crash.  Every contribution of a task before m_nextTask is in a slot
\* or has been forwarded.
NoResultLost ==
    up = "up" =>
        UNION {contributions(fragmentsOf(id)) : id \in (1 .. nextTask - 1) \ processing}
            \subseteq held(ring) \cup flatten(delivered)
============================================================================
