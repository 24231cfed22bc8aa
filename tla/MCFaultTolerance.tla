--------------------------- MODULE MCFaultTolerance ---------------------------
(***************************************************************************)
(* Model checking of the parts that make the engine survive a crash, each  *)
(* on its own: the checkpoint coordinator with the slots of a result       *)
(* handler (Checkpoint), the persistent input buffer with the files of its *)
(* log (PersistentBuffer, BlockManager) and the lineage of a pipeline      *)
(* (Lineage, extended here).  A behaviour is one of one part: `part` says  *)
(* which, and the variables of the others keep their initial values.       *)
(***************************************************************************)
EXTENDS Lineage

CONSTANTS
    NumberOfSlots, Batches, MaxTask, MaxCheckpoint, MaxCrash,    \* Checkpoint
    LogSlots, LogFiles, MaxBatch, MaxLogCrash                    \* PersistentBuffer

VARIABLES
    part,
    config, ring, nextToAggregate, nextToForward, maxTaskId, mergeThrown, fwd, nextTask,
    recoveryOffset, processing, unannounced, hasConcurrentCheckpoint, cpc, checkpointId, ptrs,
    lastTaskId, marking, readySlots, writes, count, checkpointCounter, prevFreeOffset, files,
    metadata, version, valid, startP, up, delivered, crashes, started, snapshot, committed,
    recovered,
    slotFlag, memory, memcpyFinished, emptySlots, nextSlotToWrite, nextPersistentSlot, readerSlot,
    nextFreeSlot, endPtr, startPtr, cachedStart, dpc, inserting, writing, list, fpc, disk,
    rootStart, rootEnd, trimmed, slotsToRecover, slotsToFree, logOffset, input, log, logCrashes,
    number, raced

\* Three batches, two windows, with and without lineage; an int holds the offsets of
\* all batches but the last.
W(f, l) == [first |-> f, last |-> l]
Configs == {[lineage |-> b, windows |-> <<W(1, 2), W(3, 3)>>, width |-> 3] : b \in BOOLEAN}

C == INSTANCE Checkpoint
L == INSTANCE PersistentBuffer

checkpointVars ==
    <<config, ring, nextToAggregate, nextToForward, maxTaskId, mergeThrown, fwd, nextTask,
      recoveryOffset, processing, unannounced, hasConcurrentCheckpoint, cpc, checkpointId, ptrs,
      lastTaskId, marking, readySlots, writes, count, checkpointCounter, prevFreeOffset, files,
      metadata, version, valid, startP, up, delivered, crashes, started, snapshot, committed,
      recovered>>
bufferVars ==
    <<slotFlag, memory, memcpyFinished, emptySlots, nextSlotToWrite, nextPersistentSlot,
      readerSlot, nextFreeSlot, endPtr, startPtr, cachedStart, dpc, inserting, writing, list, fpc,
      disk, rootStart, rootEnd, trimmed, slotsToRecover, slotsToFree, logOffset, input, log,
      logCrashes, number, raced>>
allVars == <<part, checkpointVars, bufferVars, vars>>

MCInit ==
    /\ part \in {"checkpoint", "buffer", "lineage"}
    /\ C!Init /\ L!Init /\ Init
    /\ part # "checkpoint" => config = CHOOSE c \in Configs : TRUE

InCheckpoint(A) == part = "checkpoint" /\ A /\ UNCHANGED <<part, bufferVars, vars>>
InBuffer(A) == part = "buffer" /\ A /\ UNCHANGED <<part, checkpointVars, vars>>
InLineage(A) == part = "lineage" /\ A /\ UNCHANGED <<part, checkpointVars, bufferVars>>

MCNext == InCheckpoint(C!Next) \/ InBuffer(L!Next) \/ InLineage(Next)

MCSpec == MCInit /\ [][MCNext]_allVars

\* The fairness of the parts: their threads run, the disk answers.
Fairness ==
    /\ WF_allVars(InCheckpoint(C!Dispatch)) /\ WF_allVars(InCheckpoint(C!Worker))
    /\ WF_allVars(InCheckpoint(C!Coordinator))
    /\ WF_allVars(InBuffer(L!putFull \/ L!putChoose \/ L!putCreate \/ L!putThrows))
    /\ WF_allVars(InBuffer(L!tryConsumeNextSlot)) /\ WF_allVars(InBuffer(L!LogWorker))
    /\ WF_allVars(InBuffer(L!recover \/ L!recoverAcknowledges)) /\ WF_allVars(InBuffer(L!recoverData))

FairSpec == MCSpec /\ Fairness

----------------------------------------------------------------------------
(* The properties of the parts; their meaning is explained there.          *)

\* The type invariants of the three parts; that of Lineage is part of its
\* inductive invariant.
TypesOK ==
    CASE part = "checkpoint" -> C!TypeOK [] part = "buffer" -> L!TypeOK [] part = "lineage" -> IInv

\* prepareCheckpoint marks a consistent cut of the windows.
SnapshotIsACut == part = "checkpoint" => C!SnapshotIsACut
\* checkpointWithFragments' callbacks give every slot back.
NoSlotLeftMarked == part = "checkpoint" => C!NoSlotLeftMarked
\* The file of the valid checkpoint is not written over.
CommittedIntact == part = "checkpoint" => C!CommittedIntact
\* A checkpoint makes no merge fail.
MergesSucceed == part = "checkpoint" => C!MergesSucceed
\* tryToPurgeCheckpoint invalidates only what has been forwarded.
PurgedWhenForwarded == C!PurgedWhenForwarded
\* prepareRecovery restores the slots of the checkpoint.
RestoredAsWritten == C!RestoredAsWritten
\* Exactly-once: a crash loses no result.
NoResultLost == part = "checkpoint" => C!NoResultLost

\* tryToAcknowledge acknowledges only what is in the log.
AcknowledgedIsLogged == part = "buffer" => L!AcknowledgedIsLogged
\* Tasks are made of logged batches, and read them unchanged.
TasksReadTheLog == part = "buffer" => L!TasksReadTheLog
\* A replay ends where the input goes on.
ReplayMeetsInput == part = "buffer" => L!ReplayMeetsInput
\* createInsertionTask never waits for its slot, and getFilePtr throws only when it
\* races with freePersistent.
PutSucceeds == part = "buffer" => L!PutSucceeds

\* The coordinator has triggered a checkpoint and is in none of the states it
\* does not get out of; put has more input for the buffer.
Waiting ==
    CASE part = "checkpoint" -> hasConcurrentCheckpoint /\ ~C!Wedged
      [] part = "buffer"     -> log = "up" /\ input < MaxBatch
      [] part = "lineage"    -> FALSE

\* A checkpoint that is triggered is committed, unless the process dies or the
\* coordinator is wedged; and the source is never shut out of the buffer: tasks
\* are freed in order and a full buffer still acknowledges, so that put returns
\* until the input ends.
WaitingEnds == Waiting ~> ~Waiting
===============================================================================
