------------------------ MODULE CircularQueryBuffer ------------------------
(***************************************************************************)
(* The circular input buffer of one stream: buffers/QueryBuffer.h and      *)
(* buffers/CircularQueryBuffer.h of LightSaber.  One thread puts           *)
(* (the source, or the worker that forwards an upstream result) while      *)
(* whichever worker holds the forward lock frees.                          *)
(*                                                                         *)
(* The stream is abstracted to its offsets: mem[i] is the stream offset of *)
(* the unit last copied to index i.  The counters m_bytesProcessed (always *)
(* equal to startP) and m_tuplesProcessed are measurements and left out,   *)
(* as is the lineage slot table (LINEAGE_ON is false here).                *)
(***************************************************************************)
EXTENDS Integers

CONSTANTS
    Capacity,          \* m_capacity, after upper_power_of_two
    CopyDataOnInsert   \* m_copyDataOnInsert: FALSE replays the first lap

ASSUME CapacityAssumption ==
    /\ Capacity \in Nat \ {0}
    /\ CopyDataOnInsert \in BOOLEAN

VARIABLES
    startP,          \* m_startP: first stream offset not yet freed
    endP,            \* m_endP: first stream offset not yet published
    temp,            \* m_temp: the producer's cached copy of startP
    wraps,           \* m_wraps: completed laps, counted by put
    mem,             \* m_buffer: index |-> stream offset stored there
    tasksProcessed   \* m_tasksProcessed: calls of free

bufferVars == <<startP, endP, temp, wraps, mem, tasksProcessed>>

Index == 0 .. Capacity - 1
Unwritten == -1

\* Capacity is a power of two, so the code's "index & m_mask" is the remainder.
normalise(index) == index % Capacity

BufferInit ==
    /\ startP = 0
    /\ endP = 0
    /\ temp = 0
    /\ wraps = 0
    /\ mem = [i \in Index |-> Unwritten]
    /\ tasksProcessed = 0

----------------------------------------------------------------------------
(* put, first half: the admission test.                                    *)

\* Mutant: room for one unit is taken for room for all of them.
wrapPointIgnoresLength(bytes) == endP - Capacity

wrapPoint(bytes) == (endP + bytes - 1) - Capacity

\* The start pointer put compares with: the cached one when it suffices.
freshTemp(bytes) == IF temp <= wrapPoint(bytes) THEN startP ELSE temp

\* The test passes; space for bytes is reserved.
putAdmit(bytes) ==
    /\ freshTemp(bytes) > wrapPoint(bytes)
    /\ temp' = freshTemp(bytes)
    /\ UNCHANGED <<startP, endP, wraps, mem, tasksProcessed>>

\* The buffer is full: put returns -1, with the cache refreshed.
putReject(bytes) ==
    /\ freshTemp(bytes) <= wrapPoint(bytes)
    /\ temp' = freshTemp(bytes)
    /\ UNCHANGED <<startP, endP, wraps, mem, tasksProcessed>>

(* put, second half: the copy (in two parts when it crosses the end of the *)
(* buffer) and the publication of the new end pointer.                     *)

\* Mutant: the second part of the copy starts from the first value again.
copiedWithoutAdvance(bytes) ==
    LET index == normalise(endP)
        right == Capacity - index
    IN  [i \in Index |->
            IF index <= i /\ i < index + bytes
            THEN endP + (i - index)
            ELSE IF bytes > right /\ i < bytes - right
                 THEN endP + i
                 ELSE mem[i]]

copied(bytes) ==
    LET index == normalise(endP)
        right == Capacity - index
    IN  [i \in Index |->
            IF index <= i /\ i < index + bytes
            THEN endP + (i - index)
            ELSE IF bytes > right /\ i < bytes - right
                 THEN endP + right + i
                 ELSE mem[i]]

putCopy(bytes) ==
    /\ mem' = IF CopyDataOnInsert \/ wraps = 0 THEN copied(bytes) ELSE mem
    /\ wraps' = IF normalise(endP + bytes) <= normalise(endP)
                THEN wraps + 1 ELSE wraps
    /\ endP' = endP + bytes
    /\ UNCHANGED <<startP, temp, tasksProcessed>>

----------------------------------------------------------------------------
(* free(offset): offset is the last index that is given back.              *)

\* Mutant: the unit at offset itself is not counted.
freedBytesShort(offset) ==
    LET index == normalise(startP)
    IN  IF offset <= index THEN Capacity - index + offset
                           ELSE offset - index

freedBytes(offset) ==
    LET index == normalise(startP)
    IN  IF offset <= index THEN Capacity - index + offset + 1
                           ELSE offset - index + 1

free(offset) ==
    /\ startP' = startP + freedBytes(offset)
    /\ tasksProcessed' = tasksProcessed + 1
    /\ UNCHANGED <<endP, temp, wraps, mem>>

============================================================================
