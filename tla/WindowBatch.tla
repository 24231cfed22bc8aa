----------------------------- MODULE WindowBatch -----------------------------
(***************************************************************************)
(* The window pointers of a task: initPartialWindowPointers of             *)
(* tasks/WindowBatch.cpp cuts a batch into panes and says, window by       *)
(* window, at which tuple of the batch it opens and at which it closes.    *)
(* The arrays start at the first window that has something to do with the  *)
(* batch, which the loop does not know until it has met it: it moves the   *)
(* entries up when a window closes that opened before those already there. *)
(*                                                                         *)
(* Pointers are counted in tuples from the start of the stream, for a      *)
(* stream that fits the buffer.                                            *)
(***************************************************************************)
EXTENDS Integers, Sequences, SequencesExt

CONSTANTS
    Definitions,     \* window definitions: [size, slide, range]
    PARTIAL_WINDOWS, \* the length of the two arrays
    BatchSizes, Gaps,\* tuples of a batch; distances of successive timestamps
    MaxTuples        \* bound: tuples of the stream

VARIABLES
    definition, batchSize,
    stamps,          \* the timestamps of the tuples, batch by batch
    pointers         \* what the task of the last batch has computed

vars == <<definition, batchSize, stamps, pointers>>

----------------------------------------------------------------------------
(* WindowDefinition.                                                       *)

gcd(a, b) == Max({d \in 1 .. a : a % d = 0 /\ b % d = 0})
getPaneSize == gcd(definition.size, definition.slide)
numberOfPanes == definition.size \div getPaneSize
panesPerSlide == definition.slide \div getPaneSize

----------------------------------------------------------------------------

Indices == 0 .. PARTIAL_WINDOWS - 1
resetWindowPointers ==
    [start |-> [i \in Indices |-> -1], end |-> [i \in Indices |-> -1], last |-> 0, offset |-> -1,
     openings |-> 0, closings |-> 0, pid |-> -1, failed |-> FALSE]

\* Entries 0 .. last move up by delta.
shiftDown(s, delta) ==
    LET moved(f) == [i \in Indices |-> IF i < delta THEN -1
                                       ELSE IF i - delta <= s.last THEN f[i - delta] ELSE f[i]]
    IN  IF s.last + delta \in Indices
        THEN [s EXCEPT !.start = moved(@), !.end = moved(@), !.last = @ + delta]
        ELSE [s EXCEPT !.failed = TRUE]

\* Mutant: the order of the entries is left as it is when a window closes late.
closeWindowNoShift(s, first, p, ptr) ==
    LET pane == p - numberOfPanes
        wid == pane \div panesPerSlide
        t == IF s.offset < 0 THEN [s EXCEPT !.offset = wid] ELSE s
        index == Max({0, wid - t.offset})
    IN  IF pane < 0 \/ pane % panesPerSlide # 0 THEN s
        ELSE [t EXCEPT !.end[index] = ptr, !.closings = @ + 1, !.last = Max({@, index})]

\* A window closes at pane p; first says that this is the first batch.
closeWindow(s, first, p, ptr) ==
    LET pane == p - numberOfPanes
        wid == pane \div panesPerSlide
        t == IF s.offset < 0 THEN [s EXCEPT !.offset = wid]
             ELSE IF s.closings = 0 /\ ~first
             THEN [shiftDown(s, s.offset - wid) EXCEPT !.offset = wid]
             ELSE s
        index == wid - t.offset
    IN  IF pane < 0 \/ pane % panesPerSlide # 0 THEN s
        ELSE IF t.failed \/ index \notin Indices THEN [s EXCEPT !.failed = TRUE]
        ELSE [t EXCEPT !.end[index] = ptr, !.closings = @ + 1,
                       !.start[index] = IF @ < 0 /\ first THEN 0 ELSE @,
                       !.last = Max({@, index})]

openWindow(s, p, ptr) ==
    LET wid == p \div panesPerSlide
        t == IF s.offset < 0 THEN [s EXCEPT !.offset = wid] ELSE s
        index == wid - t.offset
    IN  IF p % panesPerSlide # 0 THEN s
        ELSE IF index \notin Indices THEN [s EXCEPT !.failed = TRUE]
        ELSE [t EXCEPT !.start[index] = ptr, !.openings = @ + 1, !.last = Max({@, index})]

\* The panes between that of the tuple before and that of this one.
visitTuple(s, first, pid, ptr) ==
    LET visit(t, p) == IF t.failed THEN t ELSE openWindow(closeWindow(t, first, p, ptr), p, ptr)
    IN  [FoldLeft(visit, s, [i \in 1 .. pid - s.pid |-> s.pid + i]) EXCEPT !.pid = Max({@, pid})]

\* No window closes: a window of an earlier batch is put first, as pending.
addPending(s, first) ==
    IF s.openings > 0 /\ s.closings = 0 /\ ~first THEN shiftDown(s, 1)
    ELSE IF s.openings = 0 /\ s.closings = 0 THEN [s EXCEPT !.last = 0] ELSE s

initPartialRangeBasedWindowPointers(times, start, end) ==
    LET pid(p) == times[p + 1] \div getPaneSize
        s == [resetWindowPointers EXCEPT !.pid = IF start = 0 THEN -1 ELSE pid(start - 1),
                                         !.offset = IF start = 0 THEN 0 ELSE -1]
        visit(t, p) == visitTuple(t, start = 0, pid(p), p)
    IN  addPending(FoldLeft(visit, s, [i \in 1 .. end - start |-> start + i - 1]), start = 0)

initPartialCountBasedWindowPointers(start, end) ==
    LET s == [resetWindowPointers EXCEPT !.pid = IF start = 0 THEN -1 ELSE start \div getPaneSize - 1,
                                         !.offset = IF start = 0 THEN 0 ELSE -1]
        visit(t, p) == visitTuple(t, start = 0, p \div getPaneSize, p)
    IN  addPending(FoldLeft(visit, s, [i \in 1 .. end - start |-> start + i - 1]), start = 0)

initPartialWindowPointers(times, start, end) ==
    IF definition.range THEN initPartialRangeBasedWindowPointers(times, start, end)
    ELSE initPartialCountBasedWindowPointers(start, end)

----------------------------------------------------------------------------

Init ==
    /\ definition \in Definitions /\ batchSize \in BatchSizes
    /\ stamps = <<>> /\ pointers = resetWindowPointers

\* A batch of tuples arrives, and its task looks for the windows.
nextBatch(gaps) ==
    LET last == IF stamps = <<>> THEN 0 ELSE Last(stamps)
        sum[i \in 0 .. batchSize] == IF i = 0 THEN last ELSE sum[i - 1] + gaps[i]
        times == stamps \o [i \in 1 .. batchSize |-> sum[i]]
    IN  /\ Len(stamps) + batchSize <= MaxTuples
        /\ stamps' = times
        /\ pointers' = initPartialWindowPointers(times, Len(stamps), Len(times))
        /\ UNCHANGED <<definition, batchSize>>

Next == \E gaps \in [1 .. batchSize -> Gaps] :
            (definition.range \/ \A i \in 1 .. batchSize : gaps[i] = 0) /\ nextBatch(gaps)

Spec == Init /\ [][Next]_vars

----------------------------------------------------------------------------

\* The time of the tuple at position p: -1 before the stream.
timeOf(p) == IF p < 0 THEN -1 ELSE IF definition.range THEN stamps[p + 1] ELSE p
BatchTuples == Len(stamps) - batchSize .. Len(stamps) - 1

\* Where time t is passed in the last batch, -1 if it is not.
passed(t) ==
    LET at == {p \in BatchTuples : timeOf(p - 1) < t /\ timeOf(p) >= t}
    IN  IF at = {} THEN -1 ELSE Min(at)
opened(w) == passed(w * definition.slide)
closed(w) == passed(w * definition.slide + definition.size)

\* The arrays say of every window that opens or closes in the batch where it
\* does, window by window in order and with no window left out, from the first
\* one on; a batch in which none closes begins with an entry for those that are
\* pending.  Batches of rows are a whole number of panes.
BoundariesExact ==
    stamps # <<>> /\ (definition.range \/ batchSize % getPaneSize = 0) /\ ~pointers.failed =>
        LET touched == {w \in 0 .. timeOf(Len(stamps) - 1) : opened(w) >= 0 \/ closed(w) >= 0}
            closing == {w \in touched : closed(w) >= 0}
            first == IF touched = {} THEN 0 ELSE Min(touched)
            n == IF touched = {} THEN 0 ELSE Max(touched) - first + 1
            pending == IF Len(stamps) > batchSize /\ closing = {} /\ touched # {} THEN 1 ELSE 0
        IN  /\ pointers.last = Max({0, n + pending - 1})
            /\ \A i \in Indices :
                 LET w == first + i - pending
                     known == i >= pending /\ i < n + pending
                 IN  /\ pointers.start[i] = IF known THEN opened(w) ELSE -1
                     /\ pointers.end[i] = IF known THEN closed(w) ELSE -1
=============================================================================
