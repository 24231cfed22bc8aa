-------------------------- MODULE WindowComputation --------------------------
(***************************************************************************)
(* A query over a stream, batch by batch: a task runs the generated kernel *)
(* (WindowKernels) and its fragments are merged, in the order of the tasks,*)
(* with those of the batch before it (PartialResultSlot).  This composes   *)
(* the two; that the batches are merged in order, whichever worker runs    *)
(* them, is shown of WindowResultHandler.                                  *)
(***************************************************************************)
EXTENDS WindowKernels

CONSTANTS
    UsePtrs, PartialWindows,     \* of PartialResultSlot
    Queries,                     \* the queries, of windows of whole slides, and
    BatchSizes,                  \* the numbers of tuples of a batch to look at
    MaxBatch                     \* bound: batches of the stream

S == INSTANCE PartialResultSlot

VARIABLES
    cql, batchSize,
    batches,         \* batches computed so far
    computed,        \* the fragments of the last one
    slot,            \* the slot whose opening windows wait for the next batch
    output,          \* the windows given to the next query
    thrown           \* aggregate has thrown

vars == <<cql, batchSize, batches, computed, slot, output, thrown>>

noFragments ==
    [closing |-> <<>>, pending |-> <<>>, opening |-> <<>>, complete |-> <<>>, filled |-> FALSE]

Init ==
    /\ cql \in Queries /\ batchSize \in BatchSizes
    /\ batches = 0 /\ computed = noFragments /\ slot = noFragments
    /\ output = <<>> /\ thrown = FALSE

\* Batch k, counted from 0.  The tuple behind it is the next one of the stream,
\* or one of an earlier round of the ring when the producer is not yet there.
batchOf(k, stale) ==
    [start |-> k * batchSize, end |-> (k + 1) * batchSize, stale |-> stale, wraps |-> FALSE]

\* The task of the next batch, and the merge of its result.  A stream in which a
\* kernel has met an empty pane is not followed: what is filled in is not modelled.
computeBatch(stale) ==
    /\ batches < MaxBatch /\ ~thrown /\ ~computed.filled
    /\ \E next \in {processData(cql, batchOf(batches, stale))} :
        /\ computed' = next /\ batches' = batches + 1
        /\ thrown' = S!aggregateThrows(slot, next)
        /\ output' = IF thrown' THEN output
                     ELSE output \o S!aggregateCurrent(slot, next).complete
        /\ slot' = IF thrown' THEN slot ELSE S!aggregateNext(slot, next)
    /\ UNCHANGED <<cql, batchSize>>

Next == \E stale \in BOOLEAN : (cql.range \/ ~stale) /\ computeBatch(stale)

Spec == Init /\ [][Next]_vars
----------------------------------------------------------------------------

\* The window that begins at time w * slide, as the query defines it.
window(w) ==
    {<<p, 1>> : p \in {p \in Tuples : /\ belongs(cql, p)
                                      /\ timeAt(cql, p) >= w * cql.slide
                                      /\ timeAt(cql, p) < w * cql.slide + cql.size}}

paneTuples == cql.slide * cql.rate

\* The selection of a range query hides no boundary: the first tuple of every slide
\* and of every batch passes.  Where it does not, a window is closed late, or by
\* no batch at all, as the kernel skips the tuple that would have shown its end.
BoundariesPass ==
    cql.range /\ ~cql.grouped => paneTuples % cql.every = 0 /\ batchSize % cql.every = 0

\* The queries for which the kernels find exactly the windows that lie within a
\* batch: the batch is larger than the window and ends between two timestamps;
\* a tumbling range query meets one such window in a batch; panes have more than
\* one tuple; a group of a sliding query appears in every pane; and BoundariesPass.
BatchHoldsWindow ==
    /\ cql.size * cql.rate < batchSize /\ BoundariesPass
    /\ cql.range => batchSize % cql.rate = 0
    /\ cql.range /\ tumbling(cql) => batchSize <= 2 * cql.size * cql.rate - cql.rate
    /\ ~tumbling(cql) => paneTuples >= 2 /\ (cql.grouped => cql.every <= paneTuples)

\* The first window that begins in the last batch.
firstWindow == (timeAt(cql, (batches - 1) * batchSize) + cql.slide - 1) \div cql.slide

\* Of these queries the windows within a batch are computed by its task alone, each
\* from exactly its tuples, in order and none left out, with the tree or without;
\* the one that ends where the batch does may be left to the next batch.  The code
\* for empty windows is never taken.
CompleteWindowsExact ==
    batches > 0 /\ BatchHoldsWindow =>
        LET found == computed.complete
            due == {w \in firstWindow .. firstWindow + batchSize :
                      w * cql.slide + cql.size <= timeAt(cql, batches * batchSize - 1)}
        IN  /\ \A i \in DOMAIN found : found[i] = window(firstWindow + i - 1)
            /\ Len(found) \in {Cardinality(due), Cardinality(due) + 1}
            /\ ~computed.filled

\* The queries whose windows come out whole: tumbling windows of which batches
\* hold two or more, or which are longer than a batch; sliding windows of two
\* panes, with batches of whole panes (of whole windows for MIN and MAX); and
\* BoundariesPass.
MergeExact ==
    BoundariesPass /\
    IF tumbling(cql)
    THEN \/ batchSize < cql.size
         \/ ~cql.range /\ batchSize % cql.size = 0 /\ batchSize >= 2 * cql.size
    ELSE /\ ~cql.range /\ cql.size = 2 * cql.slide /\ cql.slide >= 2
         /\ batchSize > cql.size
         /\ batchSize % (IF cql.invertible THEN cql.slide ELSE cql.size) = 0
         /\ cql.grouped => cql.every <= cql.slide

\* Of these queries, with a timestamp per tuple, every window that the batches cut
\* comes out once, in order, computed from exactly its tuples; the merge of
\* fragments does not throw; and no window that ended before the last batch is
\* still missing.
WindowsExact ==
    MergeExact /\ cql.rate = 1 =>
        /\ ~thrown /\ ~computed.filled
        /\ \A i \in DOMAIN output : output[i] = window(i - 1)
        /\ batches > 0 =>
             Len(output) >= Cardinality({w \in 0 .. batches * batchSize :
                              w * cql.slide + cql.size < (batches - 1) * batchSize})
=============================================================================
