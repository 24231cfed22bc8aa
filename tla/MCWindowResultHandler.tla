----------------------- MODULE MCWindowResultHandler -----------------------
(***************************************************************************)
(* The window-aggregating result handler for TLC.  A window is given by    *)
(* the batch that opens it and the batch that closes it.                   *)
(***************************************************************************)
EXTENDS WindowResultHandler, TLC

WorkerSymmetry == Permutations(Workers)

window(first, last) == [first |-> first, last |-> last]

\* Sliding windows almost as long as a batch, three of which start in each: two of
\* them end in the next batch.
SlidingWindows ==
    << window(1, 1), window(1, 2), window(1, 2),
       window(2, 2), window(2, 3), window(2, 3),
       window(3, 3), window(3, 4), window(3, 4),
       window(4, 4), window(4, 5), window(4, 5),
       window(5, 5), window(5, 6), window(5, 6),
       window(6, 6), window(6, 7), window(6, 7) >>

\* Tumbling windows of two and a half batches.  A window is closed by the first
\* tuple after it, so the second one is closed in the sixth batch.
TumblingWindows == << window(1, 3), window(3, 6), window(6, 8) >>

\* Tumbling windows of half a batch: there are no fragments to merge.
HalfWindows ==
    << window(1, 1), window(1, 1), window(2, 2), window(2, 2),
       window(3, 3), window(3, 3), window(4, 4), window(4, 4),
       window(5, 5), window(5, 5), window(6, 6), window(6, 6) >>

\* Sliding windows a little longer than a batch, two of which start in each: both
\* end in the next batch.
PendingWindows ==
    << window(1, 2), window(1, 2), window(2, 3), window(2, 3),
       window(3, 4), window(3, 4) >>

\* Sliding windows almost as long as two batches, two of which start in each: one
\* ends in the next batch and the other in the one after it.
LongWindows ==
    << window(1, 2), window(1, 3), window(2, 3), window(2, 4), window(3, 4),
       window(3, 5), window(4, 5), window(4, 6) >>

slidingQuery(windows, batches) ==
    [windows |-> windows, sliding |-> TRUE, batches |-> batches]
tumblingQuery(windows, batches) ==
    [windows |-> windows, sliding |-> FALSE, batches |-> batches]

\* With a spare slot in the ring of four, and one with as many slots as batches.
SupportedQueries ==
    {slidingQuery(SlidingWindows, 3), tumblingQuery(TumblingWindows, 3),
     tumblingQuery(HalfWindows, 3), tumblingQuery(TumblingWindows, 4)}
LongQueries == {slidingQuery(LongWindows, 3)}
PendingQueries == {slidingQuery(PendingWindows, 3)}
============================================================================
