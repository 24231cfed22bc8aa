---------------------------- MODULE WindowKernels ----------------------------
(***************************************************************************)
(* processData, the function OperatorKernel.h generates for a window       *)
(* aggregation: one batch in, the fragments of the windows in it out.      *)
(* There are four: tumbling or sliding, windows of rows or ranges of time. *)
(*                                                                         *)
(* A query q is [size, slide, range, grouped, invertible, rate, every]:    *)
(* rate is how many tuples share a timestamp (the stream has no gaps), and *)
(* every every-th tuple belongs to the group we look at or, of a query     *)
(* without groups, passes the selection.  A batch b is [start, end, stale, *)
(* wraps]: positions of the stream, whether the tuples after it, at which  *)
(* the range kernels look, are still old ones, and whether it ends where   *)
(* the ring does.                                                          *)
(* Values are those of AggregationTree: how often each tuple is counted.   *)
(***************************************************************************)
EXTENDS AggregationTree, SequencesExt

paneSize(q) == Max({d \in 1 .. q.slide : q.slide % d = 0 /\ q.size % d = 0})
panesPerSlide(q) == q.slide \div paneSize(q)
tumbling(q) == q.size = q.slide
panesPerWindow(q) == q.size \div paneSize(q)

\* The row number or the timestamp of the tuple at position p.
timeAt(q, p) == IF q.range THEN p \div q.rate ELSE p
paneAt(q, b, p) ==
    IF q.range /\ b.stale /\ p >= b.end THEN 0 ELSE timeAt(q, p) \div paneSize(q)

----------------------------------------------------------------------------
(* The start of a batch: the panes at which the last window has opened and *)
(* the next one to close or to be complete has opened.                     *)

aligned(q, b) == timeAt(q, b.start) % q.slide = 0
floorSlide(q, b) == (timeAt(q, b.start) \div q.slide) * q.slide
startPane(q, b) == paneAt(q, b, b.start)

hasComplete(q, b) ==
    IF q.range THEN timeAt(q, b.end - 1) - timeAt(q, b.start) >= q.size
    ELSE b.end - b.start >= q.size

\* Back slide by slide from the start of the batch, to the first t for which
\* from - t + slide is large enough.
slideBefore(q, b, from, atLeast) ==
    LET slides == {floorSlide(q, b) - j * q.slide : j \in 0 .. from + q.size}
    IN  Max({t \in slides : from - t + q.slide >= atLeast})

kernel(q, b, open, close, complete) ==
    [q |-> q, b |-> b, ptr |-> b.start, aggr |-> Zero,
     tree |-> initialise(panesPerWindow(q), q.invertible), partials |-> 0,
     prevPane |-> startPane(q, b), prevOpen |-> open, prevClose |-> close, prevComplete |-> complete,
     state |-> FALSE, starts |-> <<>>, window |-> 0, found |-> FALSE, done |-> FALSE, filled |-> FALSE,
     closing |-> <<>>, pending |-> <<>>, opening |-> <<>>, complete |-> <<>>]

initTumblingRows(q, b) ==
    LET p == startPane(q, b)  n == paneSize(q)
        inside == b.start # 0 /\ ~aligned(q, b)
    IN  kernel(q, b,
            IF inside THEN floorSlide(q, b) \div n ELSE p - panesPerSlide(q),
            IF b.start = 0 THEN p - panesPerSlide(q)
            ELSE IF aligned(q, b) /\ hasComplete(q, b) THEN floorSlide(q, b) \div n
            ELSE Max({0, slideBefore(q, b, b.start, q.size + 1) \div n}),
            IF inside THEN (floorSlide(q, b) + q.slide) \div n ELSE p)

initSlidingRows(q, b) ==
    LET p == startPane(q, b)  n == paneSize(q)
        inside == b.start # 0 /\ ~aligned(q, b)
    IN  kernel(q, b,
            IF inside THEN floorSlide(q, b) \div n ELSE p - panesPerSlide(q),
            IF b.start = 0 THEN p - panesPerSlide(q)
            ELSE Max({0, slideBefore(q, b, b.start, q.size) \div n}),
            IF inside THEN (floorSlide(q, b) + q.slide) \div n ELSE p)

\* The last timestamp of the batch before.
timestampFromPrevBatch(q, b) == timeAt(q, b.start - 1)

initTumblingRange(q, b) ==
    LET p == startPane(q, b)  n == paneSize(q)
        inside == ~aligned(q, b)
        before == timestampFromPrevBatch(q, b) \div n
        open == IF inside THEN floorSlide(q, b) \div n ELSE before
        complete == IF inside THEN (floorSlide(q, b) + q.slide) \div n ELSE p
    IN  IF b.start = 0 THEN kernel(q, b, p - panesPerSlide(q), p - panesPerSlide(q), p)
        ELSE kernel(q, b, open, before,
                    IF open = complete THEN complete + panesPerSlide(q) ELSE complete)

initSlidingRange(q, b) ==
    LET p == startPane(q, b)  n == paneSize(q)
        inside == ~aligned(q, b)
        before == timestampFromPrevBatch(q, b)
    IN  IF b.start = 0 THEN kernel(q, b, p - panesPerSlide(q), p - panesPerSlide(q), p)
        ELSE kernel(q, b,
                IF inside THEN floorSlide(q, b) \div n ELSE before \div n,
                Max({0, slideBefore(q, b, before, q.size) \div n}),
                IF inside THEN (floorSlide(q, b) + q.slide) \div n ELSE p)

----------------------------------------------------------------------------
(* The strings the kernels are put together from (getComputeString).       *)

cur(k) == paneAt(k.q, k.b, k.ptr)
pps(k) == panesPerSlide(k.q)
ppw(k) == panesPerWindow(k.q)

belongs(q, p) == p % q.every = 0

\* getSelectionExpr goes around the whole body of a range kernel's loop: a tuple that
\* fails it opens, closes and completes no window.  In a row kernel it is in
\* computeAggrs, as the choice of the group is in both.
filter(k) == k.q.range /\ ~k.q.grouped => belongs(k.q, k.ptr)
pass(k) == [k EXCEPT !.ptr = @ + 1]

computeAggrs(k) ==
    IF ~belongs(k.q, k.ptr) THEN pass(k)
    ELSE [k EXCEPT
            !.aggr = IF k.q.grouped /\ ~k.state THEN Of(k.ptr) ELSE combine(k.tree, @, Of(k.ptr)),
            !.state = TRUE, !.ptr = @ + 1]
resetAggrs(k) == [k EXCEPT !.aggr = Zero, !.state = FALSE]

\* A group's tree is left alone while it holds nothing.
absent(k) == k.q.grouped /\ held(k.tree) <= 0

insertAggrs(k) ==
    IF ~k.q.grouped THEN [k EXCEPT !.tree = insert(@, k.aggr)]
    ELSE IF ~k.state /\ absent(k) THEN k
    ELSE [resetAggrs(k) EXCEPT !.tree = insert(@, k.aggr)]
evictAggrs(k) == IF absent(k) THEN k ELSE [k EXCEPT !.tree = evict(@)]
setValues(k) == IF absent(k) THEN k ELSE [k EXCEPT !.aggr = query(k.tree), !.state = TRUE]
setIntermValues(k, pos) ==
    IF absent(k) THEN k
    ELSE [k EXCEPT !.aggr = intermediate(k.tree, pos), !.state = TRUE,
                   !.tree = queryIntermediate(@, pos)]

incremental(k) == ~tumbling(k.q)

closingWindows(k) ==
    LET c == IF incremental(k) THEN setIntermValues(k, parentsSize(k.tree) - 2) ELSE k
    IN  [c EXCEPT !.closing = Append(@, c.aggr)]
pendingWindows(k) ==
    LET c == IF incremental(k) THEN setIntermValues(k, -1) ELSE k
    IN  [c EXCEPT !.pending = Append(@, c.aggr)]
openingWindows(k) ==
    LET c == IF ~incremental(k) THEN k
             ELSE IF ~k.q.grouped THEN setIntermValues(k, Len(k.opening))
             ELSE [setIntermValues(insertAggrs(k), Len(k.opening)) EXCEPT !.prevOpen = @ + pps(k)]
    IN  [c EXCEPT !.opening = Append(@, c.aggr)]
completeWindows(k) ==
    LET c == IF incremental(k) THEN setValues(k) ELSE k
    IN  [c EXCEPT !.complete = Append(@, c.aggr)]

----------------------------------------------------------------------------
(* The first loop: until a window is complete, or the batch ends.          *)

opens(k) == cur(k) - k.prevOpen = pps(k)
open(k) == IF opens(k) THEN [k EXCEPT !.prevOpen = cur(k), !.starts = Append(@, k.ptr)] ELSE k
completes(k) == cur(k) - k.prevComplete = ppw(k)
complete(k) == [k EXCEPT !.window = @ + 1, !.found = TRUE]
closes(k) == k.prevClose <= startPane(k.q, k.b) /\ cur(k) - k.prevClose = ppw(k)
\* Mutant: the aggregates of the window that closes go into the next.
closeNoReset(k) == [closingWindows(k) EXCEPT !.prevClose = @ + pps(k)]

close(k) == resetAggrs([closingWindows(k) EXCEPT !.prevClose = @ + pps(k)])

\* The range kernels have missed a pane, and fill in the windows of it: here only
\* that they do.  Without a selection a stream without gaps never gets there.
missesPane(k) ==
    /\ k.q.range
    /\ \/ cur(k) - k.prevOpen > pps(k)
       \/ k.b.start # 0 /\ k.complete = <<>> /\ cur(k) - k.prevClose > ppw(k)
       \/ cur(k) - k.prevComplete > ppw(k)
fillEmptyWindows(k) == IF missesPane(k) THEN [k EXCEPT !.filled = TRUE] ELSE k

over(k) == k.found \/ k.ptr >= k.b.end
\* As many steps as a loop can take: the last looks at a tuple behind the batch,
\* the first that passes the filter.
forEach(Step(_), k) ==
    FoldLeft(LAMBDA s, i : Step(s), k, [i \in 1 .. k.b.end - k.b.start + k.q.every |-> i])

tumblingStep(k) ==
    LET o == open(k)
    IN  IF over(k) THEN k
        ELSE IF ~filter(k) THEN pass(k)
        ELSE IF (k.b.start = 0 \/ hasComplete(k.q, k.b)) /\ completes(o) THEN complete(o)
        ELSE computeAggrs(fillEmptyWindows(IF k.b.start # 0 /\ closes(o) THEN close(o) ELSE o))

tumblingSearch(k) ==
    LET s == forEach(tumblingStep, k)
    IN  IF s.b.start # 0 /\ ~s.found /\ s.closing = <<>> THEN resetAggrs(pendingWindows(s)) ELSE s

slidingFirstStep(k) ==
    LET o == IF opens(k) /\ k.ptr # 0 THEN resetAggrs(insertAggrs(open(k))) ELSE open(k)
    IN  IF over(k) THEN k
        ELSE IF ~filter(k) THEN pass(k)
        ELSE IF completes(o) THEN complete(o) ELSE computeAggrs(fillEmptyWindows(o))

\* A pane is over: its value goes into the tree, which keeps a window's worth.
nextPane(k) ==
    LET e == IF k.partials = k.tree.size THEN evictAggrs(k) ELSE k
    IN  IF cur(k) - k.prevPane = 1
        THEN [resetAggrs(insertAggrs(e)) EXCEPT !.prevPane = cur(k), !.partials = @ + 1] ELSE k

slidingStep(k) ==
    LET o == open(nextPane(k))
    IN  IF over(k) THEN k
        ELSE IF ~filter(k) THEN pass(k)
        ELSE IF hasComplete(k.q, k.b) /\ completes(o) THEN complete(o)
        ELSE computeAggrs(fillEmptyWindows(IF closes(o) THEN close(o) ELSE o))

\* After a batch without complete windows: the last pane, and what is pending.
\* Only the row kernel looks for a window that closes at the end of the batch.
slidingPending(k) ==
    LET i == insertAggrs(k)
        c == IF ~k.q.range /\ closes(i) THEN resetAggrs(closingWindows(i)) ELSE i
    IN  IF k.found THEN k ELSE resetAggrs(pendingWindows(c))

slidingSearch(k) ==
    IF k.b.start = 0 THEN forEach(slidingFirstStep, k) ELSE slidingPending(forEach(slidingStep, k))

\* The batch has no complete window, but the first of an opening one.
opensOnly(k) == ~k.found /\ (k.b.start = 0 \/ k.starts # <<>>)

----------------------------------------------------------------------------
(* The second loop, from the first complete window on.                     *)

\* The row kernels take the pane from the window's start pointer, the range
\* kernels count on.
nextComplete(k) ==
    [k EXCEPT !.prevComplete =
        IF k.q.range THEN @ + pps(k)
        ELSE IF Len(k.starts) > k.window THEN k.starts[k.window + 1] \div paneSize(k.q) ELSE -1]

\* Mutant: the aggregates of the window that is complete go into the next.
anotherCompleteNoReset(k) ==
    IF completes(k) THEN completeWindows(nextComplete(complete(k))) ELSE k

anotherComplete(k) ==
    IF completes(k) THEN resetAggrs(completeWindows(nextComplete(complete(k)))) ELSE k

\* On to the next window.
resume(k) ==
    LET e == IF incremental(k) THEN evictAggrs(k) ELSE k
    IN  [e EXCEPT !.found = FALSE, !.prevPane = cur(k)]

\* The rest of the inner loop, once the tuple's windows have been looked at.
aggregateTuple(k) ==
    LET a == computeAggrs(k)
    IN  IF k.ptr >= k.b.end THEN [k EXCEPT !.done = TRUE]
        ELSE IF ~a.found THEN a
        ELSE IF a.ptr < a.b.end THEN resume(a) ELSE [a EXCEPT !.done = TRUE]

\* The test for the end of the batch is within the filter, so that the range kernel
\* goes on behind it to a tuple that passes.
tumblingNext(k) ==
    IF k.done THEN k
    ELSE IF ~filter(k) THEN pass(k)
    ELSE aggregateTuple(fillEmptyWindows(anotherComplete(open(k))))

slidingNext(k) ==
    LET p == IF cur(k) - k.prevPane = 1
             THEN [resetAggrs(insertAggrs(k)) EXCEPT !.prevPane = cur(k)] ELSE k
        o == open(p)
    IN  IF k.done THEN k
        ELSE IF ~filter(k) THEN IF k.ptr >= k.b.end THEN [k EXCEPT !.done = TRUE] ELSE pass(k)
        ELSE aggregateTuple(IF k.q.range /\ k.ptr >= k.b.end THEN o
                            ELSE fillEmptyWindows(anotherComplete(o)))

\* The first complete window is written, and its last tuple's successor taken.
firstComplete(k) == computeAggrs(nextComplete(resetAggrs(completeWindows(k))))

tumblingRowsComplete(k) ==
    LET r == forEach(tumblingNext, resume(firstComplete(k)))
    IN  IF r.found THEN r ELSE openingWindows(r)

\* The range kernel goes back to the tuple it has just aggregated.
tumblingRangeComplete(k) ==
    LET r == forEach(tumblingNext, resume([firstComplete(k) EXCEPT !.ptr = k.ptr]))
    IN  IF r.found THEN r ELSE openingWindows(r)

slidingRowsComplete(k) ==
    LET r == forEach(slidingNext, resume(firstComplete(k)))
    IN  IF r.found THEN [r EXCEPT !.window = @ - 1] ELSE openingWindows(r)

slidingRangeComplete(k) ==
    LET f == firstComplete(k)
        r == IF f.ptr >= f.b.end THEN [f EXCEPT !.found = FALSE] ELSE forEach(slidingNext, resume(f))
    IN  IF r.found THEN [r EXCEPT !.window = @ - 1] ELSE openingWindows(r)

----------------------------------------------------------------------------
(* The sliding windows that are still open at the end of the batch, but    *)
(* for the first, and the whole of the four kernels.                       *)

slidingOpening(k) ==
    LET inside == k.ptr % k.q.slide # 0 /\ k.b.start # 0
    IN  resetAggrs(openingWindows(IF inside THEN evictAggrs(k) ELSE k))

\* From window w on; the windows that start past the batch are left to the next.
restFrom(k, w, past) ==
    LET step(s, i) ==
          IF s.starts[i] = s.starts[i + 1] \/ s.starts[i + 1] \in past THEN s
          ELSE openingWindows(evictAggrs(s))
    IN  FoldLeft(step, k, [i \in 1 .. Len(k.starts) - 1 - w |-> w + i])

slidingRowsRest(k) == restFrom(k, k.window, {k.b.end})

\* No more windows than are open at a time, opening or closing.  Only the start
\* at the end of the ring, which is 0, is taken for one past the batch.
slidingRangeRest(k) ==
    LET n == Len(k.starts)
        many == n - k.window >= ppw(k) \/ (k.complete # <<>> /\ n - k.window < ppw(k) - 1)
        r == restFrom(k, IF many THEN n - ppw(k) + 1 ELSE k.window,
                      IF k.b.wraps THEN {k.b.end} ELSE {})
    IN  IF k.filled THEN k
        ELSE IF Len(r.closing) < ppw(k) THEN r
        ELSE [r EXCEPT !.closing = SubSeq(@, 1, ppw(k) - 1)]

getTumblingWindowRows(q, b) ==
    LET s == tumblingSearch(initTumblingRows(q, b))
    IN  IF opensOnly(s) THEN openingWindows(s)
        ELSE IF s.found THEN tumblingRowsComplete(s) ELSE s

getTumblingWindowRange(q, b) ==
    LET s == tumblingSearch(initTumblingRange(q, b))
    IN  IF opensOnly(s) THEN openingWindows(s)
        ELSE IF s.found THEN tumblingRangeComplete(s) ELSE s

getSlidingWindowRows(q, b) ==
    LET s == slidingSearch(initSlidingRows(q, b))
    IN  slidingRowsRest(IF opensOnly(s) THEN slidingOpening(s)
                        ELSE IF s.found THEN slidingRowsComplete(s) ELSE s)

getSlidingWindowRange(q, b) ==
    LET s == slidingSearch(initSlidingRange(q, b))
    IN  slidingRangeRest(IF opensOnly(s) THEN slidingOpening(s)
                         ELSE IF s.found THEN slidingRangeComplete(s) ELSE s)

getComputeString(q, b) ==
    CASE ~q.range /\ tumbling(q)  -> getTumblingWindowRows(q, b)
      [] ~q.range /\ ~tumbling(q) -> getSlidingWindowRows(q, b)
      [] q.range /\ tumbling(q)   -> getTumblingWindowRange(q, b)
      [] q.range /\ ~tumbling(q)  -> getSlidingWindowRange(q, b)

\* The fragments processData leaves in the slot: which tuples, how often each.
fragment(v) == {<<p, v[p]>> : p \in {i \in Tuples : v[i] # 0}}
fragments(s) == [i \in DOMAIN s |-> fragment(s[i])]
result(k) ==
    [closing |-> fragments(k.closing), pending |-> fragments(k.pending),
     opening |-> fragments(k.opening), complete |-> fragments(k.complete),
     filled |-> k.filled]
processData(q, b) == result(getComputeString(q, b))
=============================================================================
