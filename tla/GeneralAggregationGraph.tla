---------------------- MODULE GeneralAggregationGraph ----------------------
(***************************************************************************)
(* cql/operators/codeGeneration/GeneralAggregationGraph.h: the code that   *)
(* it generates for the micro-benchmarks, and the driver run() that feeds  *)
(* it.  The last BUCKET_SIZE values are kept in a ring of leaves; lparents *)
(* holds aggregates of the current round of the ring and rparents those of *)
(* the suffixes of the previous one, and every tuple asks for the          *)
(* aggregate of the last panes of each window.                             *)
(*                                                                         *)
(* A configuration is the aggregate function, the windows' sizes in panes  *)
(* (numberOfPanes), and whether the graph was built from a list of windows *)
(* (hasMultipleWindows) or from a single one.                              *)
(***************************************************************************)
EXTENDS Integers, Sequences, SequencesExt

CONSTANTS
    Values,          \* the values of the aggregated column
    INT_MAX,
    Graphs           \* configurations: [type, windows, multiple]

VARIABLES
    shape,           \* the configuration
    graph,           \* the statics of the generated code
    processed,       \* tuples run() has inserted, as far as it matters
    answers,         \* per window: what query last returned
    recent           \* history: the last BUCKET_SIZE values, oldest first

vars == <<shape, graph, processed, answers, recent>>

----------------------------------------------------------------------------
(* The graph's shape, from its constructors.                               *)

INT_MIN == -INT_MAX - 1

isInvertible(c) == c.type = "SUM"
m_size(c) == Max(c.windows)
m_flipRange(c) == Min(c.windows)

\* m_numOfInvertible and m_numOfNonInvertible are only counted by the
\* constructor for a list of windows.
countsInvertible(c) == c.multiple /\ isInvertible(c)
countsNonInvertible(c) == c.multiple /\ ~isInvertible(c)

\* generateCode and DFS: which parents the root needs.  One running aggregate,
\* or one per leaf; suffixes unless a single invertible function needs none.
numOfLeftParents(c) == IF countsInvertible(c) THEN m_size(c) + 1 ELSE 2
numOfRightParents(c) == IF isInvertible(c) /\ ~c.multiple THEN 0 ELSE m_size(c) + 1

combineFunction(c, a, b) ==
    CASE c.type = "SUM" -> a + b [] c.type = "MIN" -> Min({a, b}) [] c.type = "MAX" -> Max({a, b})
neutral(c) == CASE c.type = "SUM" -> 0 [] c.type = "MIN" -> INT_MAX [] c.type = "MAX" -> INT_MIN

\* initialise: the leaves are reset to 0 whatever the function.
initialise(c) ==
    [leaves |-> [i \in 0 .. m_size(c) - 1 |-> 0],
     lparents |-> [i \in 0 .. numOfLeftParents(c) - 1 |-> neutral(c)],
     rparents |-> [i \in 0 .. numOfRightParents(c) - 1 |-> neutral(c)],
     curPos |-> 0, flipCounter |-> 0]

----------------------------------------------------------------------------
(* insert, evict and query.                                                *)

\* The suffix aggregates from start on.  With several windows of MIN or MAX the
\* loop begins a new suffix at start, and ends at the first aggregate that has
\* not changed; ok says that it has not ended yet.
suffixStep(c, g, start, s, i) ==
    LET fresh == c.multiple /\ ~isInvertible(c)
        r == IF fresh /\ i = start THEN [s.r EXCEPT ![i] = INT_MAX] ELSE s.r
        v == combineFunction(c, r[i], g.leaves[m_size(c) - i - 1])
        stop == fresh /\ i # start /\ s.prevVal = r[i + 1]
    IN  IF s.ended \/ stop THEN [s EXCEPT !.ended = TRUE]
        ELSE [s EXCEPT !.r = [r EXCEPT ![i + 1] = v], !.prevVal = v]

suffixes(c, g, start) ==
    FoldLeft(LAMBDA s, i : suffixStep(c, g, start, s, i),
             [r |-> g.rparents, prevVal |-> 0, ended |-> FALSE],
             [k \in 1 .. m_size(c) - start |-> start + k - 1]).r

flip(c, g, start) ==
    LET r == suffixes(c, g, start)
    IN  IF isInvertible(c) THEN [g EXCEPT !.rparents = r]
        ELSE [g EXCEPT !.lparents[1] = neutral(c),
                       !.rparents = IF start = 0 THEN [r EXCEPT ![m_size(c)] = INT_MAX] ELSE r]

\* Mutant: the suffixes of the last round are not rebuilt.
evictNoFlip(c, g) ==
    IF isInvertible(c) /\ ~c.multiple
    THEN [g EXCEPT !.lparents[1] = @ - g.leaves[g.curPos]]
    ELSE [g EXCEPT !.flipCounter = 0]

\* evict, as the first part of insert.
evict(c, g) ==
    IF isInvertible(c) /\ ~c.multiple
    THEN [g EXCEPT !.lparents[1] = @ - g.leaves[g.curPos]]
    ELSE LET f == IF g.curPos = 0 THEN [flip(c, g, 0) EXCEPT !.flipCounter = 0]
                  ELSE IF countsNonInvertible(c) /\ g.flipCounter = m_flipRange(c)
                  THEN [flip(c, g, numOfRightParents(c) - g.curPos - 1) EXCEPT !.flipCounter = 0]
                  ELSE g
         IN  IF countsNonInvertible(c) THEN [f EXCEPT !.flipCounter = @ + 1] ELSE f

insert(c, g, value) ==
    LET e == evict(c, g)
        parent == IF countsInvertible(c) THEN e.curPos + 1 ELSE 1
        prevParent == IF countsInvertible(c) THEN e.curPos ELSE 1
    IN  [e EXCEPT !.leaves[e.curPos] = value,
                  !.lparents[parent] = combineFunction(c, value, e.lparents[prevParent]),
                  !.curPos = (@ + 1) % m_size(c)]

\* query(), for a single window.
query(c, g) ==
    IF isInvertible(c) THEN g.lparents[1]
    ELSE combineFunction(c, g.lparents[1], g.rparents[m_size(c) - g.curPos])

\* query(pos), for one of several.
queryMult(c, g, pos) ==
    LET frontPtr == IF g.curPos <= 0 THEN m_size(c) ELSE g.curPos
        hasWrapped == frontPtr - pos < 0
        backPtr == IF hasWrapped THEN frontPtr - pos + m_size(c) ELSE frontPtr - pos
        suffix == g.rparents[m_size(c) - backPtr]
    IN  IF ~isInvertible(c) THEN combineFunction(c, g.lparents[1], suffix)
        ELSE IF ~hasWrapped /\ backPtr = 0 THEN g.lparents[frontPtr]
        ELSE IF hasWrapped THEN g.lparents[frontPtr] + suffix
        ELSE g.lparents[frontPtr] - g.lparents[backPtr]

----------------------------------------------------------------------------

Init ==
    /\ shape \in Graphs
    /\ graph = initialise(shape)
    /\ processed = 0
    /\ answers = [w \in shape.windows |-> 0]
    /\ recent = <<>>

\* run(): one tuple.  i is the index of the tuple.
run(value) ==
    LET g == insert(shape, graph, value)
        i == processed
        asks(w) == IF shape.multiple THEN i >= w ELSE i >= m_size(shape)
        answer(w) == IF shape.multiple THEN queryMult(shape, g, w) ELSE query(shape, g)
        window == Append(recent, value)
    IN  /\ graph' = g
        /\ answers' = [w \in shape.windows |-> IF asks(w) THEN answer(w) ELSE answers[w]]
        /\ processed' = Min({i + 1, m_size(shape) + 1})
        /\ recent' = IF Len(window) > m_size(shape) THEN Tail(window) ELSE window
        /\ UNCHANGED shape

Next == \E value \in Values : run(value)

Spec == Init /\ [][Next]_vars

----------------------------------------------------------------------------

\* The functions for which the generated code is exact: any number of windows of
\* an invertible function, and MIN over a single window.
Exact == isInvertible(shape) \/ (~shape.multiple /\ shape.type = "MIN")

\* What query answers for a window is the aggregate of its last panes, at every
\* position of the ring: across the end of the ring, where it joins a suffix of
\* the last round with the present one, and when lparents is used again.
GraphAnswersWindow ==
    Exact =>
      \A w \in shape.windows :
        processed > (IF shape.multiple THEN w ELSE m_size(shape)) =>
          answers[w] = FoldLeft(LAMBDA a, b : combineFunction(shape, a, b), neutral(shape),
                                SubSeq(recent, Len(recent) - w + 1, Len(recent)))
=============================================================================
