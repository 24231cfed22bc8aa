--------------------------- MODULE AggregationTree ---------------------------
(***************************************************************************)
(* The structure behind incremental sliding windows: the code that         *)
(* cql/operators/codeGeneration/AggregationTree.h generates.  It holds one *)
(* value per pane in a ring of BUCKET_SIZE leaves, and answers for the     *)
(* panes it holds from parents[0] (invertible functions: SUM, CNT, AVG) or *)
(* from two stacks (MIN, MAX).                                             *)
(*                                                                         *)
(* A value is how often each tuple of the stream has been aggregated into  *)
(* it: a tuple that is counted twice, lost or taken out once too often     *)
(* shows.  MIN and MAX only tell whether a tuple is in.                    *)
(***************************************************************************)
EXTENDS Integers, Sequences, FiniteSetsExt

CONSTANT Tuples      \* the positions of the stream

Zero == [i \in Tuples |-> 0]
Of(i) == [Zero EXCEPT ![i] = 1]

\* The combine and inverse functions.
plus(a, b) == [i \in Tuples |-> a[i] + b[i]]
minus(a, b) == [i \in Tuples |-> a[i] - b[i]]
combine(t, a, b) == IF t.invertible THEN plus(a, b) ELSE [i \in Tuples |-> Max({a[i], b[i]})]

\* A tree for windows of n panes, as initialise() leaves it.
initialise(n, invertible) ==
    [size |-> n, invertible |-> invertible, curPos |-> 0, added |-> 0, removed |-> 0,
     leaves |-> [i \in 0 .. n - 1 |-> Zero],
     parents |-> [i \in 0 .. (IF invertible THEN 0 ELSE n) |-> Zero]]

held(t) == t.added - t.removed
parentsSize(t) == Cardinality(DOMAIN t.parents)

\* MIN and MAX start a new back stack whenever the ring begins again.
insert(t, value) ==
    LET back == IF ~t.invertible /\ t.curPos = 0 THEN Zero ELSE t.parents[0]
    IN  [t EXCEPT !.leaves[t.curPos] = value,
                  !.parents[0] = combine(t, value, back),
                  !.curPos = (@ + 1) % t.size,
                  !.added = @ + 1]

\* The front stack: parents[i] is the aggregate of the last i leaves.
flip(t) ==
    LET suffix[i \in 1 .. t.size] ==
          IF i = 1 THEN t.leaves[t.size - 1] ELSE combine(t, suffix[i - 1], t.leaves[t.size - i])
    IN  [t EXCEPT !.parents = [i \in 0 .. t.size |-> IF i = 0 THEN Zero ELSE suffix[i]]]

\* Mutant: the front stack is not rebuilt when the ring begins again.
evictWithoutFlip(t) ==
    LET u == IF t.invertible THEN [t EXCEPT !.parents[0] = minus(@, t.leaves[t.curPos])] ELSE t
    IN  [u EXCEPT !.leaves[t.curPos] = Zero, !.removed = @ + 1]

\* The leaf at curPos goes: the oldest one when the ring is full.  curPos stays.
evict(t) ==
    LET u == IF t.invertible THEN [t EXCEPT !.parents[0] = minus(@, t.leaves[t.curPos])]
             ELSE IF t.curPos = 0 THEN flip(t) ELSE t
    IN  [u EXCEPT !.leaves[t.curPos] = Zero, !.removed = @ + 1]

query(t) ==
    IF t.invertible \/ t.curPos = 0 THEN t.parents[0]
    ELSE combine(t, t.parents[0], t.parents[parentsSize(t) - t.curPos - 1])

\* queryIntermediate: for MIN and MAX parents[0] is overwritten by the answer, and
\* the answer is the front stack at a position the caller chooses.
intermediate(t, pos) == t.parents[IF t.invertible THEN 0 ELSE parentsSize(t) - pos - 2]
queryIntermediate(t, pos) == [t EXCEPT !.parents[0] = intermediate(t, pos)]
=============================================================================
