------------------------------- MODULE HashTable -------------------------------
(***************************************************************************)
(* The hash table of a group-by query, as OperatorKernel.h generates it    *)
(* (getHashTableString), and the merges of the tables of window fragments  *)
(* (getHashTableMergeString and its two variants).  Open addressing in     *)
(* MAP_SIZE buckets; a bucket that has been given back keeps its key, so   *)
(* that a group stays in its bucket for the whole of a batch.              *)
(*                                                                         *)
(* A worker fills its table with the tuples of a pane, copies it into a    *)
(* fragment, resets it for the next pane, and clears it for the next task. *)
(* A value is the set of tuples aggregated into it.                        *)
(***************************************************************************)
EXTENDS Integers, SequencesExt

CONSTANTS
    Keys,            \* the groups
    NoKey,           \* the key of a bucket that has never been used
    Size,            \* MAP_SIZE, a power of two
    Hashes,          \* the hash functions to look at: [Keys -> 0 .. Size - 1]
    Barriers,        \* m_collisionBarrier, 0 for none
    MaxTuple,        \* bound: tuples of a behaviour
    MaxFragment      \* bound: fragments of a behaviour

Slots == 0 .. Size - 1

VARIABLES
    hash, barrier,
    table,           \* the worker's table
    fragments,       \* the tables copied out of it
    tuples,          \* history: the key of every tuple
    pane,            \* history: the tuples of this pane
    panes,           \* history: the tuples of the panes of the fragments
    batch,           \* history: the keys since the table was cleared
    aborted          \* "the hashtable is full", or too many collisions

vars == <<hash, barrier, table, fragments, tuples, pane, panes, batch, aborted>>

emptyTable == [i \in Slots |-> [state |-> 0, dirty |-> 0, key |-> NoKey, value |-> {}, counter |-> 0]]

\* The buckets in the order in which the two loops visit them.
probes(key) ==
    LET n == IF barrier > 0 THEN barrier ELSE Size
    IN  [i \in 1 .. (IF n < Size THEN n ELSE Size) |-> (hash[key] + i - 1) % Size]

holds(t, i, key) == t[i].state = 1 /\ t[i].key = key

\* A bucket for the first insert: the one the group had before, or a fresh one.
firstInsert(t, i, key) == t[i].state = 0 /\ (t[i].key = key \/ t[i].dirty = 0)

\* The position of the first probe that satisfies the set of buckets, or 0.
firstProbe(key, buckets) == SelectInSeq(probes(key), LAMBDA i : i \in buckets)

insertionPoint(t, key) ==
    firstProbe(key, {i \in Slots : holds(t, i, key) \/ firstInsert(t, i, key)})

modified(t, i, key, tuple) ==
    IF holds(t, i, key)
    THEN [t EXCEPT ![i].value = @ \cup {tuple}, ![i].counter = @ + 1]
    ELSE [t EXCEPT ![i] = [state |-> 1, dirty |-> 1, key |-> key, value |-> {tuple}, counter |-> 1]]

reset(t) == [i \in Slots |-> [t[i] EXCEPT !.state = 0]]

\* Mutant: the buckets stay with the groups of the last task.
clearNothing(t) == reset(t)

clear(t) == [i \in Slots |-> [t[i] EXCEPT !.state = 0, !.dirty = 0]]

\* get_index: the bucket of the group, else the first free one on the way, else -1.
get_index(t, key) ==
    LET found == firstProbe(key, {i \in Slots : holds(t, i, key)})
        free == firstProbe(key, {i \in Slots : t[i].state = 0})
        point == IF found # 0 THEN found ELSE free
    IN  [found |-> found # 0, index |-> IF point = 0 THEN -1 ELSE probes(key)[point]]

get_value(t, key) == t[get_index(t, key).index].value

----------------------------------------------------------------------------
(* aggregatePartials.  A result is what has been written and whether the   *)
(* merge has given up, or run out of the table.                            *)

Merge(rows, left, right, failed) == [rows |-> rows, left |-> left, right |-> right, failed |-> failed]
indices(lo, n) == [i \in 1 .. n |-> lo + i - 1]
row(b) == <<b.key, b.value, b.counter>>
both(a, b) == <<a.key, a.value \cup b.value, a.counter + b.counter>>
occupied(t, from, n) == SelectSeq(indices(from, n), LAMBDA i : t[i].state = 1)

\* Mutant: a group that has been merged is not unmarked in the other table.
packStepMarked(m, idx) ==
    LET at == get_index(m.right, m.left[idx].key)
    IN  IF m.failed \/ at.index < 0 THEN [m EXCEPT !.failed = TRUE]
        ELSE IF at.found THEN [m EXCEPT !.rows = Append(@, both(m.left[idx], m.right[at.index]))]
        ELSE [m EXCEPT !.rows = Append(@, row(m.left[idx]))]

\* pack: the groups of the opening table, merged with those of the other when it
\* has them, which are unmarked there; then what is left of the other table.
packStep(m, idx) ==
    LET at == get_index(m.right, m.left[idx].key)
    IN  IF m.failed \/ at.index < 0 THEN [m EXCEPT !.failed = TRUE]
        ELSE IF at.found
        THEN [m EXCEPT !.rows = Append(@, both(m.left[idx], m.right[at.index])),
                       !.right[at.index].state = 0]
        ELSE [m EXCEPT !.rows = Append(@, row(m.left[idx]))]

pack(opening, closing) ==
    LET m == FoldLeft(packStep, Merge(<<>>, opening, closing, FALSE), occupied(opening, 0, Size))
    IN  [m EXCEPT !.rows = @ \o [i \in DOMAIN occupied(m.right, 0, Size) |->
                                   row(m.right[occupied(m.right, 0, Size)[i]])]]

\* not pack: the groups of the pending table go into the opening one.
addStep(m, idx) ==
    LET b == m.right[idx]  at == get_index(m.left, b.key)
    IN  IF m.failed \/ at.index < 0 THEN [m EXCEPT !.failed = TRUE]
        ELSE IF at.found
        THEN [m EXCEPT !.left[at.index].value = @ \cup b.value, !.left[at.index].counter = @ + b.counter]
        ELSE [m EXCEPT !.left[at.index] =
                [state |-> 1, dirty |-> @.dirty, key |-> b.key, value |-> b.value, counter |-> b.counter]]

add(opening, pending) ==
    FoldLeft(addStep, Merge(<<>>, opening, pending, FALSE), occupied(pending, 0, Size))

\* The variant without pointers: the tables of all windows in one buffer, window
\* w at w * Size; positions that get_index returns are relative to the table.
flat(tables) == [i \in 0 .. Len(tables) * Size - 1 |-> tables[(i \div Size) + 1][i % Size]]
mapAt(buffer, start) == [i \in Slots |-> buffer[start + i]]

flatPackStep(m, p) ==
    LET start2 == (p \div Size) * Size
        at == get_index(mapAt(m.right, start2), m.left[p].key)
        posInB2 == at.index + start2
    IN  IF m.failed \/ at.index < 0 THEN [m EXCEPT !.failed = TRUE]
        ELSE IF at.found
        THEN [m EXCEPT !.rows = Append(@, both(m.left[p], m.right[posInB2])),
                       !.right[posInB2].state = 0]
        ELSE [m EXCEPT !.rows = Append(@, row(m.left[p]))]

flatWindow(m, w) ==
    LET f == FoldLeft(flatPackStep, m, occupied(m.left, w * Size, Size))
        rest == occupied(f.right, w * Size, Size)
    IN  [f EXCEPT !.rows = @ \o [i \in DOMAIN rest |-> row(f.right[rest[i]])]]

packFlat(openings, closings) ==
    FoldLeft(flatWindow, Merge(<<>>, flat(openings), flat(closings), FALSE), indices(0, Len(closings)))

\* The pending table goes into that of every window.
flatAddWindow(m, w) ==
    LET a == FoldLeft(addStep, Merge(<<>>, mapAt(m.left, w * Size), m.right, m.failed),
                      occupied(m.right, 0, Size))
    IN  [m EXCEPT !.left = [i \in DOMAIN @ |-> IF i \div Size = w THEN a.left[i % Size] ELSE @[i]],
                  !.failed = a.failed]

addFlat(openings, pending) ==
    FoldLeft(flatAddWindow, Merge(<<>>, flat(openings), pending, FALSE), indices(0, Len(openings)))

\* The parallel merge: all fragments of a window into one table, then packed.
aggregateAll(parts) ==
    LET step(m, t) == IF m.failed THEN m ELSE add(m.left, t)
        m == FoldLeft(step, Merge(<<>>, Head(parts), emptyTable, FALSE), Tail(parts))
        at == occupied(m.left, 0, Size)
    IN  [m EXCEPT !.rows = [i \in DOMAIN at |-> row(m.left[at[i]])]]

----------------------------------------------------------------------------
Init ==
    /\ hash \in Hashes /\ barrier \in Barriers
    /\ table = emptyTable /\ fragments = <<>> /\ tuples = <<>> /\ pane = {} /\ panes = <<>>
    /\ batch = {} /\ aborted = FALSE

insert_or_modify(key) ==
    LET point == insertionPoint(table, key)
        n == Len(tuples) + 1
    IN  /\ Len(tuples) < MaxTuple /\ ~aborted
        /\ aborted' = (point = 0)
        /\ table' = IF point = 0 THEN table ELSE modified(table, probes(key)[point], key, n)
        /\ tuples' = Append(tuples, key) /\ pane' = pane \cup {n} /\ batch' = batch \cup {key}
        /\ UNCHANGED <<hash, barrier, fragments, panes>>

\* A fragment is written and the table reset.
writeIntermediateResults ==
    /\ Len(fragments) < MaxFragment /\ ~aborted /\ pane # {}
    /\ fragments' = Append(fragments, table) /\ panes' = Append(panes, pane)
    /\ table' = reset(table) /\ pane' = {}
    /\ UNCHANGED <<hash, barrier, tuples, batch, aborted>>

\* The next task of the worker, once a batch is written.
nextTask ==
    /\ pane = {} /\ batch # {} /\ ~aborted
    /\ table' = clear(table) /\ batch' = {}
    /\ UNCHANGED <<hash, barrier, fragments, tuples, pane, panes, aborted>>

Next ==
    \/ \E key \in Keys : insert_or_modify(key)
    \/ writeIntermediateResults
    \/ nextTask

Spec == Init /\ [][Next]_vars
----------------------------------------------------------------------------

\* What the tuples of s should give: a row for each of their groups.
grouped(s) ==
    {LET mine == {n \in s : tuples[n] = k} IN <<k, mine, Cardinality(mine)>> :
        k \in {tuples[n] : n \in s}}
rowsOf(t) == {row(t[i]) : i \in {j \in Slots : t[j].state = 1}}
once(rows) == Cardinality(ToSet(rows)) = Len(rows)

\* Through any sequence of panes and tasks a table holds every group of its pane
\* once, with exactly its tuples, and get_index finds it; insert_or_modify gives
\* up only when the batch has more groups than there are buckets to probe.
TableIsAMap ==
    /\ ~aborted => rowsOf(table) = grouped(pane)
    /\ \A f \in DOMAIN fragments :
         LET t == fragments[f] IN
         /\ rowsOf(t) = grouped(panes[f])
         /\ \A n \in panes[f] : get_index(t, tuples[n]).found
         /\ Cardinality({i \in Slots : t[i].state = 1}) = Cardinality(rowsOf(t))
    /\ aborted /\ barrier = 0 => Cardinality(batch) > Size

\* The merges, each unless it finds no room for a group.
MergesOf(f, g) ==
    LET whole == grouped(panes[f] \cup panes[g])
        m == pack(fragments[f], fragments[g])
        a == add(fragments[f], fragments[g])
    IN  /\ ~m.failed => ToSet(m.rows) = whole /\ once(m.rows)
        /\ ~a.failed => rowsOf(a.left) = whole
        /\ ~a.failed => \A n \in panes[f] \cup panes[g] : get_index(a.left, tuples[n]).found

\* A window whose tuples lie in several fragments gets each of its groups once,
\* with all of its tuples: fragments packed two by two, with pointers or in one
\* buffer, or added to one table; fragments can come from workers whose tables
\* have a group in different buckets.  Without a collision barrier a merge fails
\* only when the tables have no room.
MergeIsUnion ==
    /\ \A f, g \in DOMAIN fragments : f # g => MergesOf(f, g)
    /\ Len(fragments) = 3 =>
         LET p == packFlat(<<fragments[1], fragments[2]>>, <<fragments[2], fragments[3]>>)
             a == addFlat(<<fragments[1], fragments[2]>>, fragments[3])
             all == aggregateAll(fragments)
             keys == {tuples[n] : n \in UNION {panes[f] : f \in 1 .. 3}}
         IN  /\ ~p.failed => ToSet(p.rows) = grouped(panes[1] \cup panes[2]) \cup grouped(panes[2] \cup panes[3])
             /\ ~a.failed => \A w \in 0 .. 1 :
                  rowsOf(mapAt(a.left, w * Size)) = grouped(panes[w + 1] \cup panes[3])
             /\ ~all.failed => ToSet(all.rows) = grouped(UNION {panes[f] : f \in 1 .. 3}) /\ once(all.rows)
             /\ barrier = 0 /\ Cardinality(keys) <= Size => ~all.failed
=============================================================================
