------------------------- MODULE JoinTaskDispatcher -------------------------
(***************************************************************************)
(* dispatcher/JoinTaskDispatcher.cpp with the two circular buffers it      *)
(* reads, and the loop ThetaJoin.h generates for its tasks.  A task pairs  *)
(* the tuples that are new on the side that completes it with the window   *)
(* of the other side; the tuples that have left the windows are freed when *)
(* its result has been forwarded.                                          *)
(*                                                                         *)
(* The streams are fed by one thread in turn, as the benchmarks do         *)
(* (BenchmarkQuery.h).  In serial mode, which the result handlers of two   *)
(* upstream queries use, a thread per side enters the data in a list, and  *)
(* they are assembled in the order of their ids by whichever thread comes  *)
(* along.                                                                  *)
(*                                                                         *)
(* Indices are in bytes, as in the code: next - tupleSize is the free      *)
(* pointer, and free() keeps all but the first byte of the tuple there.    *)
(***************************************************************************)
EXTENDS Integers, Sequences, FiniteSetsExt, SequencesExt

CONSTANTS
    Serial,              \* the modes to look at
    TupleSize,           \* bytes of a tuple, a power of two
    Capacity,            \* bytes of each buffer, a power of two
    BatchSize,           \* m_batchSize
    Windows,             \* per side: [size, slide], in rows
    Lengths,             \* tuples of a put
    Steps,               \* how far apart the timestamps of a side's tuples are
    MaxTuples            \* bound: tuples of a side

Sides == {1, 2}
other(s) == 3 - s
locking == <<"lockFirst", "lockSecond">>   \* waiting for m_lock to assemble a side
Free == -1               \* INT_MIN: nothing to free

VARIABLES
    serial, windows, steps,
    ring,                \* per side: the tuple at each position, 0 for none
    endP, startP, tuples,    \* per side: m_endP, m_startP and the tuples put
    pc,                  \* of the threads
    stored,              \* per thread: what put returned, and the length
    start, next, end, lastEnd, toProcess,  \* the m_first... and m_second... indices
    list,                \* m_leftList and m_rightList
    held,                \* m_left and m_right: the thread, 0 for none
    assembleId, forwardId,
    tasks,               \* created and not forwarded
    joined,              \* history: the pairs that tasks have put out
    twice,               \* history: one of them was put out again
    seen                 \* history: per side the tuples in the batches of tasks

buffers == <<ring, endP, startP, tuples>>
indices == <<start, next, end, lastEnd, toProcess>>
lists == <<list, held, assembleId, forwardId>>
history == <<joined, twice, seen>>
vars == <<serial, windows, steps, buffers, pc, stored, indices, lists, tasks, history>>

normalise(p) == p % Capacity
timeOf(s, n) == n * steps[s]

----------------------------------------------------------------------------
(* CircularQueryBuffer.                                                    *)

\* Nothing that is not freed is written over; m_temp only caches startP.
fits(s, n) == startP[s] > endP[s] + n * TupleSize - 1 - Capacity

freed(s, offset) ==
    LET index == normalise(startP[s])
    IN  IF offset = Free THEN 0
        ELSE IF offset <= index THEN Capacity - index + offset + 1 ELSE offset - index + 1

----------------------------------------------------------------------------
(* The join of a task: the loop over both batches by time.  ci, ws and we  *)
(* are the current index and the window per side.                          *)

tupleAt(s, p) == ring[s][normalise(p) \div TupleSize]

\* A tuple of side s: the pairs with the window of the other side, which ends
\* before the tuple last added to it; then the windows move.
move(s, j) ==
    LET o == other(s)
        n == tupleAt(s, j.ci[s])
        matches == [i \in 1 .. (j.we[o] - j.ws[o]) \div TupleSize |->
                      LET m == tupleAt(o, j.ws[o] + (i - 1) * TupleSize)
                      IN  IF s = 1 THEN <<n, m>> ELSE <<m, n>>]
        rows == (j.ci[s] - j.ws[s]) \div TupleSize
    IN  [j EXCEPT !.out = @ \o matches,
                  !.we[s] = j.ci[s],
                  !.ws[s] = IF rows > windows[s].size THEN @ + windows[s].slide * TupleSize ELSE @,
                  !.ci[s] = @ + TupleSize]

joinStep(endIndex, j) ==
    IF j.ci[1] >= endIndex[1] \/ j.ci[2] >= endIndex[2] THEN j
    ELSE IF timeOf(1, tupleAt(1, j.ci[1])) < timeOf(2, tupleAt(2, j.ci[2])) THEN move(1, j)
    ELSE move(2, j)

processJoin(task) ==
    LET endIndex == [s \in Sides |-> task.last[s] + TupleSize]
        moves == (endIndex[1] - task.first[1] + endIndex[2] - task.first[2]) \div TupleSize
        state[i \in 0 .. moves] ==
            IF i = 0 THEN [ci |-> task.first, ws |-> task.first, we |-> task.first, out |-> <<>>]
            ELSE joinStep(endIndex, state[i - 1])
    IN  state[moves].out

----------------------------------------------------------------------------
(* assembleFirst, assembleSecond and createTask.                           *)

normaliseIndex(p, q) == IF q < p THEN q + Capacity ELSE q

positions(first, last) == {first + i * TupleSize : i \in 0 .. (last - first) \div TupleSize}

\* m_firstNextIndex: the first tuple of the oldest window that is still open.
nextIndex(s, e) ==
    LET w == windows[s]
        slides == CHOOSE k \in 0 .. Capacity :
                    /\ next[s] + k * w.slide * TupleSize + w.size * TupleSize >= e
                    /\ \A j \in 0 .. k - 1 :
                         next[s] + j * w.slide * TupleSize + w.size * TupleSize < e
    IN  next[s] + slides * w.slide * TupleSize

\* The task that side s completes, once its indices are e and n.
newTask(s, e, n) ==
    LET from == [x \in Sides |-> IF x = s THEN lastEnd[x] + TupleSize ELSE start[x]]
        to == [x \in Sides |-> normaliseIndex(IF x = s THEN lastEnd[x] ELSE start[x], e[x])]
    IN  [first |-> from, last |-> to, new |-> s,
         free |-> [x \in Sides |-> IF n[x] = start[x] THEN Free ELSE normalise(n[x] - TupleSize)],
         holds |-> [x \in Sides |-> [p \in positions(from[x], to[x]) |-> tupleAt(x, p)]]]

\* Mutant: after the end of the buffer the next task begins with the window.
createTaskForgetful(s, e, n, count) ==
    LET task == newTask(s, e, n)
    IN  /\ tasks' = Append(tasks, task)
        /\ lastEnd' = [x \in Sides |-> IF e[x] >= Capacity THEN n[x] ELSE e[x]]
        /\ toProcess' = [x \in Sides |-> count[x] - (n[x] - start[x]) \div TupleSize]
        /\ next' = [x \in Sides |-> normalise(n[x])] /\ start' = next'
        /\ end' = e
        /\ seen' = [x \in Sides |-> seen[x] \cup {task.holds[x][p] : p \in DOMAIN task.holds[x]}]

createTask(s, e, n, count) ==
    LET task == newTask(s, e, n)
    IN  /\ tasks' = Append(tasks, task)
        /\ lastEnd' = e
        /\ toProcess' = [x \in Sides |-> count[x] - (n[x] - start[x]) \div TupleSize]
        /\ next' = [x \in Sides |-> normalise(n[x])] /\ start' = next'
        /\ end' = e
        /\ seen' = [x \in Sides |-> seen[x] \cup {task.holds[x][p] : p \in DOMAIN task.holds[x]}]

\* Under m_lock.
assembleLocked(s) ==
    LET e == [end EXCEPT ![s] = IF @ < start[s] THEN @ + Capacity ELSE @]
        n == [next EXCEPT ![s] = nextIndex(s, e[s])]
        count == [toProcess EXCEPT ![s] = (e[s] - start[s] + TupleSize) \div TupleSize]
        size == (count[1] + count[2]) * TupleSize
    IN  IF size >= BatchSize /\ count[1] > 0 /\ count[2] > 0
        THEN createTask(s, e, n, count)
        ELSE /\ end' = e /\ next' = n /\ toProcess' = count
             /\ UNCHANGED <<start, lastEnd, tasks, seen>>

\* m_...EndIndex is stored before m_lock is taken.
storeEnd(s, put) ==
    /\ end' = [end EXCEPT ![s] = put.idx + put.length - TupleSize]
    /\ UNCHANGED <<start, next, lastEnd, toProcess>>

----------------------------------------------------------------------------

Init ==
    /\ serial \in Serial /\ windows \in Windows /\ steps \in Steps
    /\ ring = [s \in Sides |-> [p \in 0 .. Capacity \div TupleSize - 1 |-> 0]]
    /\ endP = [s \in Sides |-> 0] /\ startP = endP /\ tuples = endP
    /\ pc = [t \in Sides |-> IF serial \/ t = 1 THEN "put" ELSE "turn"]
    /\ stored = [t \in Sides |-> [idx |-> 0, length |-> 0]]
    /\ start = endP /\ next = endP /\ toProcess = endP
    /\ end = [s \in Sides |-> IF s = 1 THEN -TupleSize ELSE 0]
    /\ lastEnd = [s \in Sides |-> -TupleSize]
    /\ list = [s \in Sides |-> <<>>] /\ held = [s \in Sides |-> 0]
    /\ assembleId = 0 /\ forwardId = [t \in Sides |-> 0]
    /\ tasks = <<>> /\ joined = {} /\ twice = FALSE /\ seen = [s \in Sides |-> {}]

\* n tuples are put on side t.
put(t, n) ==
    LET at == [i \in 1 .. n |-> normalise(endP[t] + (i - 1) * TupleSize) \div TupleSize]
        data == [idx |-> normalise(endP[t]), length |-> n * TupleSize]
    IN  /\ pc[t] = "put" /\ tuples[t] + n <= MaxTuples /\ fits(t, n)
        /\ ring' = [ring EXCEPT ![t] = [p \in DOMAIN @ |->
                      IF \E i \in 1 .. n : at[i] = p
                      THEN tuples[t] + (CHOOSE i \in 1 .. n : at[i] = p) ELSE @[p]]]
        /\ endP' = [endP EXCEPT ![t] = @ + n * TupleSize]
        /\ tuples' = [tuples EXCEPT ![t] = @ + n]
        /\ stored' = [stored EXCEPT ![t] = data]
        /\ pc' = [pc EXCEPT ![t] = IF serial THEN "enter" ELSE "assemble"]
        /\ UNCHANGED <<serial, windows, steps, startP, indices, lists, tasks, history>>

\* dispatchToFirstStream and dispatchToSecondStream, first half.
assemble(t) ==
    /\ pc[t] = "assemble"
    /\ storeEnd(t, stored[t])
    /\ pc' = [pc EXCEPT ![t] = locking[t]]
    /\ UNCHANGED <<serial, windows, steps, buffers, stored, lists, tasks, history>>

\* tryDispatchSerialTo...Stream: the list, under its mutex.
push_back(t) ==
    /\ pc[t] = "enter" /\ held[t] = 0
    /\ list' = [list EXCEPT ![t] = Append(@, stored[t] @@ [id |-> forwardId[t]])]
    /\ forwardId' = [forwardId EXCEPT ![t] = @ + 1]
    /\ pc' = [pc EXCEPT ![t] = "left"]
    /\ UNCHANGED <<serial, windows, steps, buffers, stored, indices, held, assembleId, tasks, history>>

\* tryAssembleTask: the list of a side is gone through with its mutex held.
SideOf(where) == IF where \in {"left", "lockFirst"} THEN 1 ELSE 2
ready(s) == list[s] # <<>> /\ Head(list[s]).id <= assembleId

tryAssembleTask(t) ==
    LET s == SideOf(pc[t]) IN
    /\ pc[t] \in {"left", "right"} /\ held[s] \in {0, t} /\ ready(s)
    /\ held' = [held EXCEPT ![s] = t]
    /\ storeEnd(s, Head(list[s]))
    /\ pc' = [pc EXCEPT ![t] = locking[s]]
    /\ UNCHANGED <<serial, windows, steps, buffers, stored, list, assembleId, forwardId, tasks, history>>

\* Its end: on the right the next id is admitted when it is waiting.
endOfList(t) ==
    LET s == SideOf(pc[t]) IN
    /\ pc[t] \in {"left", "right"} /\ held[s] \in {0, t} /\ ~ready(s)
    /\ held' = [held EXCEPT ![s] = 0]
    /\ assembleId' = IF s = 2 /\ list[s] # <<>> THEN assembleId + 1 ELSE assembleId
    /\ pc' = [pc EXCEPT ![t] = IF s = 1 THEN "right" ELSE "put"]
    /\ UNCHANGED <<serial, windows, steps, buffers, stored, indices, list, forwardId, tasks, history>>

\* assembleFirst and assembleSecond, second half: thread t has got m_lock.
locked(t) ==
    LET s == SideOf(pc[t]) IN
    /\ pc[t] = locking[s]
    /\ assembleLocked(s)
    /\ list' = IF serial THEN [list EXCEPT ![s] = Tail(@)] ELSE list
    /\ pc' = IF serial THEN [pc EXCEPT ![t] = IF s = 1 THEN "left" ELSE "right"]
             ELSE [x \in Sides |-> IF x = t THEN "turn" ELSE "put"]
    /\ UNCHANGED <<serial, windows, steps, buffers, stored, held, assembleId, forwardId, joined, twice>>

\* The oldest task is run, its result forwarded and its input freed.
forward ==
    LET task == Head(tasks)
        out == processJoin(task)
    IN  /\ tasks # <<>>
        /\ tasks' = Tail(tasks)
        /\ twice' = (twice \/ Cardinality(ToSet(out)) # Len(out) \/ ToSet(out) \cap joined # {})
        /\ joined' = joined \cup ToSet(out)
        /\ startP' = [s \in Sides |-> startP[s] + freed(s, task.free[s])]
        /\ UNCHANGED <<serial, windows, steps, ring, endP, tuples, pc, stored, indices, lists, seen>>

Next ==
    \/ \E t \in Sides : \/ \E n \in Lengths : put(t, n)
                        \/ assemble(t) \/ push_back(t) \/ tryAssembleTask(t) \/ endOfList(t) \/ locked(t)
    \/ forward

Spec == Init /\ [][Next]_vars
----------------------------------------------------------------------------

TypeOK ==
    /\ pc \in [Sides -> {"put", "turn", "assemble", "enter", "left", "right"} \cup ToSet(locking)]
    /\ \A s \in Sides : ring[s] \in [0 .. Capacity \div TupleSize - 1 -> 0 .. MaxTuples]
    /\ held \in [Sides -> {0} \cup Sides]

\* The tuples of a task's batch follow one another in their stream.
consecutive(h) ==
    \A p \in DOMAIN h : p + TupleSize \in DOMAIN h => h[p + TupleSize] = h[p] + 1

\* A task reads consecutive tuples of each stream, and while it waits or runs
\* they are not written over, on neither side, whatever has been freed.
TasksReadTuples ==
    \A i \in DOMAIN tasks : \A s \in Sides :
        LET h == tasks[i].holds[s]
        IN  consecutive(h) /\ \A p \in DOMAIN h : h[p] # 0 /\ tupleAt(s, p) = h[p]

\* No pair of tuples is joined twice, and a tuple that precedes the last task has
\* been in one.
JoinedOnce ==
    /\ ~twice
    /\ \A s \in Sides : seen[s] = 1 .. Cardinality(seen[s])

\* The batch size that goes with a query's windows and with the puts ("Set properly
\* the input rate and batch size"): the windows that a task leaves open on both
\* sides and one more put do not make a batch, so each side puts between two tasks;
\* and what a task frees is more than a tuple.
WellSized ==
    /\ BatchSize > (windows[1].size + 1 + windows[2].size + 1 + Max(Lengths)) * TupleSize
    /\ \A s \in Sides : windows[s].slide > 1

\* With such batches every task reads its tuples, and joins each pair once.  With
\* smaller ones a side can complete two tasks in a row: createTask has masked the
\* start of the other side and not its end, which that side's next put would have
\* done.  With a slide of one row the first tuple can be freed alone, and free
\* takes the offset 0 of a buffer that starts there for a whole round.
DirectExact == WellSized => TasksReadTuples /\ JoinedOnce

\* In serial mode no entry is passed over: the lists hold the youngest ids of each
\* side, and when no thread is assembling, nothing is left of the ids before the
\* last that was admitted, whichever thread admitted it.  What the tasks then read
\* is not claimed: an end index is stored before m_lock is taken, and a thread that
\* assembles the other side meanwhile makes its task with it.
SerialInOrder ==
    /\ \A s \in Sides : \A i \in DOMAIN list[s] :
          list[s][i].id = forwardId[s] - Len(list[s]) + i - 1
    /\ pc = [t \in Sides |-> "put"] =>
          \A s \in Sides : list[s] # <<>> => Head(list[s]).id >= assembleId
=============================================================================
