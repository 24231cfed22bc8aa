------------------------------- MODULE Lineage -------------------------------
(***************************************************************************)
(* checkpoint/LineageGraph.cpp in a pipeline of two queries.  The upstream *)
(* query reads a persistent buffer, one batch per task; the lineage graph  *)
(* of a task carries the offset up to which the input log may be freed.    *)
(* ResultHandler sends the results of a task, in order, to the downstream  *)
(* query's circular buffer and leaves the graph with the slot in which the *)
(* results end, merged with what is there; a downstream task takes the     *)
(* graph of its slot, and when it has been forwarded frees, through        *)
(* freePersistentState, the buffers of both queries.                       *)
(*                                                                         *)
(* Results are counted in units, BatchUnits of them to a downstream batch. *)
(* A graph is the free offset of the upstream node, NoGraph when unset.    *)
(***************************************************************************)
EXTENDS Integers, Sequences, FiniteSetsExt

CONSTANTS
    InSlots,         \* slots of the upstream query's persistent buffer
    OutSlots,        \* slots of the downstream query's circular buffer
    BatchUnits,      \* units of a downstream batch
    MaxIn,           \* bound: batches of the input
    Lengths          \* the lengths a result may have, in units

\* Every result leaves a batch of the downstream buffer free: one that fills
\* the buffer would end in the slot in which it begins.
Sizes ==
    /\ InSlots \in Nat /\ OutSlots \in Nat \ {0} /\ BatchUnits \in Nat \ {0} /\ MaxIn \in Nat
    /\ Lengths \subseteq Nat
    /\ \A length \in Lengths : length <= (OutSlots - 1) * BatchUnits

ASSUME SizesAssumption == Sizes

NoGraph == -1        \* INT_MIN in m_freePtr1 and m_freeOffset1

VARIABLES
    tasksIn,         \* upstream tasks created and not forwarded: free offsets
    emptyIn,         \* m_emptySlots of the persistent buffer
    startIn,         \* its m_startP, in batches
    logStart,        \* the start of its log in persistent memory
    putIn,           \* batches put so far
    heldGraph,       \* m_graph of the upstream result handler
    slotGraph,       \* m_graph of the slots of the downstream buffer
    endOut,          \* m_endP of the downstream buffer, in units
    startOut,        \* m_startP of it, in downstream batches
    tasksOut,        \* downstream tasks not forwarded: their graphs
    tasksMade,       \* downstream tasks created
    lastUnit         \* history: per upstream batch, where its results end

vars == <<tasksIn, emptyIn, startIn, logStart, putIn, heldGraph, slotGraph, endOut, startOut,
          tasksOut, tasksMade, lastUnit>>

Init ==
    /\ tasksIn = <<>> /\ emptyIn = InSlots /\ startIn = 0 /\ logStart = 0 /\ putIn = 0
    /\ heldGraph = NoGraph
    /\ slotGraph = [s \in 0 .. OutSlots - 1 |-> NoGraph]
    /\ endOut = 0 /\ startOut = 0 /\ tasksOut = <<>> /\ tasksMade = 0 /\ lastUnit = <<>>

\* mergeGraphs: the larger offset, and its pointer.
mergeGraphs(g, h) == Max({g, h})

\* put into the persistent buffer, and newTaskFor, which sets the free offset.
dispatchIn ==
    /\ putIn < MaxIn /\ emptyIn > 0
    /\ putIn' = putIn + 1 /\ emptyIn' = emptyIn - 1
    /\ tasksIn' = Append(tasksIn, putIn + 1)
    /\ UNCHANGED <<startIn, logStart, heldGraph, slotGraph, endOut, startOut, tasksOut, tasksMade,
                   lastUnit>>

fits(length) == endOut + length <= (startOut + OutSlots) * BatchUnits

\* Mutant: the graph stays with the slot in which the results begin.
endSlotFirst(length) == (endOut \div BatchUnits) % OutSlots

\* The tasks that assemble has created once length units are in.
tasksAfter(length) == (endOut + length) \div BatchUnits

\* CircularQueryBuffer::put: the slot that takes the graph.
endSlot(length) == tasksAfter(length) % OutSlots

\* The graphs of the slots once put has left graph g with one of them.
slotGraphs(length, g) == [slotGraph EXCEPT ![endSlot(length)] = mergeGraphs(@, g)]

\* The oldest upstream result is not empty: it is put, with the graphs held
\* back, and tasks are made of the full batches, each with its slot's graph.
forwardIn(length) ==
    LET graphs == slotGraphs(length, mergeGraphs(Head(tasksIn), heldGraph))
        slots == {t % OutSlots : t \in tasksMade .. tasksAfter(length) - 1}
    IN  /\ tasksIn # <<>> /\ length > 0 /\ fits(length)
        /\ heldGraph' = NoGraph
        /\ tasksIn' = Tail(tasksIn)
        /\ endOut' = endOut + length
        /\ tasksOut' = tasksOut \o [i \in 1 .. tasksAfter(length) - tasksMade |->
                                      graphs[(tasksMade + i - 1) % OutSlots]]
        /\ tasksMade' = tasksAfter(length)
        /\ slotGraph' = [s \in DOMAIN graphs |-> IF s \in slots THEN NoGraph ELSE graphs[s]]
        /\ lastUnit' = Append(lastUnit, endOut + length)
        /\ UNCHANGED <<emptyIn, startIn, logStart, putIn, startOut>>

\* It is empty: the graph is kept for the next result.
holdGraph ==
    /\ tasksIn # <<>> /\ 0 \in Lengths
    /\ heldGraph' = mergeGraphs(heldGraph, Head(tasksIn))
    /\ tasksIn' = Tail(tasksIn)
    /\ lastUnit' = Append(lastUnit, endOut)
    /\ UNCHANGED <<emptyIn, startIn, logStart, putIn, slotGraph, endOut, startOut, tasksOut,
                   tasksMade>>

\* tryToFree at the upstream node: the log up to the offset, and in the
\* persistent buffer one slot, whatever the number of batches up to the pointer.
tryToFree(g) ==
    /\ logStart' = Max({g, logStart})
    /\ startIn' = Max({g, startIn})
    /\ emptyIn' = IF g = NoGraph THEN emptyIn ELSE emptyIn + 1

\* The oldest downstream task has been forwarded: its own buffer is freed, and
\* freePersistentState visits its query and the upstream one.
forwardOut ==
    /\ tasksOut # <<>>
    /\ startOut' = startOut + 1
    /\ tasksOut' = Tail(tasksOut)
    /\ tryToFree(Head(tasksOut))
    /\ UNCHANGED <<tasksIn, putIn, heldGraph, slotGraph, endOut, tasksMade, lastUnit>>

Next ==
    \/ dispatchIn
    \/ \E length \in Lengths : forwardIn(length)
    \/ holdGraph
    \/ forwardOut

Spec == Init /\ [][Next]_vars
----------------------------------------------------------------------------

TypeOK ==
    /\ tasksIn \in Seq(1 .. MaxIn) /\ tasksOut \in Seq(NoGraph .. MaxIn)
    /\ emptyIn \in 0 .. InSlots /\ {startIn, logStart, putIn} \subseteq 0 .. MaxIn
    /\ heldGraph \in NoGraph .. MaxIn
    /\ slotGraph \in [0 .. OutSlots - 1 -> NoGraph .. MaxIn]
    /\ {endOut, startOut, tasksMade} \subseteq Nat

\* The log of an input batch is freed only when every downstream batch that
\* holds results computed from it has been forwarded: whatever the lengths of
\* the results, across batches that hold results of several tasks, results that
\* span batches, and results that are empty.
FreedAfterResults ==
    \A k \in 1 .. logStart : k <= Len(lastUnit) /\ lastUnit[k] <= startOut * BatchUnits

\* A slot of the persistent buffer is counted empty at most once for each batch
\* that has been freed.  (It can be fewer: when graphs have been merged one call
\* of free returns one slot for several batches.)
SlotsReturnedOnce == emptyIn <= InSlots - (putIn - startIn)

\* No graph is lost on its way: the newest offset that has been sent downstream
\* is in some slot or task, or has been freed.
OffsetsAccounted ==
    LET sent == Len(lastUnit)
    IN  sent > 0 =>
          \/ logStart = sent \/ heldGraph = sent
          \/ \E s \in DOMAIN slotGraph : slotGraph[s] = sent
          \/ \E i \in DOMAIN tasksOut : tasksOut[i] = sent

\* freePersistentState frees the log neither too early nor never.
LineageExact == FreedAfterResults /\ SlotsReturnedOnce /\ OffsetsAccounted

sent == Len(lastUnit)

\* The graph of the batch that is being filled.
filling == slotGraph[tasksMade % OutSlots]

\* A graph that is on its way is of a batch sent and not freed.
OnItsWay(g) == g = NoGraph \/ g \in startIn + 1 .. sent

\* Why LineageExact holds: the tasks are consecutive, only the slot of the batch
\* being filled has a graph, the results behind the graph of a task end in the
\* task's batch, and the graphs on their way have increasing offsets.
GraphsInv ==
    /\ startIn = logStart /\ startIn <= sent
    /\ putIn = sent + Len(tasksIn)
    /\ \A i \in 1 .. Len(tasksIn) : tasksIn[i] = sent + i
    /\ tasksMade = endOut \div BatchUnits
    /\ tasksMade = startOut + Len(tasksOut)
    /\ \A k \in 1 .. sent : lastUnit[k] <= endOut
    /\ \A j, k \in 1 .. sent : j <= k => lastUnit[j] <= lastUnit[k]
    /\ \A s \in 0 .. OutSlots - 1 : s # tasksMade % OutSlots => slotGraph[s] = NoGraph
    /\ OnItsWay(filling)
    /\ heldGraph # NoGraph => heldGraph = sent /\ startIn < sent /\ filling < sent
    /\ \A i \in 1 .. Len(tasksOut) :
          /\ OnItsWay(tasksOut[i])
          /\ tasksOut[i] # NoGraph => lastUnit[tasksOut[i]] <= (startOut + i) * BatchUnits
          /\ filling # NoGraph => tasksOut[i] < filling
          /\ heldGraph # NoGraph => tasksOut[i] < heldGraph
          /\ \A j \in 1 .. i - 1 : tasksOut[i] # NoGraph => tasksOut[j] < tasksOut[i]

IInv == TypeOK /\ lastUnit \in Seq(Nat) /\ GraphsInv /\ LineageExact
=============================================================================
