----------------------------- MODULE MCAlgorithms -----------------------------
(***************************************************************************)
(* Model checking of the two ends of a task.  The dispatching thread that  *)
(* makes it and its buffer (TaskDispatcher, extended here): units are half *)
(* tuples, with batches of two tuples, a buffer of four batches,           *)
(* dispatches of half a batch to three, and a stream of two and a half     *)
(* laps.  The algorithms that the engine generates or runs within a task,  *)
(* each against a reference definition: the window kernels with the merge  *)
(* of their fragments (WindowComputation), the group-by hash table and its *)
(* merges (HashTable), the code of a general aggregation graph             *)
(* (GeneralAggregationGraph) and the window pointers of a batch            *)
(* (WindowBatch).  A behaviour is one of one part, as in MCFaultTolerance. *)
(***************************************************************************)
EXTENDS TaskDispatcher

CONSTANTS
    UsePtrs, PartialWindows, BatchSizes, MaxBatch,               \* WindowComputation
    Keys, NoKey, Size, Barriers, MaxTuple, MaxFragment,          \* HashTable
    Values, INT_MAX,                                             \* GeneralAggregationGraph
    PARTIAL_WINDOWS, PointerBatches, Gaps, MaxTuples             \* WindowBatch

VARIABLES
    part,
    cql, batchSize, batches, computed, slot, output, thrown,
    hash, barrier, table, fragments, tuples, pane, panes, batch, aborted,
    shape, graph, processed, answers, recent,
    definition, pointerBatch, stamps, pointers

\* Tumbling and sliding windows of rows and of time; MIN and SUM, with and without
\* groups; one or two tuples to a timestamp; a group in every tuple or in every
\* second or third.
Queries ==
    {q \in [size : {2, 3, 4, 6, 9}, slide : 1 .. 9, range : BOOLEAN, grouped : BOOLEAN,
            invertible : BOOLEAN, rate : 1 .. 2, every : 1 .. 3] :
       /\ q.size % q.slide = 0 /\ (~q.range => q.rate = 1)
       /\ q.every = 3 => q.grouped}
Tuples == 0 .. 40

Hashes == [Keys -> 0 .. Size - 1]

\* Single windows of every function, and several windows in one graph.
Graphs ==
    [type : {"SUM", "MIN", "MAX"}, windows : {{2}, {3}, {4}}, multiple : {FALSE}]
      \cup [type : {"SUM"}, windows : {{1, 2}, {2, 3}, {1, 3}, {1, 2, 3}, {2, 4}}, multiple : {TRUE}]
      \cup [type : {"MIN"}, windows : {{1, 3}}, multiple : {TRUE}]

\* Windows that overlap, touch, and whose slide does not divide their size.
Definitions == {d \in [size : 1 .. 4, slide : 1 .. 4, range : BOOLEAN] : d.slide <= d.size}

W == INSTANCE WindowComputation
H == INSTANCE HashTable
G == INSTANCE GeneralAggregationGraph
B == INSTANCE WindowBatch WITH batchSize <- pointerBatch, BatchSizes <- PointerBatches

computationVars == <<cql, batchSize, batches, computed, slot, output, thrown>>
tableVars == <<hash, barrier, table, fragments, tuples, pane, panes, batch, aborted>>
graphVars == <<shape, graph, processed, answers, recent>>
batchVars == <<definition, pointerBatch, stamps, pointers>>
algorithmVars == <<computationVars, tableVars, graphVars, batchVars>>
allVars == <<part, algorithmVars, vars>>

\* What the variables of the other parts keep.
NoComputation ==
    /\ cql = 0 /\ batchSize = 0 /\ batches = 0 /\ computed = 0 /\ slot = 0 /\ output = 0 /\ thrown = 0
NoTable ==
    /\ hash = 0 /\ barrier = 0 /\ table = 0 /\ fragments = 0 /\ tuples = 0 /\ pane = 0 /\ panes = 0
    /\ batch = 0 /\ aborted = 0
NoGraph == shape = 0 /\ graph = 0 /\ processed = 0 /\ answers = 0 /\ recent = 0
NoBatch == definition = 0 /\ pointerBatch = 0 /\ stamps = 0 /\ pointers = 0

MCInit ==
    /\ Init
    /\ \/ part = "dispatcher" /\ NoComputation /\ NoTable /\ NoGraph /\ NoBatch
       \/ part = "computation" /\ W!Init /\ NoTable /\ NoGraph /\ NoBatch
       \/ part = "table" /\ H!Init /\ NoComputation /\ NoGraph /\ NoBatch
       \/ part = "graph" /\ G!Init /\ NoComputation /\ NoTable /\ NoBatch
       \/ part = "batch" /\ B!Init /\ NoComputation /\ NoTable /\ NoGraph

InDispatcher(A) == part = "dispatcher" /\ A /\ UNCHANGED <<part, algorithmVars>>
InComputation(A) ==
    part = "computation" /\ A /\ UNCHANGED <<part, tableVars, graphVars, batchVars, vars>>
InTable(A) == part = "table" /\ A /\ UNCHANGED <<part, computationVars, graphVars, batchVars, vars>>
InGraph(A) == part = "graph" /\ A /\ UNCHANGED <<part, computationVars, tableVars, batchVars, vars>>
InBatch(A) == part = "batch" /\ A /\ UNCHANGED <<part, computationVars, tableVars, graphVars, vars>>

MCNext ==
    \/ InDispatcher(Next)
    \/ InComputation(W!Next) \/ InTable(H!Next) \/ InGraph(G!Next) \/ InBatch(B!Next)

MCSpec == MCInit /\ [][MCNext]_allVars
----------------------------------------------------------------------------
(* The properties of the parts; their meaning is explained there, as is    *)
(* that of the dispatcher's.                                               *)

\* The generated processData finds exactly the windows within its batch, of the
\* queries that BatchHoldsWindow describes.
CompleteWindowsExact == part = "computation" => W!CompleteWindowsExact
\* Over a stream of batches every window comes out of the merge once and whole, of
\* the queries that MergeExact describes.
WindowsExact == part = "computation" => W!WindowsExact
\* insert_or_modify, reset and clear keep one bucket for each group.
TableIsAMap == part = "table" => H!TableIsAMap
\* aggregatePartials in all its variants unites the groups of two fragments.
MergeIsUnion == part = "table" => H!MergeIsUnion
\* query and queryMult of a general aggregation graph answer the window's panes.
GraphAnswersWindow == part = "graph" => G!GraphAnswersWindow
\* initPartialWindowPointers finds where each window of a batch opens and closes.
BoundariesExact == part = "batch" => B!BoundariesExact
===============================================================================
