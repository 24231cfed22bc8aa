----------------------------- MODULE MCConcurrency -----------------------------
(***************************************************************************)
(* Model checking of the parts in which threads share memory without a     *)
(* lock around it, each on its own: the dispatcher of a join, the parallel *)
(* merge of window fragments and the NUMA input buffers; the layers of the *)
(* task queue and the other concurrent queues; the hand-written benchmark  *)
(* programs.  A behaviour is one of one part, which `part` names.  The     *)
(* parts share the variables x1, x2, ...: the k-th variable of a module is *)
(* xk, and those a part does not need stay 0.                              *)
(***************************************************************************)
EXTENDS Integers

CONSTANTS
    Parts,           \* the parts that are checked
    NoView           \* a record of the benchmark programs that is no view

VARIABLES part, x1, x2, x3, x4, x5, x6, x7, x8, x9, x10, x11, x12, x13, x14, x15, x16, x17, x18,
    x19, x20, x21, x22, x23, x24, x25, x26, x27

\* Row-based joins of overlapping and of tumbling windows, fed by two streams
\* directly; and one fed by upstream queries in the order of their tasks.
JoinWindows ==
    {<<[size |-> 3, slide |-> 2], [size |-> 3, slide |-> 2]>>,
     <<[size |-> 2, slide |-> 2], [size |-> 3, slide |-> 3]>>}
SerialWindows == {<<[size |-> 2, slide |-> 2], [size |-> 1, slide |-> 1]>>}

\* Windows that overlap over several batches; that touch; and batches with none.
W(f, l) == [first |-> f, last |-> l]
MergeQueries ==
    {[windows |-> <<W(1, 2), W(1, 3), W(2, 3), W(3, 4), W(3, 5), W(4, 5), W(5, 6)>>, tasks |-> 5],
     [windows |-> <<W(1, 3), W(3, 4), W(3, 6), W(4, 6)>>, tasks |-> 5],
     [windows |-> <<W(1, 1), W(1, 2), W(2, 3), W(3, 3), W(4, 4)>>, tasks |-> 4],
     [windows |-> <<W(1, 1), W(3, 3)>>, tasks |-> 3]}

\* Workers and cores per socket: two equal nodes, a smaller last node, and one
\* that does not hold whole batches.
NumaMachines == {<<1, 1>>, <<2, 2>>, <<3, 3>>}

\* Two of three threads collide.
ThreadHashes == {[t \in 1 .. 3 |-> t \div 2]}

GlobalSamples == {<<0, NoView, 1, NoView>>, <<NoView, 0, 0, NoView>>, <<NoView, NoView, 0, 0>>}
LocalSamples ==
    {<<0, NoView, 1, NoView, NoView, 0, NoView>>, <<NoView, 0, 0, NoView, NoView, 1, NoView>>}
FlinkSamples ==
    {<<0, NoView, 2, NoView, NoView, 4, NoView>>, <<1, 0, NoView, NoView, 3, NoView, NoView>>}

J == INSTANCE JoinTaskDispatcher WITH
       Serial <- {FALSE}, TupleSize <- 2, Capacity <- 16, BatchSize <- 22, Windows <- JoinWindows,
       Lengths <- {1, 2}, Steps <- {<<1, 1>>}, MaxTuples <- 13, serial <- x1, windows <- x2, steps
       <- x3, ring <- x4, endP <- x5, startP <- x6, tuples <- x7, pc <- x8, stored <- x9, start <-
       x10, next <- x11, end <- x12, lastEnd <- x13, toProcess <- x14, list <- x15, held <- x16,
       assembleId <- x17, forwardId <- x18, tasks <- x19, joined <- x20, twice <- x21, seen <- x22
JS == INSTANCE JoinTaskDispatcher WITH
       Serial <- {TRUE}, TupleSize <- 2, Capacity <- 8, BatchSize <- 6, Windows <- SerialWindows,
       Lengths <- {1, 2}, Steps <- {<<1, 1>>}, MaxTuples <- 4, serial <- x1, windows <- x2, steps <-
       x3, ring <- x4, endP <- x5, startP <- x6, tuples <- x7, pc <- x8, stored <- x9, start <- x10,
       next <- x11, end <- x12, lastEnd <- x13, toProcess <- x14, list <- x15, held <- x16,
       assembleId <- x17, forwardId <- x18, tasks <- x19, joined <- x20, twice <- x21, seen <- x22
P == INSTANCE ParallelMerge WITH
       NumberOfSlots <- 4, WindowSlots <- 4, Batches <- 4, NumDownstream <- 1, Mergers <- 2, Queries
       <- MergeQueries, MaxMarks <- 1, windows <- x1, result <- x2, win <- x3, nextToAggregate <-
       x4, nextToForward <- x5, nextWindowToForward <- x6, currentWindowSlot <- x7, openingList <-
       x8, available <- x9, reserved <- x10, toRelease <- x11, forwardId <- x12, prepare <- x13,
       window <- x14, latest <- x15, merging <- x16, forward <- x17, marker <- x18, marks <- x19,
       filled <- x20, delivered <- x21, freed <- x22, tasks <- x23, releasing <- x24
N == INSTANCE NumaBuffers WITH
       Capacity <- 16, TupleSize <- 2, BatchSize <- 4, Machines <- NumaMachines, Bundles <- {2, 4,
       6}, MaxBatches <- 6, machine <- x1, bundle <- x2, persistent <- x3, copyDataOnInsert <- x4,
       compress <- x5, source <- x6, memory <- x7, endP <- x8, startP <- x9, cachedStart <- x10,
       wraps <- x11, slots <- x12, copied <- x13, emptySlots <- x14, nextSlotToWrite <- x15,
       nextPersistentSlot <- x16, readerSlot <- x17, nextFreeSlot <- x18, queues <- x19, running <-
       x20, writing <- x21, batches <- x22, done <- x23, freed <- x24, pooled <- x25, thrown <- x26,
       late <- x27
S == INSTANCE SubQueue WITH
       BlockSize <- 2, Width <- 16, Blocks <- {1, 2, 3}, IndexSize <- 2, Starts <- [explicit |->
       {14}, implicit |-> {14}], Consumers <- {1, 2}, Counts <- {3}, Maxima <- {2}, MaxItems <- 5,
       MaxHeaders <- 2, kind <- x1, start <- x2, tailIndex <- x3, headIndex <- x4, optimistic <- x5,
       overcommit <- x6, elements <- x7, done <- x8, next <- x9, pool <- x10, tailBlock <- x11,
       slotsUsed <- x12, front <- x13, headers <- x14, entries <- x15, enqueuing <- x16, items <-
       x17, consumer <- x18, got <- x19, exact <- x20, injected <- x21
F == INSTANCE FreeList WITH
       Nodes <- {1, 2, 3}, Threads <- {1, 2}, Null <- 0, freeListHead <- x1, freeListRefs <- x2,
       freeListNext <- x3, pc <- x4, head <- x5, top <- x6, node <- x7, getting <- x8, owned <- x9,
       asserted <- x10
H == INSTANCE ProducerHash WITH
       Threads <- {1, 2, 3}, Hashes <- ThreadHashes, InitialSize <- 2, Tokens <- {1}, MaxFailures <-
       1, hashOf <- x1, hashes <- x2, hashCount <- x3, resizing <- x4, producers <- x5, at <- x6,
       mainHash <- x7, newCount <- x8, mine <- x9, exact <- x10, token <- x11, failures <- x12
T == INSTANCE ConsumerToken WITH
       Consumers <- {0, 1}, Tokenless <- {1}, Quota <- 2, Maxima <- {1, 2}, MaxProducers <- 3,
       MaxItems <- 3, Width <- 4, size <- x1, enqueued <- x2, globalOffset <- x3, token <- x4, call
       <- x5
R == INSTANCE ReaderWriterQueue WITH
       MaxBlockSize <- 2, MaxSizes <- {1, 4}, MaxItems <- 7, MaxBlocks <- 6, maxSize <- x1, block <-
       x2, frontBlock <- x3, tailBlock <- x4, largestBlockSize <- x5, producer <- x6, consumer <-
       x7, enqueued <- x8, removed <- x9, wrong <- x10
B == INSTANCE BlockingQueue WITH
       Kinds <- {"mpmc", "spsc"}, Producers <- {1, 2}, Consumers <- {1, 2, 3}, Counts <- {2}, Maxima
       <- {2}, MaxItems <- 2, kind <- x1, m_count <- x2, m_sema <- x3, size <- x4, enqueued <- x5,
       producer <- x6, consumer <- x7, asserted <- x8
Q == INSTANCE SpscQueue WITH
       MaxItems <- 10, MaxNodes <- 6, node <- x1, tail <- x2, head <- x3, first <- x4, tailCopy <-
       x5, producing <- x6, consuming <- x7, enqueued <- x8, dequeued <- x9, wrong <- x10
G == INSTANCE GlobalWindows WITH
       Threads <- {0, 1}, CampaingCnt <- 2, WindowSizeInSec <- 2, MaxTime <- 4, ProcessCnt <- 4,
       BatchSize <- 2, Samples <- GlobalSamples, time <- x1, hashTable <- x2, resetAt <- x3, at <-
       x4, counted <- x5, raced <- x6, recs <- x7, position <- x8
L == INSTANCE LocalWindows WITH
       Threads <- {0, 1}, CampaingCnt <- 2, WindowSizeInSec <- 2, MaxTime <- 4, ProcessCnt <- 7,
       Garbage <- {0, 5}, Samples <- LocalSamples, time <- x1, recs <- x2, hashTable <- x3, resetAt
       <- x4, thread <- x5, finalResultHT <- x6, memory <- x7, switchedAt <- x8
K == INSTANCE FlinkApproach WITH
       Threads <- {0, 1}, Producers <- {1, 2}, BufferSize <- 2, CampaingCnt <- 2, WindowSizeInSec <-
       2, MaxTime <- 2, ProcessCnt <- 7, Samples <- FlinkSamples, time <- x1, hashTable <- x2,
       resetAt <- x3, at <- x4, counted <- x5, raced <- x6, recs <- x7, position <- x8, content <-
       x9, pos <- x10, queue <- x11, exitProgram <- x12, buff <- x13, next <- x14, consumed <- x15,
       unsent <- x16, pushedTuples <- x17, overwritten <- x18, late <- x19

vars == <<part, x1, x2, x3, x4, x5, x6, x7, x8, x9, x10, x11, x12, x13, x14, x15, x16, x17, x18,
           x19, x20, x21, x22, x23, x24, x25, x26, x27>>

\* The variables beyond the first k.
Beyond5 == <<x6, x7, x8, x9, x10, x11, x12, x13, x14, x15, x16, x17, x18, x19, x20, x21, x22, x23,
    x24, x25, x26, x27>>
Beyond8 == <<x9, x10, x11, x12, x13, x14, x15, x16, x17, x18, x19, x20, x21, x22, x23, x24, x25,
    x26, x27>>
Beyond10 == <<x11, x12, x13, x14, x15, x16, x17, x18, x19, x20, x21, x22, x23, x24, x25, x26, x27>>
Beyond12 == <<x13, x14, x15, x16, x17, x18, x19, x20, x21, x22, x23, x24, x25, x26, x27>>
Beyond19 == <<x20, x21, x22, x23, x24, x25, x26, x27>>
Beyond21 == <<x22, x23, x24, x25, x26, x27>>
Beyond22 == <<x23, x24, x25, x26, x27>>
Beyond24 == <<x25, x26, x27>>

\* A part starts with the others' variables at 0.
Only5 ==
    /\ x6 = 0 /\ x7 = 0 /\ x8 = 0 /\ x9 = 0 /\ x10 = 0 /\ x11 = 0 /\ x12 = 0 /\ x13 = 0 /\ x14 = 0
    /\ x15 = 0 /\ x16 = 0 /\ x17 = 0 /\ x18 = 0 /\ x19 = 0 /\ x20 = 0 /\ x21 = 0 /\ x22 = 0 /\ x23 = 0
    /\ x24 = 0 /\ x25 = 0 /\ x26 = 0 /\ x27 = 0
Only8 ==
    /\ x9 = 0 /\ x10 = 0 /\ x11 = 0 /\ x12 = 0 /\ x13 = 0 /\ x14 = 0 /\ x15 = 0 /\ x16 = 0 /\ x17 = 0
    /\ x18 = 0 /\ x19 = 0 /\ x20 = 0 /\ x21 = 0 /\ x22 = 0 /\ x23 = 0 /\ x24 = 0 /\ x25 = 0 /\ x26 = 0
    /\ x27 = 0
Only10 ==
    /\ x11 = 0 /\ x12 = 0 /\ x13 = 0 /\ x14 = 0 /\ x15 = 0 /\ x16 = 0 /\ x17 = 0 /\ x18 = 0 /\ x19 = 0
    /\ x20 = 0 /\ x21 = 0 /\ x22 = 0 /\ x23 = 0 /\ x24 = 0 /\ x25 = 0 /\ x26 = 0 /\ x27 = 0
Only12 ==
    /\ x13 = 0 /\ x14 = 0 /\ x15 = 0 /\ x16 = 0 /\ x17 = 0 /\ x18 = 0 /\ x19 = 0 /\ x20 = 0 /\ x21 = 0
    /\ x22 = 0 /\ x23 = 0 /\ x24 = 0 /\ x25 = 0 /\ x26 = 0 /\ x27 = 0
Only19 ==
    /\ x20 = 0 /\ x21 = 0 /\ x22 = 0 /\ x23 = 0 /\ x24 = 0 /\ x25 = 0 /\ x26 = 0 /\ x27 = 0
Only21 ==
    /\ x22 = 0 /\ x23 = 0 /\ x24 = 0 /\ x25 = 0 /\ x26 = 0 /\ x27 = 0
Only22 ==
    /\ x23 = 0 /\ x24 = 0 /\ x25 = 0 /\ x26 = 0 /\ x27 = 0
Only24 ==
    /\ x25 = 0 /\ x26 = 0 /\ x27 = 0

Init ==
    /\ part \in Parts
    /\ \/ part = "join" /\ J!Init /\ Only22
       \/ part = "serial" /\ JS!Init /\ Only22
       \/ part = "merge" /\ P!Init /\ Only24
       \/ part = "numa" /\ N!Init
       \/ part = "subqueue" /\ S!Init /\ Only21
       \/ part = "freelist" /\ F!Init /\ Only10
       \/ part = "hash" /\ H!Init /\ Only12
       \/ part = "token" /\ T!Init /\ Only5
       \/ part = "readerwriter" /\ R!Init /\ Only10
       \/ part = "blocking" /\ B!Init /\ Only8
       \/ part = "spsc" /\ Q!Init /\ Only10
       \/ part = "global" /\ G!Init /\ Only8
       \/ part = "local" /\ L!Init /\ Only8
       \/ part = "flink" /\ K!Init /\ Only19

Next ==
    /\ UNCHANGED part
    /\ \/ part = "join" /\ J!Next /\ UNCHANGED Beyond22
       \/ part = "serial" /\ JS!Next /\ UNCHANGED Beyond22
       \/ part = "merge" /\ P!Next /\ UNCHANGED Beyond24
       \/ part = "numa" /\ N!Next
       \/ part = "subqueue" /\ S!Next /\ UNCHANGED Beyond21
       \/ part = "freelist" /\ F!Next /\ UNCHANGED Beyond10
       \/ part = "hash" /\ H!Next /\ UNCHANGED Beyond12
       \/ part = "token" /\ T!Next /\ UNCHANGED Beyond5
       \/ part = "readerwriter" /\ R!Next /\ UNCHANGED Beyond10
       \/ part = "blocking" /\ B!Next /\ UNCHANGED Beyond8
       \/ part = "spsc" /\ Q!Next /\ UNCHANGED Beyond10
       \/ part = "global" /\ G!Next /\ UNCHANGED Beyond8
       \/ part = "local" /\ L!Next /\ UNCHANGED Beyond8
       \/ part = "flink" /\ K!Next /\ UNCHANGED Beyond19

Spec == Init /\ [][Next]_vars
----------------------------------------------------------------------------
(* The properties of the parts; their meaning is explained there.          *)

\* Every task is given the data it stands for, once.  A join that is fed directly
\* reads consecutive tuples that are not written over, and joins each pair once,
\* when its batches are WellSized; fed by upstream queries it takes their results in
\* order.  The parallel merge never waits on itself, and when no window is within one
\* batch and every batch leaves one open (Overlapping) it forwards every window whole.
\* The NUMA buffers hand every batch out once, of machines whose nodes hold it.
TasksExact ==
    CASE part = "join" -> J!DirectExact
      [] part = "serial" -> JS!SerialInOrder
      [] part = "merge" -> P!ParallelMergeSound
      [] part = "numa" -> N!NumaBuffersSound
      [] OTHER -> TRUE

\* The windows that aggregateWindowsAndForwardAndFree forwards are whole and in order
\* for every query: a window slot that is "ready to forward with Buffer result" has
\* a result to forward.
MergedWindowsExact == part = "merge" => P!WindowsExact

\* The queues hand over every element once and in order: the blocks of a producer
\* (of an explicit one until an insertion in bulk has failed), the free list, the
\* table of producers and the consumer tokens of the task queue (ConcurrentQueue.h),
\* the two single-producer queues, and the semaphores of the blocking ones.  A
\* dequeue that returns false has tried every producer, and found it empty or looked
\* while another consumer was dequeuing there.
QueuesExact ==
    CASE part = "subqueue" -> S!SubQueueExact
      [] part = "freelist" -> F!FreeListExact
      [] part = "hash" -> H!ProducersExact
      [] part = "token" -> T!FalseWhenEmpty
      [] part = "readerwriter" -> R!FifoExact
      [] part = "blocking" -> B!TicketsExact
      [] part = "spsc" -> Q!ListExact
      [] OTHER -> TRUE

\* The atomic counts of the benchmark programs.  A shared table (process_window_mem,
\* cosume_window_mem) holds the views counted in it since its newest time stamp was
\* first stored, except where the unsynchronised resets lose some: a view met a
\* reset, or the table was reset twice for one window.  The final table of
\* process_window_mem_local holds the last windows of all threads.  Every pushed
\* tuple is counted once, unless it was pushed after its consumer saw an empty queue
\* and stopped, or its array was filled again before it was read.
BenchmarksExact ==
    CASE part = "global" -> G!TablesExact
      [] part = "local" -> L!FinalExact
      [] part = "flink" -> K!SentIsCounted
      [] OTHER -> TRUE
================================================================================
