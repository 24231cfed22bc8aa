----------------------------- MODULE NumaBuffers -----------------------------
(***************************************************************************)
(* The input buffers of a NUMA build: NumaCircularQueryBuffer.h and        *)
(* PersistentNumaCircularQueryBuffer.h (without lineage), one circular     *)
(* buffer laid over a memory region per node, with the task queues per     *)
(* node of NumaTaskQueueWrapper.cpp.  The dispatcher puts a bundle; in the *)
(* persistent buffer that is an INSERT task, which a worker copies into    *)
(* its slot and writes to the log, and the slot is acknowledged in order   *)
(* before a task is made of it.  A worker takes tasks of its own node and  *)
(* steals from the next one.  Batches are freed in order when processed.   *)
(*                                                                         *)
(* memory holds the stream offset of each unit.                            *)
(***************************************************************************)
EXTENDS Integers, Sequences, FiniteSets

CONSTANTS
    Capacity,        \* the capacity the constructor is given
    TupleSize,       \* bytes of a tuple
    BatchSize,       \* m_batchSize; of the persistent buffer also its bundles
    Machines,        \* pairs of WORKER_THREADS and cores per socket
    Bundles,         \* the lengths with which the volatile buffer is filled
    MaxBatches       \* bound: batches put

VARIABLES
    machine, bundle, persistent, copyDataOnInsert, compress,   \* the configuration
    source,          \* which put is called: with "values", or a buffer of a pool,
                     \* "unbounded" or "rdma"
    memory,          \* m_buffers: node |-> offset |-> stream offset
    endP, startP, cachedStart, wraps,                \* m_endP, m_startP, m_temp, m_wraps
    slots,           \* m_slot of each slot: -1, 0, 1, 2 or 3
    copied,          \* m_memcpyFinished of each slot
    emptySlots, nextSlotToWrite, nextPersistentSlot, readerSlot, nextFreeSlot,
    queues,          \* m_queues: a queue of tasks per node
    running,         \* the task of each worker, or Idle
    writing,         \* slots whose write has not completed
    batches,         \* batches that tasks have been made of
    done, freed,     \* batches processed; number of batches freed
    pooled,          \* buffers of the pool that have not been given back
    thrown,          \* a put has thrown
    late             \* history: putRows found m_wraps set by a later put

vars == <<machine, bundle, persistent, copyDataOnInsert, compress, source, memory, endP, startP,
          cachedStart, wraps, slots, copied, emptySlots, nextSlotToWrite, nextPersistentSlot, readerSlot, nextFreeSlot,
          queues, running, writing, batches, done, freed, pooled, thrown, late>>
configVars == <<machine, bundle, persistent, copyDataOnInsert, compress, source>>
slotVars == <<slots, copied, emptySlots, nextSlotToWrite, nextPersistentSlot, readerSlot,
              nextFreeSlot>>

Idle == [type |-> "none"]
Unwritten == -1

----------------------------------------------------------------------------
(* The layout, from the number of workers and of cores per socket.         *)

ceilDiv(a, b) == (a + b - 1) \div b

\* Utils::getPowerOfTwo rounds up.
getPowerOfTwo(n) == CHOOSE p \in {1, 2, 4, 8, 16, 32} : p >= n /\ (p = 1 \/ p \div 2 < n)

\* The constructor's layout for the given workers and cores per socket: the last
\* node has room for the workers on it.
layout(threads, cpus) ==
    LET nodes == ceilDiv(threads + 1, cpus)
        max == getPowerOfTwo(Capacity \div nodes)
        size == ((threads - (nodes - 1) * cpus + 1) % cpus) * getPowerOfTwo(max \div cpus)
    IN  [workers |-> threads, cpusPerNode |-> cpus, numaNodes |-> nodes, maxCapacity |-> max,
         minCapacity |-> IF nodes = 1 \/ size = 0 \/ size > max THEN max ELSE getPowerOfTwo(size)]

workers == 1 .. machine.workers
cpusPerNode == machine.cpusPerNode
numaNodes == machine.numaNodes
Nodes == 0 .. numaNodes - 1
maxBufferCapacity == machine.maxCapacity
minBufferCapacity == machine.minCapacity
getBufferCapacity(node) == IF node # numaNodes - 1 THEN maxBufferCapacity ELSE minBufferCapacity
capacity == (numaNodes - 1) * maxBufferCapacity + minBufferCapacity
numberOfSlots == capacity \div BatchSize
Slots == 0 .. numberOfSlots - 1

\* Mutant: the mask is the one the base class sets.
normaliseNotPowerOfTwoMasked(index) == index % (capacity - 1)

normaliseNotPowerOfTwo(index) == index % capacity
getBufferIndex(index) == index \div maxBufferCapacity

normaliseIndex(index, node) == index % getBufferCapacity(node)

\* getNumaNode of the persistent buffer: the node of an INSERT task.
getNumaNode(slot) == (slot \div ceilDiv(numberOfSlots, numaNodes)) % numaNodes

\* TaskProcessorPool binds worker w to core w.
nodeOf(w) == w \div cpusPerNode

Init ==
    /\ machine \in {layout(m[1], m[2]) : m \in Machines} /\ bundle \in Bundles
    /\ persistent \in BOOLEAN /\ copyDataOnInsert \in BOOLEAN
    /\ compress \in BOOLEAN /\ source \in {"values", "unbounded", "rdma"}
    /\ ~persistent => ~compress /\ source # "rdma"
    /\ source # "values" => copyDataOnInsert
    /\ maxBufferCapacity > bundle
    /\ persistent => bundle = BatchSize /\ capacity % bundle = 0
    /\ memory = [n \in Nodes |-> [i \in 0 .. getBufferCapacity(n) - 1 |-> Unwritten]]
    /\ endP = 0 /\ startP = 0 /\ cachedStart = 0 /\ wraps = 0
    /\ slots = [s \in Slots |-> -1] /\ copied = [s \in Slots |-> FALSE]
    /\ emptySlots = numberOfSlots /\ nextSlotToWrite = 0 /\ nextPersistentSlot = 0
    /\ readerSlot = 0 /\ nextFreeSlot = 0
    /\ queues = [n \in Nodes |-> <<>>] /\ running = [w \in workers |-> Idle]
    /\ writing = {} /\ batches = 0 /\ done = {} /\ freed = 0
    /\ pooled = 0 /\ thrown = FALSE /\ late = FALSE

----------------------------------------------------------------------------
(* Tasks                                                                   *)

\* try_enqueue of a sequence of tasks, each to the queue of its node.
enqueued(q, tasks) ==
    [n \in Nodes |-> q[n] \o SelectSeq(tasks, LAMBDA t : t.node = n)]

\* newTaskFor: the free pointer of a batch, whose node is that of the task.
freePointer(b) == normaliseNotPowerOfTwo((b + 1) * BatchSize - 1 - TupleSize)
processTask(b) ==
    [type |-> "PROCESS", number |-> b, node |-> getBufferIndex(freePointer(b))]

\* assemble: the batches that are complete when accumulated bytes are in.
assembled(accumulated) ==
    [i \in 1 .. accumulated \div BatchSize - batches |-> processTask(batches + i - 1)]

\* A batch copied at an index of the circular buffer.
copyTo(index, offset, length) ==
    LET node == getBufferIndex(index)
        at == normaliseIndex(index, node)
    IN  [memory EXCEPT ![node] =
            [i \in DOMAIN @ |-> IF i \in at .. at + length - 1 THEN offset + i - at ELSE @[i]]]

\* NumaTaskQueueWrapper::try_dequeue: the own node first, then the next one.
stealsFrom(w) == (nodeOf(w) + 1) % numaNodes
try_dequeue(w) ==
    /\ running[w] = Idle
    /\ \E n \in {nodeOf(w), stealsFrom(w)} :
          /\ queues[n] # <<>>
          /\ n # nodeOf(w) => queues[nodeOf(w)] = <<>>
          /\ running' = [running EXCEPT ![w] = Head(queues[n])]
          /\ queues' = [queues EXCEPT ![n] = Tail(@)]
    /\ UNCHANGED <<configVars, memory, endP, startP, cachedStart, wraps, slotVars, writing, batches,
                   done, freed, pooled, thrown, late>>

process(w) ==
    /\ running[w].type = "PROCESS"
    /\ done' = done \cup {running[w].number}
    /\ running' = [running EXCEPT ![w] = Idle]
    /\ UNCHANGED <<configVars, memory, endP, startP, cachedStart, wraps, slotVars, queues, writing,
                   batches, freed, pooled, thrown, late>>

----------------------------------------------------------------------------
(* The buffers                                                             *)

wrapPoint == endP + bundle - 1 - capacity
isFull(start) == start <= wrapPoint \/ (persistent /\ emptySlots = 0)
mayPut ==
    /\ ~thrown
    /\ (IF persistent THEN nextSlotToWrite * BatchSize ELSE endP) + bundle <= MaxBatches * BatchSize

\* tryToAcknowledge, once slot flags are f.
acknowledgeable(f) ==
    CHOOSE n \in 0 .. numberOfSlots :
        /\ \A i \in 0 .. n - 1 : f[(nextPersistentSlot + i) % numberOfSlots] = 1
        /\ n < numberOfSlots => f[(nextPersistentSlot + n) % numberOfSlots] # 1
tryToAcknowledge(f) ==
    LET n == acknowledgeable(f)
        acked == {(nextPersistentSlot + i) % numberOfSlots : i \in 0 .. n - 1}
    IN  /\ slots' = [s \in Slots |-> IF s \in acked THEN 2 ELSE f[s]]
        /\ nextPersistentSlot' = (nextPersistentSlot + n) % numberOfSlots
        /\ endP' = endP + n * BatchSize

putFull ==
    /\ mayPut /\ isFull(cachedStart) /\ isFull(startP)
    /\ cachedStart' = startP
    /\ IF persistent THEN tryToAcknowledge(slots)
                     ELSE UNCHANGED <<slots, nextPersistentSlot, endP>>
    /\ UNCHANGED <<configVars, memory, startP, wraps, copied, emptySlots, nextSlotToWrite,
                   readerSlot, nextFreeSlot, queues, running, writing, batches, done, freed, pooled,
                   thrown, late>>

\* The bundle would lie in two regions.
spills(index) ==
    \/ bundle > capacity - index
    \/ bundle > (getBufferIndex(index) + 1) * maxBufferCapacity - index

\* NumaCircularQueryBuffer::put, once it is known whether data is copied, and
\* assemble.
inserted(copies) ==
    LET index == normaliseNotPowerOfTwo(endP)
    IN  /\ ~persistent /\ mayPut /\ ~(isFull(cachedStart) /\ isFull(startP))
        /\ cachedStart' = IF isFull(cachedStart) THEN startP ELSE cachedStart
        /\ thrown' = (copies /\ spills(index))
        /\ IF thrown' THEN UNCHANGED <<memory, wraps, endP, queues, batches>>
           ELSE /\ memory' = IF copies THEN copyTo(index, endP, bundle) ELSE memory
                /\ wraps' = wraps + (IF normaliseNotPowerOfTwo(endP + bundle) <= index THEN 1 ELSE 0)
                /\ endP' = endP + bundle
                /\ queues' = enqueued(queues, assembled(endP + bundle))
                /\ batches' = (endP + bundle) \div BatchSize
        /\ UNCHANGED <<configVars, startP, slotVars, running, writing, done, freed, late>>

put == source = "values" /\ inserted(copyDataOnInsert \/ wraps = 0) /\ UNCHANGED pooled

\* put of a pooled buffer always copies, and gives the buffer back.
putUnbounded ==
    /\ source = "unbounded" /\ inserted(TRUE)
    /\ pooled' = IF thrown' THEN pooled + 1 ELSE pooled

\* createInsertionTask.
insertionTask(slot) == [type |-> "INSERT", number |-> slot, node |-> getNumaNode(slot)]

\* PersistentNumaCircularQueryBuffer::put, in its three forms.
putSlot ==
    LET slot == nextSlotToWrite
        s == slot % numberOfSlots
    IN  /\ persistent /\ mayPut /\ ~(isFull(cachedStart) /\ isFull(startP))
        /\ slots[s] = -1
        /\ cachedStart' = IF isFull(cachedStart) THEN startP ELSE cachedStart
        /\ nextSlotToWrite' = slot + 1
        /\ wraps' = IF slot >= numberOfSlots THEN 1 ELSE wraps
        /\ queues' = enqueued(queues, <<insertionTask(slot)>>)
        /\ pooled' = IF source = "values" THEN pooled ELSE pooled + 1
        /\ emptySlots' = emptySlots - 1
        /\ tryToAcknowledge([slots EXCEPT ![s] = 0])
        /\ UNCHANGED <<configVars, memory, startP, copied, readerSlot, nextFreeSlot, running,
                       writing, batches, done, freed, thrown, late>>

\* putRows, in its three forms.  It looks at m_wraps itself, not at the value its task was given.
insertRows(w) ==
    LET slot == running[w].number
        s == slot % numberOfSlots
        copies == copyDataOnInsert \/ wraps = 0
    IN  /\ running[w].type = "INSERT" /\ slots[s] = 0
        /\ memory' = IF copies THEN copyTo(s * BatchSize, slot * BatchSize, BatchSize) ELSE memory
        /\ late' = (late \/ (~copies /\ slot < numberOfSlots))
        /\ copied' = [copied EXCEPT ![s] = TRUE]
        /\ writing' = writing \cup {s}
        /\ running' = [running EXCEPT ![w] = Idle]
        /\ UNCHANGED <<configVars, endP, startP, cachedStart, wraps, slots, emptySlots,
                       nextSlotToWrite, nextPersistentSlot, readerSlot, nextFreeSlot, queues,
                       batches, done, freed, thrown>>

putRows(w) == source = "values" /\ insertRows(w) /\ UNCHANGED pooled

\* A pooled buffer is given back only where its data is compressed.
putRowsUnbounded(w) ==
    /\ source = "unbounded" /\ insertRows(w)
    /\ pooled' = IF compress THEN pooled - 1 ELSE pooled
putRowsRDMA(w) ==
    /\ source = "rdma" /\ insertRows(w)
    /\ pooled' = IF compress THEN pooled - 1 ELSE pooled

\* The write of a slot completes.
callback(s) ==
    /\ s \in writing /\ slots[s] = 0
    /\ writing' = writing \ {s}
    /\ slots' = [slots EXCEPT ![s] = 1]
    /\ UNCHANGED <<configVars, memory, endP, startP, cachedStart, wraps, copied, emptySlots,
                   nextSlotToWrite, nextPersistentSlot, readerSlot, nextFreeSlot, queues, running,
                   batches, done, freed, pooled, thrown, late>>

\* tryConsumeNextSlot and assemble.
isSlotReady(s) == slots[s] = 2 /\ copied[s]
tryConsumeNextSlot ==
    /\ persistent /\ isSlotReady(readerSlot)
    /\ slots' = [slots EXCEPT ![readerSlot] = 3]
    /\ readerSlot' = (readerSlot + 1) % numberOfSlots
    /\ queues' = enqueued(queues, <<processTask(batches)>>)
    /\ batches' = batches + 1
    /\ UNCHANGED <<configVars, memory, endP, startP, cachedStart, wraps, copied, emptySlots,
                   nextSlotToWrite, nextPersistentSlot, nextFreeSlot, running, writing, done, freed, pooled,
                   thrown, late>>

\* free: what lies between the start pointer and the batch's free pointer.
freedBytes(offset) ==
    LET index == normaliseNotPowerOfTwo(startP)
    IN  IF offset <= index THEN capacity - index + offset + 1 ELSE offset - index + 1
free ==
    /\ freed \in done
    /\ freed' = freed + 1 /\ done' = done \ {freed}
    /\ startP' = startP + freedBytes(freePointer(freed))
    /\ IF persistent
       THEN /\ copied' = [copied EXCEPT ![nextFreeSlot] = FALSE]
            /\ slots' = [slots EXCEPT ![nextFreeSlot] = -1]
            /\ emptySlots' = emptySlots + 1
            /\ nextFreeSlot' = (nextFreeSlot + 1) % numberOfSlots
       ELSE UNCHANGED <<copied, slots, emptySlots, nextFreeSlot>>
    /\ UNCHANGED <<configVars, memory, endP, cachedStart, wraps, nextSlotToWrite,
                   nextPersistentSlot, readerSlot, queues, running, writing, batches, pooled, thrown,
                   late>>

Dispatcher == putFull \/ put \/ putUnbounded \/ putSlot \/ tryConsumeNextSlot
Worker(w) == try_dequeue(w) \/ process(w) \/ putRows(w) \/ putRowsUnbounded(w) \/ putRowsRDMA(w)
Next ==
    \/ Dispatcher
    \/ \E w \in workers : Worker(w)
    \/ \E s \in writing : callback(s)
    \/ free

Spec == Init /\ [][Next]_vars
----------------------------------------------------------------------------

\* prepareCheckpoint: the slots that are marked after the batch with free
\* pointer ptr, of the free batches up to the end of the buffer.
prepareCheckpoint(ptr) ==
    LET end == normaliseNotPowerOfTwo(endP)
        limit == IF ptr > end THEN end + capacity ELSE end
        marked == {k \in 1 .. numberOfSlots : ptr + (k - 1) * BatchSize < limit - BatchSize}
    IN  {normaliseNotPowerOfTwo(ptr + k * BatchSize) \div BatchSize :
            k \in IF marked = {} /\ ptr < limit THEN {1} ELSE marked}

\* Where WindowBatch::setBufferPointers finds byte i of a task.
readBy(t, i) ==
    memory[t.node][normaliseNotPowerOfTwo(t.number * BatchSize + i) % getBufferCapacity(t.node)]

\* A byte may be read for stream offset o: it is that byte or, where the data
\* of the first lap is replayed, the one at the same place in it.
stands(found, o) ==
    IF copyDataOnInsert THEN found = o ELSE found # Unwritten /\ found % capacity = o % capacity

unread == freed .. batches - 1

\* The regions hold a whole number of pieces of n bytes: nothing refuses a
\* volatile buffer whose regions do not.
divides(n) == maxBufferCapacity % n = 0 /\ minBufferCapacity % n = 0
\* Every task that is made of a batch and not yet freed reads that batch, whole,
\* from the region of its own node, whatever nodes the insertions ran on and in
\* whatever order: regions of different size are addressed without overlap, a
\* slot is neither reused nor freed early, and nothing is read that was never
\* copied.  (That needs regions of whole batches, and no insertion of the first
\* lap to run after m_wraps is set.)  A put throws for a bundle in two regions
\* only when the bundles do not divide the regions.
NumaTasksReadBatch ==
    /\ ~late /\ divides(BatchSize) => \A b \in unread : \A i \in 0 .. BatchSize - 1 :
          stands(readBy(processTask(b), i), b * BatchSize + i)
    /\ divides(bundle) => ~thrown

\* When a checkpoint is taken after batch freed - 1, prepareCheckpoint marks the
\* slot of every whole batch that is still in the volatile buffer, unless the
\* buffer is full to the last byte, which it takes for empty.
CheckpointCoversInput ==
    ~persistent /\ freed > 0 /\ divides(BatchSize) /\ endP - startP < capacity
        => {b % numberOfSlots : b \in unread} \subseteq prepareCheckpoint(freePointer(freed - 1))

\* With compression no pooled input buffer is lost: those that are out are the
\* ones of the insertions that have not run.
PoolAccounted ==
    persistent /\ compress /\ source # "values" =>
        pooled = Cardinality({s \in Slots : slots[s] = 0 /\ ~copied[s]})

\* The properties of the input buffers.
NumaBuffersSound == NumaTasksReadBatch /\ CheckpointCoversInput /\ PoolAccounted
==============================================================================
