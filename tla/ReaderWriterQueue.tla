-------------------------- MODULE ReaderWriterQueue --------------------------
(***************************************************************************)
(* readerwriterqueue.h: a queue for one producer and one consumer, a ring  *)
(* of blocks each of which is a ring of slots.  The producer owns the tail *)
(* indices and tailBlock, the consumer the front indices and frontBlock;   *)
(* each keeps a copy of the other's index and reads the original only when *)
(* the copy says full or empty.  A step reads or writes one location that  *)
(* the other thread uses; the fences order the steps as written here.      *)
(*                                                                         *)
(* Elements are numbered in the order in which they are enqueued.          *)
(***************************************************************************)
EXTENDS Integers, Sequences, FiniteSetsExt

CONSTANTS
    MaxBlockSize,        \* MAX_BLOCK_SIZE
    MaxSizes,            \* the maxSize the queue may be constructed for
    MaxItems,            \* bound: elements enqueued
    MaxBlocks            \* bound: blocks allocated

VARIABLES
    maxSize,
    block,               \* the blocks: size, next, front, tail, the copies, data
    frontBlock, tailBlock,
    largestBlockSize,
    producer,            \* the place of the producer, and its locals
    consumer,
    enqueued, removed,   \* elements published by the producer, removed by the consumer
    wrong                \* history: a value out of order, an assert that failed,
                         \* a false that was not justified

vars == <<maxSize, block, frontBlock, tailBlock, largestBlockSize, producer, consumer, enqueued,
          removed, wrong>>

ceilToPow2(x) == CHOOSE p \in {2 ^ k : k \in 0 .. x} : p >= x /\ p < 2 * x

make_block(size, next) ==
    [size |-> size, next |-> next, front |-> 0, tail |-> 0, localFront |-> 0, localTail |-> 0,
     data |-> [i \in 0 .. size - 1 |-> 0]]

\* The constructor: one block, or a ring of blocks of the largest size.
initialBlocks(m) ==
    IF ceilToPow2(m + 1) > MaxBlockSize * 2
      THEN LET n == (m + MaxBlockSize * 2 - 3) \div (MaxBlockSize - 1)
           IN  [b \in 1 .. n |-> make_block(MaxBlockSize, (b % n) + 1)]
      ELSE <<make_block(ceilToPow2(m + 1), 1)>>

IdleProducer == [pc |-> "idle", canAlloc |-> FALSE, room |-> FALSE, target |-> 0]
IdleConsumer == [pc |-> "idle", op |-> "none", nonEmpty |-> FALSE, next |-> 0]

Init ==
    /\ maxSize \in MaxSizes
    /\ block = initialBlocks(maxSize)
    /\ frontBlock = 1 /\ tailBlock = 1 /\ largestBlockSize = block[1].size
    /\ producer = IdleProducer /\ consumer = IdleConsumer
    /\ enqueued = 0 /\ removed = 0 /\ wrong = FALSE

after(b, i) == (i + 1) % block[b].size

(* The producer: inner_enqueue. *)

producerUnchanged == UNCHANGED <<maxSize, frontBlock, consumer, removed>>
toProducer(pc) == producer' = [producer EXCEPT !.pc = pc]

\* enqueue, or try_enqueue, which does not allocate.
startEnqueue(canAlloc) ==
    /\ producer.pc = "idle" /\ enqueued < MaxItems
    /\ producer' = [pc |-> "room", canAlloc |-> canAlloc, room |-> enqueued - removed < maxSize,
                    target |-> 0]
    /\ UNCHANGED <<block, tailBlock, largestBlockSize, enqueued, wrong>> /\ producerUnchanged

\* There is room in the tail block, by the copy of front or by front itself.
findRoom ==
    LET t == block[tailBlock]
        next == after(tailBlock, t.tail)
        byCopy == next # t.localFront
    IN  /\ producer.pc = "room"
        /\ block' = IF byCopy THEN block ELSE [block EXCEPT ![tailBlock].localFront = t.front]
        /\ toProducer(IF byCopy \/ next # t.front THEN "write" ELSE "next")
        /\ UNCHANGED <<tailBlock, largestBlockSize, enqueued, wrong>> /\ producerUnchanged

\* The element is written, then the tail advances.
writeElement ==
    /\ producer.pc = "write"
    /\ block' = [block EXCEPT ![tailBlock].data[block[tailBlock].tail] = enqueued + 1]
    /\ toProducer("publish")
    /\ UNCHANGED <<tailBlock, largestBlockSize, enqueued, wrong>> /\ producerUnchanged
publish ==
    /\ producer.pc = "publish"
    /\ block' = [block EXCEPT ![tailBlock].tail = after(tailBlock, @)]
    /\ enqueued' = enqueued + 1 /\ producer' = IdleProducer
    /\ UNCHANGED <<tailBlock, largestBlockSize, wrong>> /\ producerUnchanged

\* Mutant: a block is free as soon as it is empty, the front block included.
freeAheadEmpty(next) == block[next].front = block[next].tail
freeAhead(next) == next # frontBlock

\* The block is full; the one ahead is free if it is not the front block.
useNextBlock ==
    LET next == block[tailBlock].next
        n == block[next]
    IN  /\ producer.pc = "next" /\ freeAhead(next)
        /\ block' = [block EXCEPT ![next].localFront = n.front,
                                  ![next].data[n.tail] = enqueued + 1,
                                  ![next].tail = after(next, n.tail)]
        /\ wrong' = (wrong \/ n.front # n.tail)
        /\ producer' = [producer EXCEPT !.pc = "advance", !.target = next]
        /\ UNCHANGED <<tailBlock, largestBlockSize, enqueued>> /\ producerUnchanged

\* It is the front block: a block of the same or twice the size is put in between.
addBlock ==
    LET size == IF largestBlockSize >= MaxBlockSize THEN largestBlockSize ELSE largestBlockSize * 2
        new == Len(block) + 1
        b == make_block(size, block[tailBlock].next)
    IN  /\ producer.pc = "next" /\ ~freeAhead(block[tailBlock].next)
        /\ producer.canAlloc /\ new <= MaxBlocks
        /\ block' = Append([block EXCEPT ![tailBlock].next = new],
                           [b EXCEPT !.data[0] = enqueued + 1, !.tail = 1, !.localTail = 1])
        /\ largestBlockSize' = size
        /\ producer' = [producer EXCEPT !.pc = "advance", !.target = new]
        /\ UNCHANGED <<tailBlock, enqueued, wrong>> /\ producerUnchanged

\* tailBlock is set last.
advanceTail ==
    /\ producer.pc = "advance"
    /\ tailBlock' = producer.target
    /\ enqueued' = enqueued + 1 /\ producer' = IdleProducer
    /\ UNCHANGED <<block, largestBlockSize, wrong>> /\ producerUnchanged

\* No block may be allocated, or none is to be had: false.
refuse ==
    /\ producer.pc = "next" /\ ~freeAhead(block[tailBlock].next)
    /\ producer' = IdleProducer
    /\ wrong' = (wrong \/ producer.room)
    /\ UNCHANGED <<block, tailBlock, largestBlockSize, enqueued>> /\ producerUnchanged

(* The consumer: try_dequeue, pop and peek. *)

consumerUnchanged == UNCHANGED <<maxSize, tailBlock, largestBlockSize, producer, enqueued>>
toConsumer(pc) == consumer' = [consumer EXCEPT !.pc = pc]

startDequeue(op) ==
    /\ consumer.pc = "idle"
    /\ consumer' = [pc |-> "front", op |-> op, nonEmpty |-> enqueued > removed, next |-> 0]
    /\ UNCHANGED <<block, frontBlock, removed, wrong>> /\ consumerUnchanged

\* There is an element in the front block, by the copy of tail or by tail itself.
findElement ==
    LET f == block[frontBlock]
        byCopy == f.front # f.localTail
    IN  /\ consumer.pc = "front"
        /\ block' = IF byCopy THEN block ELSE [block EXCEPT ![frontBlock].localTail = f.tail]
        /\ toConsumer(IF byCopy \/ f.front # f.tail THEN "read" ELSE "other")
        /\ UNCHANGED <<frontBlock, removed, wrong>> /\ consumerUnchanged

\* It is empty: is there another block?  If so it is looked at again, for the
\* producer may have filled it before it went on.
otherBlock ==
    /\ consumer.pc = "other"
    /\ IF frontBlock = tailBlock
         THEN consumer' = IdleConsumer /\ wrong' = (wrong \/ consumer.nonEmpty)
         ELSE toConsumer("again") /\ UNCHANGED wrong
    /\ UNCHANGED <<block, frontBlock, removed>> /\ consumerUnchanged
lookAgain ==
    LET f == block[frontBlock] IN
    /\ consumer.pc = "again"
    /\ block' = [block EXCEPT ![frontBlock].localTail = f.tail]
    /\ toConsumer(IF f.front # f.tail THEN "read" ELSE "next")
    /\ UNCHANGED <<frontBlock, removed, wrong>> /\ consumerUnchanged

\* The front block goes to the next, which cannot be empty; peek only reads there.
nextBlock ==
    LET next == block[frontBlock].next
        n == block[next]
        peeks == consumer.op = "peek"
    IN  /\ consumer.pc = "next"
        /\ block' = IF peeks THEN block ELSE [block EXCEPT ![next].localTail = n.tail]
        /\ frontBlock' = IF peeks THEN frontBlock ELSE next
        /\ consumer' = IF peeks THEN IdleConsumer ELSE [consumer EXCEPT !.pc = "read"]
        /\ wrong' = (wrong \/ n.front = n.tail \/ (peeks /\ n.data[n.front] # removed + 1))
        /\ UNCHANGED removed /\ consumerUnchanged

\* The element is read, then the front advances.
readElement ==
    LET f == block[frontBlock] IN
    /\ consumer.pc = "read"
    /\ wrong' = (wrong \/ (consumer.op # "pop" /\ f.data[f.front] # removed + 1))
    /\ consumer' = IF consumer.op = "peek" THEN IdleConsumer ELSE [consumer EXCEPT !.pc = "remove"]
    /\ UNCHANGED <<block, frontBlock, removed>> /\ consumerUnchanged
remove ==
    /\ consumer.pc = "remove"
    /\ block' = [block EXCEPT ![frontBlock].front = after(frontBlock, @)]
    /\ removed' = removed + 1 /\ consumer' = IdleConsumer
    /\ UNCHANGED <<frontBlock, wrong>> /\ consumerUnchanged

inner_enqueue ==
    \/ \E canAlloc \in BOOLEAN : startEnqueue(canAlloc)
    \/ findRoom \/ writeElement \/ publish \/ useNextBlock \/ addBlock \/ advanceTail \/ refuse
dequeue(op) ==
    \/ startDequeue(op)
    \/ /\ consumer.op = op
       /\ findElement \/ otherBlock \/ lookAgain \/ nextBlock \/ readElement \/ remove
try_dequeue == dequeue("dequeue")
peek == dequeue("peek")
pop == dequeue("pop")

Next == inner_enqueue \/ try_dequeue \/ peek \/ pop

Spec == Init /\ [][Next]_vars
----------------------------------------------------------------------------

\* The elements of a block, from front to tail.
elements(b) ==
    [i \in 1 .. (block[b].tail - block[b].front) % block[b].size |->
       block[b].data[(block[b].front + i - 1) % block[b].size]]

\* The elements from block b to the tail block.
contents[b \in DOMAIN block, n \in 0 .. MaxBlocks] ==
    elements(b) \o IF b = tailBlock \/ n = 0 THEN <<>> ELSE contents[block[b].next, n - 1]

\* The blocks from the front to the tail block hold what has been enqueued and not
\* removed, in order, at every moment: no element is lost, doubled or overtaken
\* when blocks fill, are left, reused or added while the consumer is between two.
\* Every value that is read is the oldest; no assert fails; a false of try_dequeue
\* means that the queue was empty, and try_enqueue refuses no element while there
\* are fewer than the number the queue was constructed for.
FifoExact ==
    /\ ~wrong
    /\ contents[frontBlock, Len(block)] = [i \in 1 .. enqueued - removed |-> removed + i]
==============================================================================
