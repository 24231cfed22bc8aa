------------------------------- MODULE SubQueue -------------------------------
(***************************************************************************)
(* A sub-queue of the task queue, tasks/ConcurrentQueue.h: one producer,   *)
(* explicit (with a token) or implicit (a thread's own), from which any    *)
(* number of consumers dequeue.  Elements are in blocks that the consumers *)
(* reach through a block index; an explicit producer keeps its blocks in a *)
(* ring and uses empty ones again, an implicit one takes them from the     *)
(* pool and the consumer that empties one puts it back (FreeList).         *)
(*                                                                         *)
(* Indices are index_t, Width values of it, and wrap around.  What a       *)
(* thread does between two accesses that others can observe is one step;   *)
(* memory is sequentially consistent.  Item n is the n-th enqueued.        *)
(* Constructors that throw are left out.                                   *)
(***************************************************************************)
EXTENDS Integers, Sequences, FiniteSets, Functions, SequencesExt

CONSTANTS
    BlockSize,       \* BLOCK_SIZE
    Width,           \* values of index_t
    Blocks,          \* the blocks there are: beyond them allocation fails
    IndexSize,       \* EXPLICIT_INITIAL_INDEX_SIZE, IMPLICIT_INITIAL_INDEX_SIZE
    Starts,          \* per kind of producer, "explicit" or "implicit": where tailIndex is
                     \* at the start, as many items have been through the queue, one
                     \* at a time
    Consumers,
    Counts,          \* the numbers of items enqueued at once
    Maxima,          \* the numbers of items dequeued at once
    MaxItems,        \* bound: items enqueued
    MaxHeaders       \* bound: block indices allocated

VARIABLES
    kind, start,
    tailIndex, headIndex, optimistic, overcommit,
    elements, done,  \* per block: its items, and how many have been dequeued
    next,            \* per block: Block::next
    pool,            \* the free blocks
    tailBlock,
    slotsUsed,       \* pr_blockIndexSlotsUsed
    front,           \* pr_blockIndexFront
    headers,         \* the block indices allocated so far, the last one in use
    entries,         \* the entries the implicit headers point to
    enqueuing,       \* the call in progress: items, blocks to be filled and step
    items,           \* the items enqueued so far
    consumer,        \* where each consumer is, and its variables
    got,             \* history: the items dequeued
    exact,           \* history: each of them was the one enqueued at its index
    injected         \* history: a call that failed has left blocks in the ring

prodVars == <<next, tailBlock, slotsUsed, front, headers, items, injected>>
vars == <<kind, start, tailIndex, headIndex, optimistic, overcommit, elements, done, pool, entries,
          enqueuing, prodVars, consumer, got, exact>>

NoBlock == 0
NoItem == 0
INVALID_BLOCK_BASE == -1

mod(n) == n % Width
circular_less_than(a, b) == mod(a - b) > Width \div 2
base(index) == index - (index % BlockSize)

\* (a - b) / BLOCK_SIZE of signed integers.
blocksFrom(b, a) == LET d == mod(a - b) IN
    IF d < Width \div 2 THEN d \div BlockSize ELSE -((Width - d) \div BlockSize)

----------------------------------------------------------------------------
(* The explicit producer's blocks: a ring of blocks, and an index that is  *)
(* a ring of entries too.  p is the producer's part of the state while it  *)
(* allocates the blocks of one call.                                       *)

header(p) == p.headers[Len(p.headers)]
isEmpty(b) == done[b] = BlockSize

\* new_block_index: twice the size, the entries in use copied in order.
new_block_index(p, exposed) ==
    LET old == header(p)
        first == (p.front - p.slotsUsed) % old.size
        copied == [i \in 0 .. p.slotsUsed - 1 |-> old.entries[(first + i) % old.size]]
    IN  [p EXCEPT !.headers = Append(@, [size |-> 2 * old.size, front |-> exposed - 1,
                     entries |-> [i \in 0 .. 2 * old.size - 1 |->
                        IF i < p.slotsUsed THEN copied[i] ELSE [base |-> 0, block |-> NoBlock]]]),
                  !.front = p.slotsUsed]

\* The block becomes the tail block, and gets the next entry of the index.
indexed(p, b) ==
    [p EXCEPT !.tailBlock = b, !.cur = mod(@ + BlockSize), !.chain = Append(@, b),
              !.headers = [@ EXCEPT ![Len(@)].entries[p.front] = [base |-> p.cur, block |-> b]],
              !.front = (@ + 1) % header(p).size]

\* A block of the pool is inserted in the ring behind the tail block.
inserted(p, b) ==
    [indexed(p, b) EXCEPT
        !.next = IF p.tailBlock = NoBlock THEN [@ EXCEPT ![b] = b]
                 ELSE [@ EXCEPT ![b] = p.next[p.tailBlock], ![p.tailBlock] = b],
        !.slotsUsed = @ + 1, !.pool = @ \ {b}]

\* The pool has no block or the queue is full: the blocks inserted stay in the ring,
\* although their entries of the index are given up.
undo(p, before) ==
    [p EXCEPT !.ok = FALSE, !.slotsUsed = before.slotsUsed,
              !.front = IF Len(p.headers) > Len(before.headers) THEN before.slotsUsed ELSE before.front,
              !.tailBlock = IF before.tailBlock # NoBlock THEN before.tailBlock
                            ELSE IF p.chain = <<>> THEN NoBlock ELSE Head(p.chain)]

\* One round of the two loops of enqueue_bulk: the block ahead, if it is empty,
\* or one of the pool, for which the index must have room.
allocateExplicit(p, before, canAlloc) ==
    LET ahead == p.next[p.tailBlock]
        grown == IF p.slotsUsed = header(p).size THEN new_block_index(p, before.slotsUsed) ELSE p
    IN  IF ~p.ok THEN p
        ELSE IF p.tailBlock # NoBlock /\ (p.chain = <<>> \/ ahead # p.chain[1]) /\ isEmpty(ahead)
        THEN indexed(p, ahead)
        ELSE IF ~circular_less_than(headIndex, p.cur + BlockSize)
                \/ (p.slotsUsed = header(p).size /\ ~canAlloc)
        THEN undo(p, before)
        ELSE IF p.pool = {} THEN undo(grown, before)
        ELSE inserted(grown, CHOOSE b \in p.pool : TRUE)

----------------------------------------------------------------------------
(* The implicit producer's blocks.  A header is a ring of pointers to      *)
(* entries, shared with the older headers.                                 *)

\* new_block_index: the old entries, from behind the tail, then new ones.
newImplicitIndex(p) ==
    LET old == header(p)
        n == old.size
        e == Len(p.entries)
    IN  [p EXCEPT
            !.headers = Append(@, [size |-> 2 * n, front |-> n - 1,
                          entries |-> [i \in 0 .. 2 * n - 1 |->
                             IF i < n THEN old.entries[(old.front + 1 + i) % n] ELSE e + 1 + i - n]]),
            !.entries = @ \o [i \in 1 .. n |-> [key |-> INVALID_BLOCK_BASE, value |-> NoBlock]]]

nextEntry(p) == (header(p).front + 1) % header(p).size
freeEntry(p) == LET e == p.entries[header(p).entries[nextEntry(p)]] IN
                e.key = INVALID_BLOCK_BASE \/ e.value = NoBlock

\* insert_block_index_entry, and the block in its entry.
insert_block_index_entry(p, b) ==
    LET i == nextEntry(p) IN
    [p EXCEPT !.headers = [@ EXCEPT ![Len(@)].front = i],
              !.entries = [@ EXCEPT ![header(p).entries[i]] = [key |-> p.cur, value |-> b]],
              !.pool = @ \ {b}, !.chain = Append(@, b), !.tailBlock = b, !.cur = mod(@ + BlockSize)]

\* rewind_block_index_tail, once for each block of the call: the blocks go back.
rewind(p, before) ==
    LET n == Len(p.chain)
        h == header(p)
        gone == {h.entries[(h.front - i) % h.size] : i \in 0 .. n - 1}
    IN  [p EXCEPT !.ok = FALSE, !.tailBlock = before.tailBlock, !.pool = @ \cup Range(p.chain),
                  !.headers = [@ EXCEPT ![Len(@)].front = (@ - n) % h.size],
                  !.entries = [i \in DOMAIN @ |-> IF i \in gone THEN [@[i] EXCEPT !.value = NoBlock]
                                                  ELSE @[i]]]

allocateImplicit(p, before, canAlloc) ==
    LET grown == IF freeEntry(p) THEN p ELSE newImplicitIndex(p)
    IN  IF ~p.ok THEN p
        ELSE IF ~circular_less_than(headIndex, p.cur + BlockSize) \/ (~freeEntry(p) /\ ~canAlloc)
        THEN rewind(p, before)
        ELSE IF p.pool = {} THEN rewind(grown, before)
        ELSE insert_block_index_entry(grown, CHOOSE b \in p.pool : TRUE)

----------------------------------------------------------------------------

\* The base in entry i once `used` blocks have been put in the index in turn.
lastBase(used, i) ==
    IF i >= used THEN INVALID_BLOCK_BASE
    ELSE (used - 1 - ((used - 1 - i) % IndexSize)) * BlockSize

Idle == [at |-> "idle", over |-> 0, my |-> 0, want |-> 0, n |-> 0, index |-> 0, hdr |-> 1,
         slot |-> 0]

\* The block index the constructors allocate, after `used` blocks have been filled
\* and emptied in turn: an explicit producer has used the first one every time.
firstHeader(used) ==
    [size |-> IndexSize, front |-> (used - 1) % IndexSize,
     entries |-> [i \in 0 .. IndexSize - 1 |->
        IF kind = "implicit" THEN i + 1
        ELSE [base |-> lastBase(used, i), block |-> IF i < used THEN 1 ELSE NoBlock]]]

Init ==
    /\ kind \in DOMAIN Starts /\ start \in Starts[kind]
    /\ tailIndex = start /\ headIndex = start /\ optimistic = start /\ overcommit = 0
    /\ elements = [b \in Blocks |-> [i \in 0 .. BlockSize - 1 |-> NoItem]]
    /\ done = [b \in Blocks |-> IF start > 0 THEN BlockSize ELSE 0]
    /\ next = [b \in Blocks |-> b]
    /\ pool = IF kind = "explicit" /\ start > 0 THEN Blocks \ {1} ELSE Blocks
    /\ tailBlock = IF start > 0 THEN 1 ELSE NoBlock
    /\ slotsUsed = IF kind = "explicit" /\ start > 0 THEN 1 ELSE 0
    /\ front = IF kind = "explicit" THEN (start \div BlockSize) % IndexSize ELSE 0
    /\ headers = <<firstHeader(start \div BlockSize)>>
    /\ entries = IF kind = "explicit" THEN <<>>
                 ELSE [i \in 1 .. IndexSize |->
                         [key |-> lastBase(start \div BlockSize, i - 1), value |-> NoBlock]]
    /\ enqueuing = [at |-> "idle", count |-> 0, chain |-> <<>>, block |-> NoBlock]
    /\ items = 0
    /\ consumer = [c \in Consumers |-> Idle]
    /\ got = {} /\ exact = TRUE
    /\ injected = FALSE

consumerUnchanged == UNCHANGED <<kind, start, headIndex, optimistic, overcommit, consumer, got, exact>>

\* The blocks a call needs: one for each index that is the first of a block.
needed(count) == Cardinality({i \in 0 .. count - 1 : mod(tailIndex + i) % BlockSize = 0})

\* Mutant: a block is taken from ahead without looking whether it is empty.
allocateAhead(p, before, canAlloc) ==
    IF p.tailBlock # NoBlock /\ (p.chain = <<>> \/ p.next[p.tailBlock] # p.chain[1])
       /\ kind = "explicit" /\ Cardinality(p.pool) + 2 <= Cardinality(Blocks)
    THEN indexed(p, p.next[p.tailBlock])
    ELSE IF kind = "explicit" THEN allocateExplicit(p, before, canAlloc)
         ELSE allocateImplicit(p, before, canAlloc)

allocate(p, before, canAlloc) ==
    IF kind = "explicit" THEN allocateExplicit(p, before, canAlloc)
    ELSE allocateImplicit(p, before, canAlloc)

\* The producer's part of the state once the blocks of a call are allocated.
allocated(count, canAlloc) ==
    LET firstBase == IF tailIndex % BlockSize = 0 THEN tailIndex
                     ELSE mod(base(tailIndex) + BlockSize)
        before == [tailBlock |-> tailBlock, next |-> next, slotsUsed |-> slotsUsed, front |-> front,
                  headers |-> headers, entries |-> entries, pool |-> pool, cur |-> firstBase,
                  chain |-> <<>>, ok |-> TRUE]
        step(p, i) == allocate(p, before, canAlloc)
    IN  FoldLeft(step, before, [i \in 1 .. needed(count) |-> i])

\* enqueue and enqueue_bulk, first part: the blocks are allocated and put in the
\* index, or nothing is done and the call returns false.
startEnqueue(count, canAlloc) ==
    /\ enqueuing.at = "idle" /\ items + count <= MaxItems
    /\ \E p \in {allocated(count, canAlloc)} :
        /\ Len(p.headers) <= MaxHeaders
        /\ tailBlock' = p.tailBlock /\ next' = p.next /\ slotsUsed' = p.slotsUsed
        /\ front' = p.front /\ headers' = p.headers /\ entries' = p.entries /\ pool' = p.pool
        /\ enqueuing' = IF p.ok
                        THEN [at |-> "write", count |-> count, chain |-> p.chain, block |-> tailBlock]
                        ELSE enqueuing
        /\ done' = IF kind = "implicit" /\ p.ok
                   THEN [b \in Blocks |-> IF b \in Range(p.chain) THEN 0 ELSE done[b]]
                   ELSE [b \in Blocks |-> IF b \in pool \ p.pool THEN BlockSize ELSE done[b]]
        /\ injected' = (injected \/ (kind = "explicit" /\ ~p.ok /\ pool # p.pool))
    /\ UNCHANGED <<tailIndex, elements, items>>
    /\ consumerUnchanged

\* Second part: the blocks are reset and published, and the items written.
write ==
    LET written(i) ==            \* where item i of the call goes: <<block, position>>
          LET pos == mod(tailIndex + i) % BlockSize
              n == needed(i + 1)
          IN  <<IF n = 0 THEN enqueuing.block ELSE enqueuing.chain[n], pos>>
        calls == 0 .. enqueuing.count - 1
    IN  /\ enqueuing.at = "write"
        /\ enqueuing' = [enqueuing EXCEPT !.at = "store"]
        /\ done' = [b \in Blocks |-> IF b \in Range(enqueuing.chain) THEN 0 ELSE done[b]]
        /\ headers' = IF kind = "explicit" /\ enqueuing.chain # <<>>
                      THEN [headers EXCEPT ![Len(headers)].front =
                              (front - 1) % headers[Len(headers)].size]
                      ELSE headers
        /\ elements' = [b \in Blocks |-> [j \in 0 .. BlockSize - 1 |->
                          IF \E i \in calls : written(i) = <<b, j>>
                          THEN items + 1 + (CHOOSE i \in calls : written(i) = <<b, j>>)
                          ELSE elements[b][j]]]
        /\ UNCHANGED <<tailIndex, next, pool, tailBlock, slotsUsed, front, entries, items, injected>>
        /\ consumerUnchanged

storeTail ==
    /\ enqueuing.at = "store"
    /\ tailIndex' = mod(tailIndex + enqueuing.count)
    /\ items' = items + enqueuing.count
    /\ enqueuing' = [enqueuing EXCEPT !.at = "idle"]
    /\ UNCHANGED <<elements, done, next, pool, tailBlock, slotsUsed, front, headers, entries,
                   injected>>
    /\ consumerUnchanged

----------------------------------------------------------------------------
(* dequeue and dequeue_bulk, which claim their items in the same way.      *)

producerUnchanged == UNCHANGED <<kind, start, tailIndex, enqueuing, prodVars>>
goto(c, r) == consumer' = [consumer EXCEPT ![c] = r]
positive(n) == 0 < n /\ n < Width \div 2

startDequeue(c, max) ==
    LET desired == mod(tailIndex - (optimistic - overcommit)) IN
    /\ consumer[c].at = "idle" /\ positive(desired)
    /\ goto(c, [Idle EXCEPT !.at = "claim", !.over = overcommit,
                            !.want = IF desired < max THEN desired ELSE max])
    /\ UNCHANGED <<headIndex, optimistic, overcommit, elements, done, pool, entries, got, exact>>
    /\ producerUnchanged

claim(c) ==
    /\ consumer[c].at = "claim"
    /\ optimistic' = mod(optimistic + consumer[c].want)
    /\ goto(c, [consumer[c] EXCEPT !.at = "check", !.my = optimistic])
    /\ UNCHANGED <<headIndex, overcommit, elements, done, pool, entries, got, exact>>
    /\ producerUnchanged

\* Mutant: the items that were claimed in excess are counted as there.
actualCountAll(c, there) == consumer[c].want

\* The items of the claim that are there.
actualCount(c, there) ==
    IF ~positive(there) THEN 0 ELSE IF consumer[c].want < there THEN consumer[c].want ELSE there

check(c) ==
    LET n == actualCount(c, mod(tailIndex - (consumer[c].my - consumer[c].over))) IN
    /\ consumer[c].at = "check"
    /\ goto(c, [consumer[c] EXCEPT !.at = IF n < consumer[c].want THEN "giveBack" ELSE "take",
                                   !.n = n, !.over = 0, !.my = 0])
    /\ UNCHANGED <<headIndex, optimistic, overcommit, elements, done, pool, entries, got, exact>>
    /\ producerUnchanged

\* Too much was claimed: dequeueOvercommit makes up for it.
giveBack(c) ==
    /\ consumer[c].at = "giveBack"
    /\ overcommit' = mod(overcommit + consumer[c].want - consumer[c].n)
    /\ goto(c, IF consumer[c].n = 0 THEN Idle ELSE [consumer[c] EXCEPT !.at = "take"])
    /\ UNCHANGED <<headIndex, optimistic, elements, done, pool, entries, got, exact>>
    /\ producerUnchanged

take(c) ==
    /\ consumer[c].at = "take"
    /\ headIndex' = mod(headIndex + consumer[c].n)
    /\ goto(c, [consumer[c] EXCEPT !.at = "find", !.index = headIndex, !.want = 0])
    /\ UNCHANGED <<optimistic, overcommit, elements, done, pool, entries, got, exact>>
    /\ producerUnchanged

\* The entry of the index for the first item's block: counted from the newest
\* entry, whose base says how far away the block is.
find(c) ==
    LET h == headers[Len(headers)]
        newest == IF kind = "explicit" THEN h.entries[h.front].base
                  ELSE entries[h.entries[h.front]].key
    IN  /\ consumer[c].at = "find"
        /\ goto(c, [consumer[c] EXCEPT
                      !.at = "read", !.hdr = Len(headers),
                      !.slot = (h.front + blocksFrom(newest, base(consumer[c].index))) % h.size])
        /\ UNCHANGED <<headIndex, optimistic, overcommit, elements, done, pool, entries, got, exact>>
        /\ producerUnchanged

blockOf(c) ==
    LET e == headers[consumer[c].hdr].entries[consumer[c].slot]
    IN  IF kind = "explicit" THEN e.block ELSE entries[e].value

\* The items in one block are read and counted as dequeued (set_many_empty).  The
\* last one of a block of an implicit producer gives the block back.
read(c) ==
    LET k == consumer[c]
        b == blockOf(c)
        from == k.index % BlockSize
        n == IF k.n < BlockSize - from THEN k.n ELSE BlockSize - from
        itemAt(i) == IF b = NoBlock THEN NoItem ELSE elements[b][from + i]
        emptied == kind = "implicit" /\ done[b] + n = BlockSize
    IN  /\ k.at = "read"
        /\ got' = got \cup {itemAt(i) : i \in 0 .. n - 1}
        /\ exact' = (exact /\ \A i \in 0 .. n - 1 :
              itemAt(i) \notin got \cup {NoItem} /\ mod(start + itemAt(i) - 1) = mod(k.index + i))
        /\ done' = IF b = NoBlock THEN done ELSE [done EXCEPT ![b] = @ + n]
        /\ pool' = IF emptied THEN pool \cup {b} ELSE pool
        /\ entries' = IF emptied
                      THEN [entries EXCEPT ![headers[k.hdr].entries[k.slot]].value = NoBlock]
                      ELSE entries
        /\ goto(c, IF n = k.n THEN Idle
                   ELSE [k EXCEPT !.index = mod(@ + n), !.n = @ - n,
                                  !.slot = (@ + 1) % headers[k.hdr].size])
        /\ UNCHANGED <<headIndex, optimistic, overcommit, elements>>
        /\ producerUnchanged

enqueue(count) ==
    \/ \E canAlloc \in BOOLEAN : startEnqueue(count, canAlloc)
    \/ enqueuing.count = count /\ (write \/ storeTail)
dequeue(c) == claim(c) \/ check(c) \/ giveBack(c) \/ take(c) \/ find(c) \/ read(c)

\* The operations of the two producers; a dequeue that has begun goes on with the
\* steps of dequeue(c).
explicitEnqueue == kind = "explicit" /\ enqueue(1)
explicitEnqueueBulk == kind = "explicit" /\ \E n \in Counts : enqueue(n)
explicitDequeue(c) == kind = "explicit" /\ startDequeue(c, 1)
explicitDequeueBulk(c) == kind = "explicit" /\ \E m \in Maxima : startDequeue(c, m)
implicitEnqueue == kind = "implicit" /\ enqueue(1)
implicitEnqueueBulk == kind = "implicit" /\ \E n \in Counts : enqueue(n)
implicitDequeue(c) == kind = "implicit" /\ startDequeue(c, 1)
implicitDequeueBulk(c) == kind = "implicit" /\ \E m \in Maxima : startDequeue(c, m)

Next ==
    \/ explicitEnqueue \/ explicitEnqueueBulk \/ implicitEnqueue \/ implicitEnqueueBulk
    \/ \E c \in Consumers :
          \/ explicitDequeue(c) \/ explicitDequeueBulk(c)
          \/ implicitDequeue(c) \/ implicitDequeueBulk(c)
          \/ dequeue(c)

Spec == Init /\ [][Next]_vars
----------------------------------------------------------------------------

\* Every item a consumer gets is the one that was enqueued at the index it claimed,
\* no item is gotten twice, and once no one is dequeuing the items up to the head
\* have all been gotten: across blocks used again, block indices that grow, claims
\* that are too high and indices that wrap around.
ItemsExact ==
    /\ exact
    /\ (\A c \in Consumers : consumer[c].at = "idle") =>
          got = 1 .. Cardinality(got) /\ headIndex = mod(start + Cardinality(got))

\* A block in the pool is in no index, and no block has more dequeued than it holds.
BlocksExact ==
    /\ \A b \in Blocks : done[b] <= BlockSize
    /\ kind = "implicit" => \A i \in 1 .. Len(entries) : entries[i].value \notin pool

\* An implicit producer's items and blocks are exact always, an explicit one's until
\* one of its calls of enqueue_bulk fails after it has inserted a block.  That block
\* stays in the ring, but pr_blockIndexSlotsUsed is set back, so that a later call
\* finds room in the index where there is none and writes over the entry of a block
\* that still has items.
SubQueueExact == kind = "implicit" \/ ~injected => ItemsExact /\ BlocksExact
===============================================================================
