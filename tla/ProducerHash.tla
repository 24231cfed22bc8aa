----------------------------- MODULE ProducerHash -----------------------------
(***************************************************************************)
(* How the threads of the engine come by their sub-queues, as              *)
(* tasks/ConcurrentQueue.h does it.  A thread that enqueues without a      *)
(* token has an implicit producer, found by its id in a chain of hash      *)
(* tables: the newest is twice as large as the one before, whose entries   *)
(* stay where they are until their threads copy them.  A producer token    *)
(* has an explicit producer, which is used again once the token is gone.   *)
(* (The build has no thread-local destructors: an implicit producer is     *)
(* never given back.)                                                      *)
(***************************************************************************)
EXTENDS Integers, Sequences, FiniteSetsExt

CONSTANTS
    Threads,         \* 1 .. n
    Hashes,          \* the hash functions to look at: [Threads -> Nat]
    InitialSize,     \* INITIAL_IMPLICIT_PRODUCER_HASH_SIZE, a power of two
    Tokens,          \* the producer tokens a thread may make
    MaxFailures      \* bound: allocations that fail

VARIABLES
    hashOf,
    hashes,          \* the tables so far, the last one implicitProducerHash
    hashCount,       \* implicitProducerHashCount
    resizing,        \* implicitProducerHashResizeInProgress
    producers,       \* the list of producers: [explicit, inactive]
    at,              \* per thread: where it is in get_or_add_implicit_producer
    mainHash,        \* per thread: the table it takes for the newest
    newCount,        \* per thread
    mine,            \* per thread: the implicit producer made for it
    exact,           \* history: a thread has always been given its own producer
    token,           \* per token: its producer, or 0
    failures

vars == <<hashOf, hashes, hashCount, resizing, producers, at, mainHash, newCount, mine, exact,
          token, failures>>

Invalid == 0                         \* invalid_thread_id
Nothing == 0                         \* nullptr
capacity(h) == Len(hashes[h])
newHash(n) == [i \in 1 .. n |-> [key |-> Invalid, value |-> Nothing]]

Init ==
    /\ hashOf \in Hashes
    /\ hashes = <<newHash(InitialSize)>> /\ hashCount = 0 /\ resizing = FALSE /\ producers = <<>>
    /\ at = [t \in Threads |-> "idle"] /\ mainHash = [t \in Threads |-> 1]
    /\ newCount = [t \in Threads |-> 0] /\ mine = [t \in Threads |-> Nothing]
    /\ exact = TRUE
    /\ token = [k \in Tokens |-> Nothing] /\ failures = 0

goto(t, l) == at' = [at EXCEPT ![t] = l]

\* The i-th position of table h that thread t probes.
probed(t, h, i) == ((hashOf[t] + i) % capacity(h)) + 1

\* The first probe that finds key k, or else a free position: -1 when none.
probe(t, h, k) ==
    LET hits == {i \in 0 .. capacity(h) - 1 : hashes[h][probed(t, h, i)].key \in {k, Invalid}}
    IN  IF hits = {} THEN -1 ELSE Min(hits)
position(t, h, k) == probed(t, h, probe(t, h, k))
isIn(t, h) ==
    LET i == probe(t, h, t) IN i # -1 /\ hashes[h][probed(t, h, i)].key = t
inserted(t, h, p) ==
    [hashes EXCEPT ![h][position(t, h, Invalid)] = [key |-> t, value |-> p]]

\* Mutant: only the newest table is looked at.
holdingNewest(t) == {h \in {Len(hashes)} : isIn(t, h)}

\* The tables, from the newest, that have the thread's id.
holding(t) == {h \in 1 .. Len(hashes) : isIn(t, h)}

\* get_or_add_implicit_producer: found in table h, and copied to the newest one.
found(t, h) ==
    LET p == hashes[h][position(t, h, t)].value
        main == Len(hashes)
        full == h # main /\ probe(t, main, Invalid) = -1
    IN  /\ mainHash' = [mainHash EXCEPT ![t] = 1]
        /\ at' = IF full THEN [at EXCEPT ![t] = "spin"] ELSE at
        /\ hashes' = IF h = main \/ full THEN hashes ELSE inserted(t, main, p)
        /\ exact' = (exact /\ p = mine[t])

lookUp(t) ==
    /\ at[t] = "idle"
    /\ \E held \in {holding(t)} :
          \/ held # {} /\ found(t, Max(held))
          \/ /\ held = {}
             /\ mainHash' = [mainHash EXCEPT ![t] = Len(hashes)] /\ goto(t, "count")
             /\ UNCHANGED <<hashes, exact>>
    /\ UNCHANGED <<hashOf, hashCount, resizing, producers, newCount, mine, token, failures>>

count(t) ==
    /\ at[t] = "count"
    /\ hashCount' = hashCount + 1
    /\ newCount' = [newCount EXCEPT ![t] = hashCount + 1]
    /\ goto(t, "loop")
    /\ UNCHANGED <<hashOf, hashes, resizing, producers, mainHash, mine, exact, token, failures>>

crowded(t, h) == newCount[t] >= capacity(h) \div 2
roomy(t, h) == newCount[t] < (capacity(h) \div 2) + (capacity(h) \div 4)

\* The head of the loop: take the flag and resize, insert, or look again.
loop(t) ==
    LET resize == crowded(t, mainHash[t]) /\ ~resizing IN
    /\ at[t] = "loop"
    /\ resizing' = (resizing \/ resize)
    /\ goto(t, IF resize THEN "resize" ELSE IF roomy(t, mainHash[t]) THEN "insert" ELSE "loop")
    /\ mainHash' = [mainHash EXCEPT ![t] =
                      IF resize THEN Len(hashes) ELSE IF roomy(t, @) THEN @ ELSE Len(hashes)]
    /\ UNCHANGED <<hashOf, hashes, hashCount, producers, newCount, mine, exact, token, failures>>

fail(t) ==
    /\ failures < MaxFailures
    /\ failures' = failures + 1
    /\ hashCount' = hashCount - 1
    /\ goto(t, "idle")

\* The capacity doubled until the count is less than half of it.
grown(t) ==
    LET sizes == {capacity(Len(hashes)) * 2 ^ k : k \in 1 .. 5}
    IN  Min({n \in sizes : newCount[t] < n \div 2})

resize(t) ==
    /\ at[t] = "resize"
    /\ resizing' = FALSE
    /\ \/ /\ crowded(t, mainHash[t])
          /\ fail(t)
          /\ UNCHANGED <<hashes, mainHash, exact>>
       \/ /\ hashes' = IF crowded(t, mainHash[t]) THEN Append(hashes, newHash(grown(t))) ELSE hashes
          /\ mainHash' = [mainHash EXCEPT ![t] = Len(hashes')]
          /\ goto(t, IF newCount[t] < (Len(hashes'[Len(hashes')]) * 3) \div 4 THEN "insert" ELSE "loop")
          /\ UNCHANGED <<hashCount, exact, failures>>
    /\ UNCHANGED <<hashOf, producers, newCount, mine, token>>

----------------------------------------------------------------------------
(* The list of producers.                                                  *)

inactive(explicit) ==
    {p \in 1 .. Len(producers) : producers[p].inactive /\ producers[p].explicit = explicit}

\* recycle_or_create_producer and add_producer: p is the producer, which is new
\* or was inactive.
recycle_or_create_producer(explicit, p) ==
    IF inactive(explicit) = {}
    THEN /\ p = Len(producers) + 1
         /\ producers' = Append(producers, [explicit |-> explicit, inactive |-> FALSE])
    ELSE /\ p \in inactive(explicit)
         /\ producers' = [producers EXCEPT ![p].inactive = FALSE]

\* The producer is made and put into the table under the thread's id.
insert(t) ==
    /\ at[t] = "insert"
    /\ \/ fail(t) /\ UNCHANGED <<hashes, producers, mine, exact>>
       \/ \E p \in 1 .. Len(producers) + 1 :
            /\ recycle_or_create_producer(FALSE, p)
            /\ IF probe(t, mainHash[t], Invalid) = -1
               THEN goto(t, "spin") /\ UNCHANGED hashes
               ELSE goto(t, "idle") /\ hashes' = inserted(t, mainHash[t], p)
            /\ mine' = [mine EXCEPT ![t] = p]
            /\ exact' = (exact /\ mine[t] = Nothing)
            /\ UNCHANGED <<hashCount, failures>>
    /\ mainHash' = [mainHash EXCEPT ![t] = 1] /\ newCount' = [newCount EXCEPT ![t] = 0]
    /\ UNCHANGED <<hashOf, resizing, token>>

\* ProducerToken's constructor and destructor.
makeToken(k) ==
    /\ token[k] = Nothing
    /\ \E p \in 1 .. Len(producers) + 1 :
         recycle_or_create_producer(TRUE, p) /\ token' = [token EXCEPT ![k] = p]
    /\ UNCHANGED <<hashOf, hashes, hashCount, resizing, at, mainHash, newCount, mine, exact,
                   failures>>

dropToken(k) ==
    /\ token[k] # Nothing
    /\ producers' = [producers EXCEPT ![token[k]].inactive = TRUE]
    /\ token' = [token EXCEPT ![k] = Nothing]
    /\ UNCHANGED <<hashOf, hashes, hashCount, resizing, at, mainHash, newCount, mine, exact,
                   failures>>

Next ==
    \/ \E t \in Threads : lookUp(t) \/ count(t) \/ loop(t) \/ resize(t) \/ insert(t)
    \/ \E k \in Tokens : makeToken(k) \/ dropToken(k)

Spec == Init /\ [][Next]_vars
----------------------------------------------------------------------------

\* A thread has one implicit producer for good, which it gets whichever tables it
\* looks in; two threads or tokens never have the same one; and a thread that has
\* decided to use a table finds room in it.
ProducersExact ==
    /\ \A t \in Threads : at[t] # "spin"
    /\ exact
    /\ \A t, u \in Threads : t # u /\ mine[t] # Nothing => mine[t] # mine[u]
    /\ \A k \in Tokens : token[k] # Nothing =>
         /\ \A t \in Threads : token[k] # mine[t]
         /\ \A l \in Tokens : l # k => token[l] # token[k]
===============================================================================
