---------------------------- MODULE BlockingQueue ----------------------------
(***************************************************************************)
(* The blocking queues: BlockingConcurrentQueue and BlockingReaderWriter-  *)
(* Queue, an inner queue with a LightweightSemaphore that counts what may  *)
(* be taken from it.  The semaphore is an atomic count, negative for the   *)
(* consumers that wait, and a kernel semaphore on which they do.  A        *)
(* consumer takes tickets from the semaphore and then as many elements     *)
(* from the inner queue, which is known here by its size: it gives an      *)
(* element, or one at least of several, whenever it holds one.             *)
(*                                                                         *)
(* An operation for one element is that for several with a maximum of 1.   *)
(* A compare-and-swap that is repeated until it succeeds is one step.      *)
(***************************************************************************)
EXTENDS Integers, FiniteSets, FiniteSetsExt

CONSTANTS
    Kinds,               \* "mpmc" and "spsc", the two semaphores
    Producers, Consumers,\* 1, 2, ...; the spsc queue has one of each
    Counts,              \* elements of an enqueue_bulk
    Maxima,              \* the max of a dequeue_bulk
    MaxItems             \* bound: elements enqueued

VARIABLES
    kind,
    m_count,
    m_sema,              \* the kernel semaphore
    size,                \* elements of the inner queue
    enqueued,            \* their number since the start
    producer,            \* per producer: its place, elements, posts to make
    consumer,            \* per consumer: its place, max, whether its wait is
                         \* timed, tickets for elements not dequeued yet
    asserted             \* history: an assert of the code has failed

vars == <<kind, m_count, m_sema, size, enqueued, producer, consumer, asserted>>

IdleProducer == [pc |-> "idle", count |-> 0, posts |-> 0]
IdleConsumer == [pc |-> "idle", max |-> 0, timed |-> FALSE, tickets |-> 0]

Init ==
    /\ kind \in Kinds
    /\ m_count = 0 /\ m_sema = 0 /\ size = 0 /\ enqueued = 0 /\ asserted = FALSE
    /\ producer = [p \in Producers |-> IdleProducer]
    /\ consumer = [c \in Consumers |-> IdleConsumer]

takesPart(thread) == kind = "mpmc" \/ thread = 1

(* Producers. *)

\* The inner queue takes count elements; one that refuses changes nothing.
innerEnqueue(p, count) ==
    /\ takesPart(p) /\ producer[p].pc = "idle" /\ enqueued + count <= MaxItems
    /\ size' = size + count /\ enqueued' = enqueued + count
    /\ producer' = [producer EXCEPT ![p] = [pc |-> "signal", count |-> count, posts |-> 0]]
    /\ UNCHANGED <<kind, m_count, m_sema, consumer, asserted>>

\* Mutant: every waiting consumer is released, whatever the number of elements.
toReleaseAll(count) == Max({-m_count, 0})

\* What signal has to post to the kernel semaphore.
toRelease(count) ==
    IF kind = "mpmc" THEN Max({Min({-m_count, count}), 0})
    ELSE IF m_count < 0 THEN 1 ELSE 0

\* signal: the count is raised, consumers that wait have to be woken.
signal(p) ==
    LET posts == toRelease(producer[p].count) IN
    /\ producer[p].pc = "signal"
    /\ m_count' = m_count + producer[p].count
    /\ producer' = [producer EXCEPT ![p] = IF posts = 0 THEN IdleProducer
                                           ELSE [pc |-> "post", count |-> 0, posts |-> posts]]
    /\ asserted' = (asserted \/ (kind = "spsc" /\ m_count < -1))
    /\ UNCHANGED <<kind, m_sema, size, enqueued, consumer>>

\* m_sema.signal, one sem_post.
post(p) ==
    /\ producer[p].pc = "post"
    /\ m_sema' = m_sema + 1
    /\ producer' = [producer EXCEPT ![p] = IF @.posts = 1 THEN IdleProducer
                                           ELSE [@ EXCEPT !.posts = @ - 1]]
    /\ UNCHANGED <<kind, m_count, size, enqueued, consumer, asserted>>

\* The operations, with and without a token: of BlockingConcurrentQueue,
enqueue(p) == kind = "mpmc" /\ innerEnqueue(p, 1)
enqueue_bulk(p, count) == kind = "mpmc" /\ innerEnqueue(p, count)
\* and of BlockingReaderWriterQueue, try_enqueue among them.
readerWriterEnqueue(p) == kind = "spsc" /\ innerEnqueue(p, 1)

(* Consumers. *)

goto(c, pc) == consumer' = [consumer EXCEPT ![c].pc = pc]
return(c) == consumer' = [consumer EXCEPT ![c] = IdleConsumer]

\* With n tickets consumer c goes on to the inner queue.
withTickets(c, n) ==
    consumer' = [consumer EXCEPT ![c].pc = "dequeue", ![c].tickets = @ + n]
queueUnchanged == UNCHANGED <<kind, size, enqueued, producer, asserted>>

newCount(max) == IF m_count > max THEN m_count - max ELSE 0

\* tryWait and tryWaitMany take up to max tickets; an operation that only tries
\* returns when there is none, one that waits goes on.
tryWaitMany(c, max, op) ==
    /\ takesPart(c) /\ consumer[c].pc = "idle"
    /\ \/ /\ m_count > 0
          /\ m_count' = newCount(max)
          /\ consumer' = [consumer EXCEPT ![c].pc = "dequeue", ![c].tickets = m_count - newCount(max)]
       \/ /\ m_count <= 0 /\ op # "try"
          /\ consumer' = [consumer EXCEPT ![c].pc = "spin", ![c].max = max,
                                          ![c].timed = (op = "timed")]
          /\ UNCHANGED m_count
    /\ UNCHANGED m_sema /\ queueUnchanged

\* The spinning finds tickets,
spin(c) ==
    /\ consumer[c].pc = "spin" /\ m_count > 0
    /\ m_count' = newCount(consumer[c].max)
    /\ withTickets(c, m_count - newCount(consumer[c].max))
    /\ UNCHANGED m_sema /\ queueUnchanged

\* or gives up and lowers the count, by which it takes a ticket or says it waits.
giveUp(c) ==
    /\ consumer[c].pc = "spin"
    /\ m_count' = m_count - 1
    /\ IF m_count > 0 THEN consumer' = [consumer EXCEPT ![c].pc = "more", ![c].tickets = 1]
                      ELSE goto(c, "wait")
    /\ UNCHANGED m_sema /\ queueUnchanged

\* m_sema.wait and timed_wait.
wait(c) ==
    /\ consumer[c].pc = "wait" /\ m_sema > 0
    /\ m_sema' = m_sema - 1
    /\ consumer' = [consumer EXCEPT ![c].pc = "more", ![c].tickets = 1]
    /\ UNCHANGED m_count /\ queueUnchanged
timeout(c) ==
    /\ consumer[c].pc = "wait" /\ consumer[c].timed /\ m_sema = 0
    /\ goto(c, "restore")
    /\ UNCHANGED <<m_count, m_sema>> /\ queueUnchanged

\* After the timeout the count is raised again if it is still negative; otherwise
\* the consumer has been signalled and must take the post that is meant for it.
\* The spsc semaphore raises the count before it looks, and lowers it again.
restore(c) ==
    /\ consumer[c].pc = "restore"
    /\ \/ m_count < 0 /\ m_count' = m_count + 1 /\ return(c)
       \/ m_count >= 0 /\ kind = "mpmc" /\ goto(c, "try") /\ UNCHANGED m_count
       \/ m_count >= 0 /\ kind = "spsc" /\ m_count' = m_count + 1 /\ goto(c, "undo")
    /\ UNCHANGED m_sema /\ queueUnchanged
undo(c) ==
    /\ consumer[c].pc = "undo"
    /\ m_count' = m_count - 1
    /\ goto(c, IF m_count > 0 THEN "try" ELSE "restore")
    /\ UNCHANGED m_sema /\ queueUnchanged
try_wait(c) ==
    /\ consumer[c].pc = "try"
    /\ \/ /\ m_sema > 0 /\ m_sema' = m_sema - 1
          /\ consumer' = [consumer EXCEPT ![c].pc = "more", ![c].tickets = 1]
       \/ m_sema = 0 /\ goto(c, "restore") /\ UNCHANGED m_sema
    /\ UNCHANGED m_count /\ queueUnchanged

\* One ticket is there; waitMany takes what else there is, up to max.
more(c) ==
    LET left == consumer[c].max - 1 IN
    /\ consumer[c].pc = "more"
    /\ IF left > 0 /\ m_count > 0
         THEN m_count' = newCount(left) /\ withTickets(c, m_count - newCount(left))
         ELSE UNCHANGED m_count /\ withTickets(c, 0)
    /\ UNCHANGED m_sema /\ queueUnchanged

\* inner.try_dequeue, repeated until every ticket has been turned into an element;
\* the reader-writer queue asserts that the first attempt succeeds.
dequeue(c) ==
    /\ consumer[c].pc = "dequeue"
    /\ \/ \E n \in 1 .. Min({size, consumer[c].tickets}) :
            /\ size' = size - n
            /\ consumer' = [consumer EXCEPT ![c] = IF n = @.tickets THEN IdleConsumer
                                                   ELSE [@ EXCEPT !.tickets = @ - n]]
            /\ UNCHANGED asserted
       \/ /\ size = 0 /\ asserted' = (asserted \/ kind = "spsc")
          /\ UNCHANGED <<size, consumer>>
    /\ UNCHANGED <<kind, m_count, m_sema, enqueued, producer>>

\* The operations of BlockingConcurrentQueue, with and without a token, and those
\* of BlockingReaderWriterQueue, with pop among the first.
Waits == {"wait", "timed"}
try_dequeue(c) == kind = "mpmc" /\ tryWaitMany(c, 1, "try")
try_dequeue_bulk(c, max) == kind = "mpmc" /\ tryWaitMany(c, max, "try")
wait_dequeue(c) == kind = "mpmc" /\ \E op \in Waits : tryWaitMany(c, 1, op)
wait_dequeue_bulk(c, max) == kind = "mpmc" /\ \E op \in Waits : tryWaitMany(c, max, op)
readerWriterTry(c) == kind = "spsc" /\ tryWaitMany(c, 1, "try")
readerWriterWait(c) == kind = "spsc" /\ \E op \in Waits : tryWaitMany(c, 1, op)

Produce(p) ==
    \/ enqueue(p) \/ readerWriterEnqueue(p)
    \/ \E count \in Counts : enqueue_bulk(p, count)
    \/ signal(p) \/ post(p)
Consume(c) ==
    \/ try_dequeue(c) \/ wait_dequeue(c) \/ readerWriterTry(c) \/ readerWriterWait(c)
    \/ \E max \in Maxima : try_dequeue_bulk(c, max) \/ wait_dequeue_bulk(c, max)
    \/ spin(c) \/ giveUp(c) \/ wait(c) \/ timeout(c) \/ restore(c) \/ undo(c) \/ try_wait(c)
    \/ more(c) \/ dequeue(c)

Next == (\E p \in Producers : Produce(p)) \/ (\E c \in Consumers : Consume(c))

Spec == Init /\ [][Next]_vars
----------------------------------------------------------------------------

sum(S, f(_)) == MapThenSumSet(f, S)
ticketsOut == sum(Consumers, LAMBDA c : consumer[c].tickets)
unsignalled == sum({p \in Producers : producer[p].pc = "signal"}, LAMBDA p : producer[p].count)
postsToCome == sum(Producers, LAMBDA p : producer[p].posts)

\* Consumers that have lowered the count and have no ticket yet; the one that has
\* raised the count for a look stands apart.
waiters == Cardinality({c \in Consumers : consumer[c].pc \in {"wait", "restore", "try", "undo"}})
countNow == m_count - Cardinality({c \in Consumers : consumer[c].pc = "undo"})

\* A consumer with a ticket finds its element: every element in the inner queue is
\* promised to one ticket, or counted, or about to be signalled.
TicketsCovered == size = ticketsOut + unsignalled + countNow + waiters

\* No wake-up is lost and none is left over: the posts made and to come are as
\* many as the waiting consumers the elements suffice for, whichever of them time
\* out meanwhile.
WakeUpsExact == m_sema + postsToCome = waiters - Max({-countNow, 0})

\* The semaphore hands out exactly what is in the queue.
TicketsExact == ~asserted /\ TicketsCovered /\ WakeUpsExact
==============================================================================
