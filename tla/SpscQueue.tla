------------------------------ MODULE SpscQueue ------------------------------
(***************************************************************************)
(* intelSPSC.h: a linked list for one producer and one consumer.  The      *)
(* nodes behind the consumer's tail are a cache from which the producer    *)
(* takes its next node; tail_copy_ is how far it knows the consumer to be. *)
(***************************************************************************)
EXTENDS Integers, Sequences

CONSTANTS
    MaxItems,            \* bound: elements enqueued
    MaxNodes             \* bound: nodes allocated

Null == 0

VARIABLES
    node,                \* the nodes: next and value
    tail, head, first, tailCopy,
    producing,           \* the place of the producer, and the node it has taken
    consuming,           \* the place of the consumer, and the value it has read
    enqueued, dequeued,
    wrong                \* history: a value out of order, a false not justified

vars == <<node, tail, head, first, tailCopy, producing, consuming, enqueued, dequeued, wrong>>

Init ==
    /\ node = <<[next |-> Null, value |-> 0]>>
    /\ tail = 1 /\ head = 1 /\ first = 1 /\ tailCopy = 1
    /\ producing = [pc |-> "idle", node |-> Null]
    /\ consuming = [pc |-> "idle", nonEmpty |-> FALSE]
    /\ enqueued = 0 /\ dequeued = 0 /\ wrong = FALSE

(* The producer. *)

consumerIdle == UNCHANGED <<tail, consuming, dequeued, wrong>>

\* Mutant: the node the consumer stands on is taken as well.
cachedAll(end) == first # end \/ node[first].next # Null
cached(end) == first # end

\* alloc_node: from the cache as it is known,
fromCache ==
    /\ producing.pc = "idle" /\ enqueued < MaxItems /\ cached(tailCopy)
    /\ producing' = [pc |-> "fill", node |-> first]
    /\ first' = node[first].next
    /\ UNCHANGED <<node, head, tailCopy, enqueued>> /\ consumerIdle
\* else after a look at the consumer's tail, and else a new node.
readTail ==
    /\ producing.pc = "idle" /\ enqueued < MaxItems /\ ~cached(tailCopy)
    /\ tailCopy' = tail
    /\ IF cached(tail)
         THEN /\ producing' = [pc |-> "fill", node |-> first]
              /\ first' = node[first].next
              /\ UNCHANGED node
         ELSE /\ Len(node) < MaxNodes
              /\ producing' = [pc |-> "fill", node |-> Len(node) + 1]
              /\ node' = Append(node, [next |-> Null, value |-> 0])
              /\ UNCHANGED first
    /\ UNCHANGED <<head, enqueued>> /\ consumerIdle

\* The node is filled, then linked; head_ follows.
fillNode ==
    /\ producing.pc = "fill"
    /\ node' = [node EXCEPT ![producing.node] = [next |-> Null, value |-> enqueued + 1]]
    /\ producing' = [producing EXCEPT !.pc = "link"]
    /\ UNCHANGED <<head, first, tailCopy, enqueued>> /\ consumerIdle
link ==
    /\ producing.pc = "link"
    /\ node' = [node EXCEPT ![head].next = producing.node]
    /\ head' = producing.node
    /\ producing' = [pc |-> "idle", node |-> Null]
    /\ enqueued' = enqueued + 1
    /\ UNCHANGED <<first, tailCopy>> /\ consumerIdle

enqueue == fromCache \/ readTail \/ fillNode \/ link

(* The consumer. *)

producerIdle == UNCHANGED <<node, head, first, tailCopy, producing, enqueued>>

startDequeue ==
    /\ consuming.pc = "idle"
    /\ consuming' = [pc |-> "test", nonEmpty |-> enqueued > dequeued]
    /\ UNCHANGED <<tail, dequeued, wrong>> /\ producerIdle
testNext ==
    LET empty == node[tail].next = Null IN
    /\ consuming.pc = "test"
    /\ consuming' = IF empty THEN [pc |-> "idle", nonEmpty |-> FALSE]
                    ELSE [consuming EXCEPT !.pc = "read"]
    /\ wrong' = (wrong \/ (empty /\ consuming.nonEmpty))
    /\ UNCHANGED <<tail, dequeued>> /\ producerIdle
readValue ==
    /\ consuming.pc = "read"
    /\ wrong' = (wrong \/ node[node[tail].next].value # dequeued + 1)
    /\ consuming' = [consuming EXCEPT !.pc = "store"]
    /\ UNCHANGED <<tail, dequeued>> /\ producerIdle
storeTail ==
    /\ consuming.pc = "store"
    /\ tail' = node[tail].next /\ dequeued' = dequeued + 1
    /\ consuming' = [pc |-> "idle", nonEmpty |-> FALSE]
    /\ UNCHANGED wrong /\ producerIdle

dequeue == startDequeue \/ testNext \/ readValue \/ storeTail

Next == enqueue \/ dequeue

Spec == Init /\ [][Next]_vars
----------------------------------------------------------------------------

\* The nodes behind n, in order, as far as the list goes (k bounds the walk).
behind[n \in DOMAIN node, k \in 0 .. MaxNodes] ==
    IF node[n].next = Null \/ k = 0 THEN <<>>
    ELSE <<node[n].next>> \o behind[node[n].next, k - 1]

\* The nodes behind the consumer's tail hold what has been enqueued and not
\* dequeued, in order: the producer reuses no node that the consumer still has to
\* pass, however old its copy of the tail is.  The consumer reads every value once
\* and in order, and is told the queue is empty only when it is.
ListExact ==
    /\ ~wrong
    /\ LET rest == behind[tail, Len(node)] IN
       [i \in DOMAIN rest |-> node[rest[i]].value]
         = [i \in 1 .. enqueued - dequeued |-> dequeued + i]
==============================================================================
