---------------------------- MODULE ConsumerToken ----------------------------
(***************************************************************************)
(* How a consumer of tasks/ConcurrentQueue.h picks the sub-queues it       *)
(* dequeues from.  Without a token it looks for the fullest of the first   *)
(* three it sees that are not empty; with one it stays with its producer   *)
(* until a quota makes everyone move on.  A sub-queue (SubQueue) is the    *)
(* number of its items; dequeuing from it is one step, which may miss      *)
(* items while another consumer has claimed more than there were.          *)
(***************************************************************************)
EXTENDS Integers, Sequences

CONSTANTS
    Consumers,       \* 0 .. n - 1: the initialOffset of their tokens
    Tokenless,       \* those that have no token
    Quota,           \* EXPLICIT_CONSUMER_CONSUMPTION_QUOTA_BEFORE_ROTATE
    Maxima,          \* the numbers of items asked for at once
    MaxProducers,    \* bound
    MaxItems,        \* bound: items enqueued in all
    Width            \* values of std::uint32_t

VARIABLES
    size,            \* the sub-queues in the order they were added: their items
    enqueued,
    globalOffset,    \* globalExplicitConsumerOffset
    token,           \* per consumer: [desired, current, lastKnown, consumed]
    call             \* per consumer: the call in progress

vars == <<size, enqueued, globalOffset, token, call>>

None == 0
NoCall == [at |-> "idle", left |-> 0, ptr |-> None, tail |-> None, best |-> None, bestSize |-> 0, found |-> 0,
           first |-> 0, tried |-> {}]

Init ==
    /\ size = <<>> /\ enqueued = 0 /\ globalOffset = 0
    /\ token = [c \in Consumers |->
                  [desired |-> None, current |-> None, lastKnown |-> Width - 1, consumed |-> 0]]
    /\ call = [c \in Consumers |-> NoCall]

\* The list runs from the newest producer to the oldest.
producerListTail == Len(size)
next_prod(p) == p - 1
around(p, tail) == IF next_prod(p) = None THEN tail ELSE next_prod(p)

\* n steps along the list from p, beginning anew at its tail.
along(p, n, tail) == ((p - n - 1) % tail) + 1

add_producer ==
    /\ Len(size) < MaxProducers
    /\ size' = Append(size, 0)
    /\ UNCHANGED <<enqueued, globalOffset, token, call>>

enqueue(p) ==
    /\ enqueued < MaxItems
    /\ size' = [size EXCEPT ![p] = @ + 1] /\ enqueued' = enqueued + 1
    /\ UNCHANGED <<globalOffset, token, call>>

goto(c, r) == call' = [call EXCEPT ![c] = r]

\* The numbers of items that c may get from p: what there is, or less while another
\* consumer is dequeuing, whose overcommit may not be made up for yet.
taken(c, p, max) ==
    LET there == IF size[p] < max THEN size[p] ELSE max
        contended == \E d \in Consumers \ {c} : call[d].at # "idle"
    IN  IF contended THEN 0 .. there ELSE {there}

----------------------------------------------------------------------------
(* With a token: try_dequeue is try_dequeue_bulk of one item.              *)

\* update_current_producer_after_rotation.
rotated(c) ==
    LET k == token[c]
        tail == producerListTail
        first == IF k.desired = None THEN along(tail, tail - 1 - (c % tail), tail) ELSE k.desired
        d == along(first, ((globalOffset - k.lastKnown) % Width) % tail, tail)
    IN  [desired |-> d, current |-> d, lastKnown |-> globalOffset, consumed |-> 0]

startToken(c, max) ==
    LET rotate == token[c].desired = None \/ token[c].lastKnown # globalOffset
    IN  /\ call[c].at = "idle" /\ c \notin Tokenless /\ producerListTail # None
        /\ token' = IF rotate THEN [token EXCEPT ![c] = rotated(c)] ELSE token
        /\ goto(c, [NoCall EXCEPT !.at = "current", !.left = max, !.first = producerListTail])
        /\ UNCHANGED <<size, enqueued, globalOffset>>

\* The current producer; when it has too little, the others in turn.  try_dequeue
\* moves the offset on when the quota is reached, try_dequeue_bulk also beyond it.
dequeueCurrent(c, n) ==
    LET p == token[c].current
        all == n = call[c].left
        consumed == token[c].consumed + n
        overQuota == IF call[c].left = 1 THEN consumed = Quota ELSE consumed >= Quota
    IN  /\ call[c].at = "current" /\ n \in taken(c, p, call[c].left)
        /\ size' = [size EXCEPT ![p] = @ - n]
        /\ token' = [token EXCEPT ![c].consumed = consumed]
        /\ globalOffset' = IF all /\ overQuota THEN (globalOffset + 1) % Width ELSE globalOffset
        /\ goto(c, IF all THEN NoCall
                   ELSE [call[c] EXCEPT !.at = "others", !.left = @ - n, !.tail = producerListTail,
                                        !.ptr = around(p, producerListTail), !.tried = {p}])
        /\ UNCHANGED enqueued

\* Mutant: the list is left at its end.
followingEnd(p, tail) == next_prod(p)

\* The producer looked at after p, by a consumer that has read tail.
following(p, tail) == around(p, tail)

dequeueOthers(c, n) ==
    LET k == call[c]
    IN  /\ k.at = "others" /\ k.ptr \notin {None, token[c].current}
        /\ n \in taken(c, k.ptr, k.left)
        /\ size' = [size EXCEPT ![k.ptr] = @ - n]
        /\ token' = IF n # 0 THEN [token EXCEPT ![c].current = k.ptr, ![c].consumed = n] ELSE token
        /\ goto(c, IF n = k.left THEN NoCall
                   ELSE [k EXCEPT !.left = @ - n, !.tried = @ \cup {k.ptr}, !.ptr = following(k.ptr, k.tail)])
        /\ UNCHANGED <<enqueued, globalOffset>>

----------------------------------------------------------------------------
(* Without a token.                                                        *)

startTokenless(c) ==
    /\ call[c].at = "idle" /\ c \in Tokenless /\ producerListTail # None
    /\ goto(c, [NoCall EXCEPT !.at = "scan", !.left = 1, !.first = producerListTail,
                              !.ptr = producerListTail])
    /\ UNCHANGED <<size, enqueued, globalOffset, token>>

\* size_approx of one producer.
scan(c) ==
    LET k == call[c]
        better == size[k.ptr] > 0 /\ (k.best = None \/ size[k.ptr] > k.bestSize)
        found == k.found + (IF size[k.ptr] > 0 THEN 1 ELSE 0)
        over == found = 3 \/ next_prod(k.ptr) = None
        best == IF better THEN k.ptr ELSE k.best
    IN  /\ k.at = "scan"
        /\ goto(c, [k EXCEPT !.best = best, !.bestSize = IF better THEN size[k.ptr] ELSE @,
                             !.found = found,
                             !.tried = IF size[k.ptr] = 0 THEN @ \cup {k.ptr} ELSE @,
                             !.ptr = IF over THEN best ELSE next_prod(k.ptr),
                             !.at = IF ~over THEN "scan" ELSE IF found > 0 THEN "best" ELSE "false"])
        /\ UNCHANGED <<size, enqueued, globalOffset, token>>

\* The best of them, then every other one.
dequeueBest(c, n) ==
    LET k == call[c]
        p == IF k.at = "rest" THEN k.ptr ELSE k.best
        skipped == k.at = "rest" /\ p = k.best
        after == IF k.at = "best" THEN producerListTail ELSE next_prod(p)
    IN  /\ k.at \in {"best", "rest"}
        /\ n \in IF skipped THEN {0} ELSE taken(c, p, 1)
        /\ size' = [size EXCEPT ![p] = @ - n]
        /\ goto(c, IF n = 1 THEN NoCall
                   ELSE [k EXCEPT !.tried = @ \cup {p}, !.ptr = after,
                                  !.at = IF after = None THEN "false" ELSE "rest"])
        /\ UNCHANGED <<enqueued, globalOffset, token>>

\* try_dequeue_non_interleaved, and try_dequeue_bulk: one producer after the other.
startWalk(c, max) ==
    /\ call[c].at = "idle" /\ c \in Tokenless /\ producerListTail # None
    /\ goto(c, [NoCall EXCEPT !.at = "walk", !.left = max, !.first = producerListTail,
                              !.ptr = producerListTail])
    /\ UNCHANGED <<size, enqueued, globalOffset, token>>
walk(c, n) ==
    LET k == call[c]
        after == next_prod(k.ptr)
    IN  /\ k.at = "walk" /\ n \in taken(c, k.ptr, k.left)
        /\ size' = [size EXCEPT ![k.ptr] = @ - n]
        /\ goto(c, IF n = k.left THEN NoCall
                   ELSE [k EXCEPT !.left = @ - n, !.tried = @ \cup {k.ptr}, !.ptr = after,
                                  !.at = IF after = None THEN "false" ELSE "walk"])
        /\ UNCHANGED <<enqueued, globalOffset, token>>

\* A call returns with less than it was asked for.
returning(c) ==
    \/ call[c].at = "false"
    \/ call[c].at = "others" /\ call[c].ptr \in {None, token[c].current}

return(c) ==
    /\ returning(c)
    /\ goto(c, NoCall)
    /\ UNCHANGED <<size, enqueued, globalOffset, token>>

Next ==
    \/ add_producer
    \/ \E p \in 1 .. Len(size) : enqueue(p)
    \/ \E c \in Consumers :
          \/ \E max \in Maxima : startToken(c, max) \/ startWalk(c, max)
          \/ startTokenless(c) \/ scan(c) \/ return(c)
          \/ \E n \in 0 .. MaxItems :
                walk(c, n) \/ dequeueCurrent(c, n) \/ dequeueOthers(c, n) \/ dequeueBest(c, n)

Spec == Init /\ [][Next]_vars
----------------------------------------------------------------------------

\* A call that comes back with less than it was asked for has tried each producer
\* that there was when it began, whatever was rotated, added or enqueued meanwhile,
\* and found it empty, or looked at it while another consumer was dequeuing: no
\* worker passes a producer over.  (With another one at work it may miss an item.)
FalseWhenEmpty ==
    \A c \in Consumers : returning(c) => 1 .. call[c].first \subseteq call[c].tried
===============================================================================
