------------------------------- MODULE FreeList -------------------------------
(***************************************************************************)
(* The free list of tasks/ConcurrentQueue.h, from which producers take     *)
(* blocks and to which consumers give them back: a stack of nodes whose    *)
(* head is changed with compare-and-swap, each node with a reference count *)
(* that keeps it from being added again while someone looks at it.  A      *)
(* thread that cannot add a node leaves that to the last one to drop its   *)
(* reference.                                                              *)
(***************************************************************************)
EXTENDS Integers, FiniteSets

CONSTANTS Nodes, Threads, Null

SHOULD_BE_ON_FREELIST == 16      \* a bit above any reference count

VARIABLES
    freeListHead,
    freeListRefs, freeListNext,      \* per node
    pc,              \* per thread: where it is
    head,            \* per thread: the head, or then its next, that try_get has read
    top,             \* per thread: the head that add_knowing_refcount_is_zero has read
    node,            \* per thread: the node it is adding or has a reference to
    getting,         \* per thread: it is in try_get
    owned,           \* per thread: the nodes it has
    asserted         \* the assertion of try_get has held so far

vars == <<freeListHead, freeListRefs, freeListNext, pc, head, top, node, getting, owned, asserted>>

Init ==
    /\ freeListHead = Null
    /\ freeListRefs = [n \in Nodes |-> 0] /\ freeListNext = [n \in Nodes |-> Null]
    /\ pc = [t \in Threads |-> "idle"]
    /\ head = [t \in Threads |-> Null] /\ top = [t \in Threads |-> Null] /\ node = [t \in Threads |-> Null]
    /\ getting = [t \in Threads |-> FALSE]
    /\ \E first \in Threads : owned = [t \in Threads |-> IF t = first THEN Nodes ELSE {}]
    /\ asserted = TRUE

goto(t, l) == pc' = [pc EXCEPT ![t] = l]
refs(n, d) == freeListRefs' = [freeListRefs EXCEPT ![n] = @ + d]

\* Where the thread goes on once add_knowing_refcount_is_zero returns.
returned(t) == IF getting[t] THEN "loop" ELSE "idle"

add(t, n) ==
    /\ pc[t] = "idle" /\ n \in owned[t]
    /\ owned' = [owned EXCEPT ![t] = @ \ {n}]
    /\ refs(n, SHOULD_BE_ON_FREELIST)
    /\ goto(t, IF freeListRefs[n] = 0 THEN "add" ELSE "idle")
    /\ node' = [node EXCEPT ![t] = IF freeListRefs[n] = 0 THEN n ELSE Null]
    /\ UNCHANGED <<freeListHead, freeListNext, head, top, getting, asserted>>

\* add_knowing_refcount_is_zero.
loadHead(t) ==
    /\ pc[t] = "add"
    /\ top' = [top EXCEPT ![t] = freeListHead] /\ goto(t, "link")
    /\ UNCHANGED <<freeListHead, freeListRefs, freeListNext, head, node, getting, owned, asserted>>

link(t) ==
    /\ pc[t] = "link"
    /\ freeListNext' = [freeListNext EXCEPT ![node[t]] = top[t]]
    /\ freeListRefs' = [freeListRefs EXCEPT ![node[t]] = 1]
    /\ goto(t, "push")
    /\ UNCHANGED <<freeListHead, head, top, node, getting, owned, asserted>>

push(t) ==
    LET won == freeListHead = top[t] IN
    /\ pc[t] = "push"
    /\ freeListHead' = IF won THEN node[t] ELSE freeListHead
    /\ top' = [top EXCEPT ![t] = IF won THEN Null ELSE freeListHead]
    /\ node' = [node EXCEPT ![t] = IF won THEN Null ELSE @]
    /\ goto(t, IF won THEN returned(t) ELSE "pushFailed")
    /\ UNCHANGED <<freeListRefs, freeListNext, head, getting, owned, asserted>>

\* Mutant: the add is tried again although someone else has a reference.
pushAgain(t) ==
    /\ refs(node[t], SHOULD_BE_ON_FREELIST - 1)
    /\ goto(t, "link") /\ node' = node

\* The node is for the thread that drops the last reference to add.
leaveNode(t) ==
    /\ refs(node[t], SHOULD_BE_ON_FREELIST - 1)
    /\ IF freeListRefs[node[t]] = 1
       THEN goto(t, "link") /\ node' = node
       ELSE goto(t, returned(t)) /\ node' = [node EXCEPT ![t] = Null]

pushFailed(t) ==
    /\ pc[t] = "pushFailed"
    /\ leaveNode(t)
    /\ UNCHANGED <<freeListHead, freeListNext, head, top, getting, owned, asserted>>

try_get(t) ==
    /\ pc[t] = "idle"
    /\ getting' = [getting EXCEPT ![t] = TRUE]
    /\ head' = [head EXCEPT ![t] = freeListHead] /\ goto(t, "loop")
    /\ UNCHANGED <<freeListHead, freeListRefs, freeListNext, top, node, owned, asserted>>

\* The head of the loop: no head, a node that has been taken off, or a reference.
reference(t) ==
    LET h == head[t]
        there == h # Null /\ freeListRefs[h] % SHOULD_BE_ON_FREELIST # 0
    IN  /\ pc[t] = "loop"
        /\ freeListRefs' = IF there THEN [freeListRefs EXCEPT ![h] = @ + 1] ELSE freeListRefs
        /\ node' = [node EXCEPT ![t] = IF there THEN h ELSE Null]
        /\ head' = [head EXCEPT ![t] = IF there THEN h ELSE IF h = Null THEN Null ELSE freeListHead]
        /\ getting' = [getting EXCEPT ![t] = h # Null]
        /\ goto(t, IF h = Null THEN "idle" ELSE IF there THEN "next" ELSE "loop")
        /\ UNCHANGED <<freeListHead, freeListNext, top, owned, asserted>>

\* freeListNext is read; `head` keeps it, `node` is the head it belongs to.
readNext(t) ==
    /\ pc[t] = "next"
    /\ head' = [head EXCEPT ![t] = freeListNext[node[t]]] /\ goto(t, "pop")
    /\ UNCHANGED <<freeListHead, freeListRefs, freeListNext, top, node, getting, owned, asserted>>

pop(t) ==
    LET won == freeListHead = node[t] IN
    /\ pc[t] = "pop"
    /\ freeListHead' = IF won THEN head[t] ELSE freeListHead
    /\ head' = [head EXCEPT ![t] = IF won THEN Null ELSE freeListHead]
    /\ asserted' = (asserted /\ (won => freeListRefs[node[t]] < SHOULD_BE_ON_FREELIST))
    /\ goto(t, IF won THEN "got" ELSE "drop")
    /\ UNCHANGED <<freeListRefs, freeListNext, top, node, getting, owned>>

\* The list's reference and the thread's own.
got(t) ==
    /\ pc[t] = "got"
    /\ refs(node[t], -2)
    /\ owned' = [owned EXCEPT ![t] = @ \cup {node[t]}]
    /\ node' = [node EXCEPT ![t] = Null] /\ getting' = [getting EXCEPT ![t] = FALSE]
    /\ goto(t, "idle")
    /\ UNCHANGED <<freeListHead, freeListNext, head, top, asserted>>

\* The head has changed: the last reference to a node that is to be added adds it.
drop(t) ==
    LET last == freeListRefs[node[t]] = SHOULD_BE_ON_FREELIST + 1 IN
    /\ pc[t] = "drop"
    /\ refs(node[t], -1)
    /\ goto(t, IF last THEN "add" ELSE "loop")
    /\ node' = [node EXCEPT ![t] = IF last THEN @ ELSE Null]
    /\ UNCHANGED <<freeListHead, freeListNext, head, top, getting, owned, asserted>>

Next ==
    \E t \in Threads :
        \/ \E n \in Nodes : add(t, n)
        \/ try_get(t)
        \/ loadHead(t) \/ link(t) \/ push(t) \/ pushFailed(t)
        \/ reference(t) \/ readNext(t) \/ pop(t) \/ got(t) \/ drop(t)

Spec == Init /\ [][Next]_vars
----------------------------------------------------------------------------

\* The nodes on the list: those at most |Nodes| steps from its head.
onList ==
    LET from[k \in 0 .. Cardinality(Nodes)] ==
          IF k = 0 THEN {freeListHead}
          ELSE from[k - 1] \cup {freeListNext[n] : n \in from[k - 1] \ {Null}}
    IN  from[Cardinality(Nodes)] \ {Null}

taken == {node[t] : t \in {u \in Threads : pc[u] = "got"}}

\* A node has one owner at most, and an owned node is not on the list; while
\* everyone is idle no node has been lost; and a node that is taken off was not
\* waiting to be added (the assertion in try_get).
FreeListExact ==
    /\ asserted
    /\ \A t, u \in Threads : t # u => owned[t] \cap owned[u] = {}
    /\ \A t \in Threads : owned[t] \cap (onList \cup taken) = {}
    /\ (\A t \in Threads : pc[t] = "idle") =>
          onList \cup UNION {owned[t] : t \in Threads} = Nodes
===============================================================================
