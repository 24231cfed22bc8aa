--------------------------- MODULE OrderedOutput ---------------------------
(***************************************************************************)
(* What a result handler promises, without slots, locks or threads.        *)
(* Results are completed in any order.  Each is delivered to the           *)
(* downstream queries one after the other, in task order ("The results are *)
(* re-ordered before pushed to the next pipeline", ResultHandler.h), and   *)
(* the input of a task is freed when all of them have its result.          *)
(***************************************************************************)
EXTENDS Integers, Sequences

CONSTANTS NumDownstream, MaxTask

VARIABLES
    emptyResults,    \* the tasks whose output is empty, which nobody here changes
    completed, delivered, freed

outputVars == <<completed, delivered, freed>>

Init ==
    /\ completed = {}
    /\ delivered = [d \in 1 .. NumDownstream |-> <<>>]
    /\ freed = <<>>

\* The only task that may be delivered or freed next.
Turn == Len(freed) + 1

HasTurn(d) == Len(delivered[d]) > 0 /\ delivered[d][Len(delivered[d])] = Turn

complete(id) ==
    /\ id \notin completed
    /\ completed' = completed \cup {id}
    /\ UNCHANGED <<delivered, freed>>

deliver(d) ==
    /\ Turn \in completed \ emptyResults
    /\ ~HasTurn(d)
    /\ \A c \in 1 .. d - 1 : HasTurn(c)
    /\ delivered' = [delivered EXCEPT ![d] = Append(@, Turn)]
    /\ UNCHANGED <<completed, freed>>

freeInput ==
    /\ Turn \in completed
    /\ Turn \notin emptyResults => \A d \in 1 .. NumDownstream : HasTurn(d)
    /\ freed' = Append(freed, Turn)
    /\ UNCHANGED <<completed, delivered>>

Next ==
    \/ \E id \in 1 .. MaxTask : complete(id)
    \/ \E d \in 1 .. NumDownstream : deliver(d)
    \/ freeInput

Spec == Init /\ [][Next]_outputVars
============================================================================
