------------------------- MODULE PartialResultSlot -------------------------
(***************************************************************************)
(* The window fragments of a result slot and how two neighbouring slots    *)
(* are merged: PartialResultSlot in result/PartialResultSlot.h, prepend in *)
(* buffers/PartialWindowResults.h and the aggregatePartials function that  *)
(* OperatorKernel.h generates.                                             *)
(*                                                                         *)
(* A window that is longer than a batch, or lies across two, is computed   *)
(* from fragments.  Its value is abstracted to the set of contributions    *)
(* <<window, batch>> it was aggregated from.  The windows that cover a     *)
(* whole batch share one pending fragment, a contribution to AnyWindow.    *)
(***************************************************************************)
EXTENDS Integers, Sequences

CONSTANTS
    UsePtrs,         \* fragments are reached through pointers (group-by)
    PartialWindows   \* SystemConf::PARTIAL_WINDOWS, the capacity of a list

AnyWindow == 0

\* The four lists of a slot, each in window order.
NoPartials ==
    [closing |-> <<>>, pending |-> <<>>, opening |-> <<>>, complete |-> <<>>]

\* aggregatePartials with pack: window i of one list with window i of the other.
packed(opening, closing) ==
    [i \in 1 .. Len(closing) |-> opening[i] \cup closing[i]]

\* aggregatePartials without pack: its loop runs from the first window that is
\* left (wid = startingWindow) while wid < numOfWindows, the number left.
withPending(opening, pending, numOfWindows) ==
    LET startingWindow == Len(opening) - numOfWindows
    IN  [i \in 1 .. Len(opening) |->
            IF startingWindow < i /\ i <= numOfWindows
            THEN opening[i] \cup pending[1] ELSE opening[i]]

\* prepend: values are copied from window startP on, pointers are swapped from
\* the first one on.
prepend(own, opening, startP, added) ==
    LET from == IF UsePtrs THEN 0 ELSE startP
    IN  SubSeq(opening, from + 1, from + added) \o own

----------------------------------------------------------------------------
(* aggregate: the opening windows of a slot with the closing and pending   *)
(* ones of the next.                                                       *)

\* The opening windows the next batch does not close.
remainingWindows(current, next) == Len(current.opening) - Len(next.closing)

\* One of the checks in aggregate, incrementCount or prepend throws.
aggregateThrows(current, next) ==
    LET remaining == remainingWindows(current, next)
    IN  IF current.opening = <<>>
        THEN next.closing # <<>> \/ next.pending # <<>>
        ELSE \/ next.closing = <<>> /\ next.pending = <<>>
             \/ remaining < 0
             \/ Len(current.complete) + Len(next.closing) > PartialWindows
             \/ remaining > 0 /\ Len(next.pending) # 1
             \/ remaining > 0 /\ Len(next.opening) + remaining >= PartialWindows

aggregateCurrent(current, next) ==
    [current EXCEPT
        !.complete = IF current.opening = <<>> THEN @
                     ELSE @ \o packed(current.opening, next.closing),
        !.opening = <<>>]

\* Mutant: the pending fragment is added to no window.
aggregateNextSkipsPending(current, next) ==
    LET remaining == remainingWindows(current, next)
    IN  IF remaining = 0
        THEN [next EXCEPT !.closing = <<>>]
        ELSE [next EXCEPT
                !.closing = <<>>,
                !.pending = <<>>,
                !.opening = prepend(@, current.opening, Len(next.closing), remaining)]

\* The pending list is emptied only when windows remain for it.
aggregateNext(current, next) ==
    LET remaining == remainingWindows(current, next)
    IN  IF remaining = 0
        THEN [next EXCEPT !.closing = <<>>]
        ELSE [next EXCEPT
                !.closing = <<>>,
                !.pending = <<>>,
                !.opening = prepend(@,
                                withPending(current.opening, next.pending, remaining),
                                Len(next.closing), remaining)]

isReady(partials) ==
    /\ partials.closing = <<>>
    /\ partials.opening = <<>>
    /\ partials.pending = <<>>
============================================================================
