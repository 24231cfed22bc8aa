---------------------------- MODULE ParallelMerge ----------------------------
(***************************************************************************)
(* result/ResultHandler.cpp with parallel merging                          *)
(* (aggregateWindowsAndForwardAndFree) and the window slots of             *)
(* result/PartialResultSlot.h.  Any worker may fill its result slot, one   *)
(* at a time assigns the fragments of the result slots, in task order, to  *)
(* window slots (m_prepareMergeLock), any worker aggregates a window slot  *)
(* that has all its fragments, and one at a time forwards the window slots *)
(* in order (m_forwardLock).  A window slot has no lock: its flag is all   *)
(* that keeps the workers apart, so the accesses to it are steps.          *)
(*                                                                         *)
(* try_lock fails without effect, so a worker is seen only through the     *)
(* lock it holds or the window slot it aggregates.  A fragment is          *)
(* <<window, batch>>; the windows that cover a batch share its pending     *)
(* one.  The operator is seen through the fragments it computes for a      *)
(* sliding window, the checkpoint coordinator through the flags it sets.   *)
(* m_length is the number of windows it stands for.                        *)
(***************************************************************************)
EXTENDS Integers, Sequences, FiniteSets, SequencesExt

CONSTANTS
    NumberOfSlots,   \* m_numberOfSlots
    WindowSlots,     \* m_numberOfWindowSlots
    Batches,         \* batches in the input buffer: bounds the tasks in flight
    NumDownstream,   \* getNumberOfDownstreamQueries()
    Mergers,         \* bound: workers aggregating at the same time
    Queries,         \* [windows, tasks]: the windows [first, last], in batches, and how
                     \* many tasks there are
    MaxMarks         \* bound: slots a checkpoint marks

VARIABLES
    windows, tasks,  \* the windows and the tasks of this query
    result,          \* m_results: flag (m_slot), prev (m_previousSlot) and task
    win,             \* m_windowResults
    nextToAggregate, nextToForward, nextWindowToForward, currentWindowSlot,
    openingList,     \* m_openingWindowsList
    available,       \* m_availableSlots
    reserved,        \* m_reservedSlots
    toRelease,       \* m_slotsToRelease
    forwardId,       \* m_forwardId
    prepare,         \* where the holder of m_prepareMergeLock is
    window,          \* its loop variable
    latest,          \* its latestWindowSlot
    merging,         \* window slots in aggregateAll
    forward,         \* where the holder of m_forwardLock is
    releasing,       \* its loop in release: the slots to come, and whether they are kept
    marker,          \* the checkpoint coordinator: step, slot and value it read
    marks,           \* slots marked so far
    filled,          \* the tasks processed
    delivered,       \* per downstream query, the windows it has accepted
    freed            \* the tasks whose input was freed, in order

prepareVars == <<nextToAggregate, currentWindowSlot, openingList, prepare, window, latest>>
forwardVars == <<nextToForward, nextWindowToForward, toRelease, forwardId, forward, releasing,
                 delivered, freed>>
query == <<windows, tasks>>
vars == <<query, result, win, prepareVars, available, reserved, merging, forwardVars, marker,
          marks, filled>>

Slots == 0 .. NumberOfSlots - 1
Wins == 0 .. WindowSlots - 1
Downstream == 1 .. NumDownstream
AnyWindow == 0
NoRelease == [slots |-> <<>>, keep |-> FALSE]

\* flag: -1 free, 0 collecting fragments, 3 ready; parts: m_partialWindows;
\* value: the windows in m_completeWindows; length: m_length; res: m_resSlots.
FreeWindow == [flag |-> -1, parts |-> <<>>, value |-> <<>>, length |-> 0, res |-> <<>>,
               latch |-> 1]

Init ==
    /\ \E q \in Queries : windows = q.windows /\ tasks = q.tasks
    /\ result = [s \in Slots |-> [flag |-> -1, prev |-> -1, task |-> 0]]
    /\ win = [s \in Wins |-> FreeWindow]
    /\ nextToAggregate = 0 /\ nextToForward = 0 /\ nextWindowToForward = 0
    /\ currentWindowSlot = 0 /\ openingList = <<>> /\ available = <<>> /\ reserved = 0
    /\ toRelease = <<>> /\ forwardId = 0
    /\ prepare = "free" /\ window = 1 /\ latest = -1 /\ merging = {}
    /\ forward = "free" /\ releasing = NoRelease /\ marker = [at |-> "idle", slot |-> 0, val |-> 1] /\ marks = 0
    /\ filled = {} /\ delivered = [d \in Downstream |-> <<>>] /\ freed = <<>>

idx(id) == (id - 1) % NumberOfSlots
next(s) == (s + 1) % NumberOfSlots
nextWin(s) == (s + 1) % WindowSlots

----------------------------------------------------------------------------
(* The fragments of batch id, each list in window order.                   *)

those(In(_)) == SelectSeq([w \in 1 .. Len(windows) |-> w], In)
closing(id) == LET In(w) == windows[w].first < id /\ id = windows[w].last IN those(In)
opening(id) == LET In(w) == windows[w].first = id /\ id < windows[w].last IN those(In)
complete(id) == LET In(w) == windows[w].first = id /\ id = windows[w].last IN those(In)
pending(id) == id # 1 /\ complete(id) = <<>>

\* A worker has run a task: its result slot is reserved and filled.
created(id) == id <= Batches \/ id <= Len(freed) + Batches - 1

fill(id) ==
    /\ id \notin filled /\ created(id) /\ result[idx(id)].flag = -1
    /\ filled' = filled \cup {id}
    /\ result' = [result EXCEPT ![idx(id)] = [@ EXCEPT !.flag = 1, !.task = id]]
    /\ UNCHANGED <<query, win, prepareVars, available, reserved, merging, forwardVars, marker, marks>>

----------------------------------------------------------------------------
(* The holder of m_prepareMergeLock.                                       *)

cur == result[nextToAggregate].task
prepareUnchanged == UNCHANGED <<query, result, reserved, merging, forwardVars, marker, marks,
                                filled>>

\* The window slots that are left must be enough for the windows of the result.
startAssign ==
    /\ prepare = "free"
    /\ result[nextToAggregate].flag \in {1, 5}
    /\ Len(opening(cur)) + Len(complete(cur)) <= WindowSlots - reserved
    /\ prepare' = "closing" /\ window' = 1 /\ latest' = -1
    /\ prepareUnchanged
    /\ UNCHANGED <<nextToAggregate, currentWindowSlot, openingList, win, available>>

\* The first window that is open gets its last fragment and can be aggregated.
assignClosing ==
    LET s == Head(openingList) IN
    /\ prepare = "closing"
    /\ window <= Len(closing(cur)) /\ openingList # <<>>
    /\ win[s].flag = 0
    /\ win' = [win EXCEPT ![s].parts = Append(@, <<closing(cur)[window], cur>>)]
    /\ openingList' = Tail(openingList)
    /\ available' = Append(available, s)
    /\ latest' = s
    /\ window' = window + 1
    /\ prepareUnchanged
    /\ UNCHANGED <<nextToAggregate, currentWindowSlot, prepare>>

\* The complete windows take one slot, which is ready at once ...
assignComplete ==
    LET s == currentWindowSlot
        c == complete(cur) IN
    /\ prepare = "closing"
    /\ window > Len(closing(cur)) \/ openingList = <<>>
    /\ IF c = <<>>
       THEN prepare' = "pending" /\ UNCHANGED <<win, latest>>
       ELSE /\ win[s].flag = -1
            /\ win' = [win EXCEPT ![s].value = [i \in 1 .. Len(c) |-> {<<c[i], cur>>}],
                                  ![s].flag = 3]
            /\ latest' = s
            /\ prepare' = "length"
    /\ prepareUnchanged
    /\ UNCHANGED <<nextToAggregate, currentWindowSlot, openingList, available, window>>

\* ... and whose length is set afterwards.
setLength ==
    /\ prepare = "length"
    /\ win' = [win EXCEPT ![currentWindowSlot].length = Len(complete(cur))]
    /\ currentWindowSlot' = nextWin(currentWindowSlot)
    /\ prepare' = "pending"
    /\ prepareUnchanged
    /\ UNCHANGED <<nextToAggregate, openingList, available, window, latest>>

\* Every window that stays open gets the pending fragment.
assignPending ==
    LET open == Range(openingList) IN
    /\ prepare = "pending"
    /\ pending(cur) => \A s \in open : win[s].flag = 0
    /\ win' = [s \in Wins |-> IF pending(cur) /\ s \in open
                              THEN [win[s] EXCEPT !.parts = Append(@, <<AnyWindow, cur>>)]
                              ELSE win[s]]
    /\ latest' = IF pending(cur) /\ openingList # <<>> THEN Last(openingList) ELSE latest
    /\ prepare' = "opening" /\ window' = 1
    /\ prepareUnchanged
    /\ UNCHANGED <<nextToAggregate, currentWindowSlot, openingList, available>>

assignOpening ==
    LET s == currentWindowSlot IN
    /\ prepare = "opening"
    /\ window <= Len(opening(cur))
    /\ win[s].flag = -1
    /\ win' = [win EXCEPT ![s].parts = Append(@, <<opening(cur)[window], cur>>), ![s].flag = 0]
    /\ openingList' = Append(openingList, s)
    /\ currentWindowSlot' = nextWin(s)
    /\ latest' = s
    /\ window' = window + 1
    /\ prepareUnchanged
    /\ UNCHANGED <<nextToAggregate, prepare, available>>

\* Mutant: the windows assigned are not counted as reserved.
endAssignUncounted ==
    /\ prepare = "opening" /\ window > Len(opening(cur))
    /\ latest # -1
    /\ win' = [win EXCEPT ![latest].res = Append(@, nextToAggregate)]
    /\ prepare' = "exchange"
    /\ UNCHANGED <<query, result, reserved, merging, forwardVars, marker, marks, filled, available,
                   nextToAggregate, currentWindowSlot, openingList, window, latest>>

\* The windows are counted, and the result slot is left with the last window slot
\* that has a fragment of it (setResultSlot), free again or not; without one the
\* function throws and the lock stays locked.
endAssign ==
    /\ prepare = "opening" /\ window > Len(opening(cur))
    /\ reserved' = reserved + Len(opening(cur)) + (IF complete(cur) = <<>> THEN 0 ELSE 1)
    /\ IF latest = -1
       THEN prepare' = "threw" /\ UNCHANGED win
       ELSE /\ win' = [win EXCEPT ![latest].res = Append(@, nextToAggregate)]
            /\ prepare' = "exchange"
    /\ UNCHANGED <<query, result, merging, forwardVars, marker, marks, filled, available,
                   nextToAggregate, currentWindowSlot, openingList, window, latest>>

\* Its flag goes from 1 to 3; when a checkpoint has marked it, its previous value
\* becomes 3.
exchange ==
    LET r == nextToAggregate IN
    /\ prepare \in {"exchange", "previous"}
    /\ IF prepare = "exchange" /\ result[r].flag # 1
       THEN prepare' = "previous" /\ UNCHANGED <<result, nextToAggregate>>
       ELSE /\ result' = IF prepare = "exchange" THEN [result EXCEPT ![r].flag = 3]
                         ELSE [result EXCEPT ![r].prev = 3]
            /\ nextToAggregate' = next(r)
            /\ prepare' = "free"
    /\ UNCHANGED <<query, win, reserved, merging, forwardVars, marker, marks, filled, available,
                   currentWindowSlot, openingList, window, latest>>

----------------------------------------------------------------------------
(* Aggregating.                                                            *)

mergeUnchanged == UNCHANGED <<query, result, prepareVars, reserved, forwardVars, marker, marks,
                              filled>>

try_pop ==
    /\ available # <<>> /\ Cardinality(merging) < Mergers
    /\ merging' = merging \cup {Head(available)}
    /\ available' = Tail(available)
    /\ UNCHANGED win /\ mergeUnchanged

aggregateAll(s) ==
    /\ s \in merging
    /\ merging' = merging \ {s}
    /\ win' = [win EXCEPT ![s] = [@ EXCEPT !.value = <<Range(win[s].parts)>>, !.parts = <<>>,
                                           !.length = 1, !.flag = 3]]
    /\ UNCHANGED available /\ mergeUnchanged

----------------------------------------------------------------------------
(* The holder of m_forwardLock.                                            *)

forwardUnchanged == UNCHANGED <<query, prepareVars, available, merging, marker, marks, filled>>

\* The slots kept in toRelease that can be released now.
releasable ==
    Max({n \in 0 .. Len(toRelease) : \A i \in 1 .. n : result[toRelease[i]].flag = 3})

freeSlots(slots) == [s \in Slots |-> IF s \in Range(slots) THEN [result[s] EXCEPT !.flag = -1]
                                     ELSE result[s]]
tasksOf(slots) == [i \in 1 .. Len(slots) |-> result[slots[i]].task]
advance(n) == nextToForward' = (nextToForward + n) % NumberOfSlots

startForward ==
    LET slots == SubSeq(toRelease, 1, releasable) IN
    /\ forward = "free"
    /\ releasable > 0 \/ win[nextWindowToForward].flag = 3
    /\ result' = freeSlots(slots)
    /\ freed' = freed \o tasksOf(slots)
    /\ toRelease' = SubSeq(toRelease, releasable + 1, Len(toRelease))
    /\ advance(releasable)
    /\ forward' = IF win[nextWindowToForward].flag = 3 THEN "send" ELSE "free"
    /\ forwardUnchanged
    /\ UNCHANGED <<win, reserved, nextWindowToForward, forwardId, delivered, releasing>>

\* m_length windows of the buffer: one that is not there is whatever it holds.
sendable(s) == [i \in 1 .. win[s].length |-> IF i <= Len(win[s].value) THEN win[s].value[i] ELSE {}]

\* The windows go to the downstream queries from latch on, up to query q, which
\* has no room.  Nothing is sent when the length is 0.
send(q) ==
    LET s == nextWindowToForward
        sent == {d \in Downstream : win[s].length > 0 /\ win[s].latch <= d /\ d < q} IN
    /\ forward = "send"
    /\ q <= NumDownstream => win[s].length > 0 /\ q >= win[s].latch
    /\ delivered' = [d \in Downstream |-> IF d \in sent THEN delivered[d] \o sendable(s)
                                          ELSE delivered[d]]
    /\ forwardId' = IF win[s].res = <<>> THEN forwardId ELSE forwardId + Cardinality(sent)
    /\ IF q <= NumDownstream
       THEN forward' = "free" /\ win' = [win EXCEPT ![s].latch = q]
       ELSE forward' = "release" /\ UNCHANGED win
    /\ forwardUnchanged
    /\ UNCHANGED <<result, reserved, nextToForward, nextWindowToForward, toRelease, freed, releasing>>

\* release: the loop over the result slots that are here now, which are all kept
\* when older ones are.
release ==
    /\ forward = "release"
    /\ releasing' = [slots |-> win[nextWindowToForward].res, keep |-> toRelease # <<>>]
    /\ forward' = "loop"
    /\ forwardUnchanged
    /\ UNCHANGED <<result, win, reserved, nextToForward, nextWindowToForward, toRelease, forwardId,
                   delivered, freed>>

\* One round: the slot is freed, or kept when a checkpoint has marked it.
releaseSlot ==
    LET r == Head(releasing.slots) IN
    /\ forward = "loop" /\ releasing.slots # <<>>
    /\ IF ~releasing.keep /\ result[r].flag = 3
       THEN /\ result' = freeSlots(<<r>>) /\ freed' = freed \o tasksOf(<<r>>)
            /\ advance(1) /\ UNCHANGED toRelease
       ELSE toRelease' = Append(toRelease, r) /\ UNCHANGED <<result, freed, nextToForward>>
    /\ releasing' = [releasing EXCEPT !.slots = Tail(@)]
    /\ forwardUnchanged
    /\ UNCHANGED <<win, reserved, nextWindowToForward, forwardId, forward, delivered>>

\* m_resSlots.clear(), if there were any; then the window slot is given up.
clearSlots ==
    LET s == nextWindowToForward IN
    /\ \/ /\ forward = "loop" /\ releasing.slots = <<>>
          /\ win' = [win EXCEPT ![s].res = <<>>] /\ forward' = "cleared"
       \/ /\ forward = "cleared"
          /\ win' = [win EXCEPT ![s].value = <<>>, ![s].flag = -1] /\ forward' = "reset"
    /\ releasing' = NoRelease
    /\ forwardUnchanged
    /\ UNCHANGED <<result, reserved, nextToForward, nextWindowToForward, toRelease, forwardId,
                   delivered, freed>>

\* Its fields are reset, all but m_latch, and the next window slot follows.  (With
\* a checkpoint waiting the loop ends after five of them.)
resetWindow ==
    LET s == nextWindowToForward IN
    /\ forward = "reset"
    /\ win' = [win EXCEPT ![s].length = 0]
    /\ reserved' = reserved - 1
    /\ nextWindowToForward' = nextWin(s)
    /\ forward' \in IF win[nextWin(s)].flag = 3 THEN {"send", "free"} ELSE {"free"}
    /\ forwardUnchanged
    /\ UNCHANGED <<result, nextToForward, toRelease, forwardId, delivered, freed, releasing>>

----------------------------------------------------------------------------
(* The checkpoint coordinator marks a slot while it holds m_forwardLock    *)
(* (prepareCheckpoint) and gives it back when its fragments have been      *)
(* written, with the value that m_previousSlot had when the write was      *)
(* issued.                                                                 *)

markerUnchanged == UNCHANGED <<query, win, prepareVars, available, reserved, merging, nextToForward,
                               nextWindowToForward, toRelease, forwardId, releasing, delivered,
                               freed, filled>>

readSlot(s) ==
    /\ marker.at = "idle" /\ marks < MaxMarks /\ forward = "free"
    /\ result[s].flag \in {1, 3}
    /\ result' = [result EXCEPT ![s].prev = result[s].flag]
    /\ marker' = [at |-> "read", slot |-> s, val |-> result[s].flag]
    /\ marks' = marks + 1 /\ forward' = "marking"
    /\ markerUnchanged

\* The flag may have changed since it was read.
markSlot ==
    /\ marker.at = "read"
    /\ result' = [result EXCEPT ![marker.slot].flag = 5]
    /\ marker' = [marker EXCEPT !.at = "marked"]
    /\ forward' = "free"
    /\ UNCHANGED marks /\ markerUnchanged

writeSlot ==
    /\ marker.at = "marked"
    /\ marker' = [marker EXCEPT !.at = "writing", !.val = result[marker.slot].prev]
    /\ UNCHANGED <<result, marks, forward>> /\ markerUnchanged

\* So may the previous value by now.
giveBack ==
    /\ marker.at = "writing"
    /\ result' = [result EXCEPT ![marker.slot].flag = marker.val]
    /\ marker' = [marker EXCEPT !.at = "idle"]
    /\ UNCHANGED <<marks, forward>> /\ markerUnchanged

Prepare == startAssign \/ assignClosing \/ assignComplete \/ setLength \/ assignPending
           \/ assignOpening \/ endAssign \/ exchange
Merge == try_pop \/ \E s \in Wins : aggregateAll(s)
Forward == startForward \/ release \/ releaseSlot \/ clearSlots \/ resetWindow
           \/ \E q \in 1 .. NumDownstream + 1 : send(q)
Coordinator == markSlot \/ writeSlot \/ giveBack \/ \E s \in Slots : readSlot(s)

Next ==
    \/ \E id \in 1 .. tasks : fill(id)
    \/ Prepare \/ Merge \/ Forward \/ Coordinator

Spec == Init /\ [][Next]_vars
----------------------------------------------------------------------------

TypeOK ==
    /\ result \in [Slots -> [flag : {-1, 1, 3, 5}, prev : {-1, 1, 3}, task : 0 .. tasks]]
    /\ \A s \in Wins : win[s].flag \in {-1, 0, 3} /\ win[s].latch \in 1 .. NumDownstream
    /\ {nextToAggregate, nextToForward} \subseteq Slots
    /\ {nextWindowToForward, currentWindowSlot} \subseteq Wins
    /\ merging \subseteq Wins

\* Batch id leaves a window open, and its result slot with that window.
leavesOpen(id) ==
    \/ opening(id) # <<>>
    \/ pending(id) /\ \E w \in 1 .. Len(windows) : windows[w].first < id /\ id < windows[w].last

\* No window is within one batch, and every batch leaves one open.
Overlapping == \A id \in 1 .. tasks : complete(id) = <<>> /\ leavesOpen(id)

expected(w) ==
    {<<w, windows[w].first>>, <<w, windows[w].last>>}
    \cup {<<AnyWindow, b>> : b \in windows[w].first + 1 .. windows[w].last - 1}

\* Every downstream query gets the windows in order, each exactly once and
\* aggregated from exactly the fragments it has in the batches it covers, although
\* the windows are assigned, aggregated and forwarded by different workers.
WindowsExact ==
    \A d \in Downstream : \A i \in 1 .. Len(delivered[d]) :
        i <= Len(windows) /\ delivered[d][i] = expected(i)

\* Input is freed in order, and the fragments of a batch are given back only when
\* no window slot still has one to be aggregated.
FreedWhenUsed ==
    /\ \A i \in 1 .. Len(freed) : freed[i] = i
    /\ \A s \in Wins : \A i \in 1 .. Len(win[s].parts) : win[s].parts[i][2] > Len(freed)

\* m_reservedSlots counts the window slots in use, so that the holder of the
\* prepare lock never waits for a window slot, nor meets one that is not reset.
NeverWaits ==
    /\ prepare = "closing" /\ window > Len(closing(cur)) /\ complete(cur) # <<>> =>
          win[currentWindowSlot].flag = -1
    /\ prepare = "opening" /\ window <= Len(opening(cur)) =>
          win[currentWindowSlot].flag = -1 /\ win[currentWindowSlot].parts = <<>>

\* No worker ever waits for a window slot.  For windows that overlap so that every
\* batch leaves one open, the windows are exact whatever a checkpoint marks, and
\* without one their fragments and their input are freed when used.
ParallelMergeSound ==
    /\ NeverWaits
    /\ Overlapping => WindowsExact
    /\ Overlapping /\ marks = 0 => FreedWhenUsed
==============================================================================
