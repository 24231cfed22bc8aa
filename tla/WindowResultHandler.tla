------------------------ MODULE WindowResultHandler ------------------------
(***************************************************************************)
(* result/ResultHandler.cpp of LightSaber for window aggregations with     *)
(* single-threaded merging (aggregateAndForwardAndFree).  A result has     *)
(* fragments of windows; under the merge lock each slot is merged with the *)
(* next one, after which it is ready to be forwarded under the forward     *)
(* lock.  Two workers can be in the two sections at the same time.         *)
(*                                                                         *)
(* As in ResultHandler, every access to shared state is a step; merging    *)
(* two slots is one, because both are private to the holder of the merge   *)
(* lock while their flag is 1.  The operator is seen through the fragments *)
(* it computes, the dispatcher through its bound on tasks in flight.       *)
(* m_maxTaskId, which only checkpoints read, is left out.                  *)
(***************************************************************************)
EXTENDS PartialResultSlot

Seqs == INSTANCE SequencesExt

CONSTANTS
    NumberOfSlots,   \* m_numberOfSlots
    Workers,         \* the worker threads
    NoWorker,        \* a lock is not held
    NumDownstream,   \* getNumberOfDownstreamQueries()
    MaxTask,         \* bound: number of processing tasks
    Queries          \* the window definitions of a query that are considered

ASSUME WindowResultHandlerAssumption ==
    /\ NumberOfSlots \in Nat \ {0}
    /\ NoWorker \notin Workers
    /\ NumDownstream \in Nat
    /\ MaxTask \in Nat
    /\ PartialWindows \in Nat
    /\ UsePtrs \in BOOLEAN
    /\ \A q \in Queries :
          /\ q.sliding \in BOOLEAN /\ q.batches \in Nat \ {0}
          /\ \A w \in 1 .. Len(q.windows) : q.windows[w].first <= q.windows[w].last
          /\ \A w \in 1 .. Len(q.windows) - 1 :
                /\ q.windows[w].first <= q.windows[w + 1].first
                /\ q.windows[w].last <= q.windows[w + 1].last

VARIABLES
    query,           \* this query: its windows, and the batches of its input buffer
    slot,            \* m_slot: -1 free, 0 filling, 1 to merge, 3 ready, 4 forwarding
    result,          \* m_taskId of each slot, 0 when never filled
    partials,        \* the fragments in each slot
    latch,           \* m_latch of each slot
    nextToAggregate, \* m_nextToAggregate
    mergeLock,       \* m_mergeLock: its holder
    nextToForward,   \* m_nextToForward
    forwardLock,     \* m_forwardLock: its holder
    pc,              \* where each worker is
    task,            \* the task each worker runs
    oldVal,          \* the expected value of the worker's compare_exchange
    qry,             \* the loop variable q of the forwarding loop
    started,         \* the processing tasks handed to workers so far
    delivered,       \* per downstream query, the results it has accepted
    freed            \* the tasks whose input was freed, in order

slotVars == <<slot, result, partials, latch>>
mergeVars == <<nextToAggregate, mergeLock>>
forwardVars == <<nextToForward, forwardLock, qry, delivered, freed>>
workerVars == <<query, task, oldVal, started>>
vars == <<slotVars, mergeVars, forwardVars, workerVars, pc>>

Slots == 0 .. NumberOfSlots - 1
Downstream == 1 .. NumDownstream
TaskIds == 1 .. MaxTask
\* Per window, the batches that open and close it; and whether the window slide
\* differs from the window size.
Windows == query.windows
Sliding == query.sliding
Batches == query.batches     \* capacity / batch size of the input buffer
MergeTask == [type |-> "MERGE_FORWARD", id |-> 0]

Init ==
    /\ query \in Queries
    /\ slot = [s \in Slots |-> -1]
    /\ result = [s \in Slots |-> 0]
    /\ partials = [s \in Slots |-> NoPartials]
    /\ latch = [s \in Slots |-> 0]
    /\ nextToAggregate = 0
    /\ mergeLock = NoWorker
    /\ nextToForward = 0
    /\ forwardLock = NoWorker
    /\ pc = [w \in Workers |-> "idle"]
    /\ task = [w \in Workers |-> MergeTask]
    /\ oldVal = [w \in Workers |-> -1]
    /\ qry = [w \in Workers |-> 0]
    /\ started = {}
    /\ delivered = [d \in Downstream |-> <<>>]
    /\ freed = <<>>

idx(id) == (id - 1) % NumberOfSlots
next(s) == (s + 1) % NumberOfSlots
goto(w, l) == pc' = [pc EXCEPT ![w] = l]

----------------------------------------------------------------------------
(* The fragments the operator computes from batch id.                      *)

\* One fragment, of batch id, for each window in w's order that satisfies In.
fragments(In(_), id) ==
    LET windows == SelectSeq([w \in 1 .. Len(Windows) |-> w], In)
    IN  [i \in 1 .. Len(windows) |-> {<<windows[i], id>>}]

fragmentsOf(id) ==
    LET opens(w) == Windows[w].first = id /\ id < Windows[w].last
        closes(w) == Windows[w].first < id /\ id = Windows[w].last
        within(w) == Windows[w].first = id /\ id = Windows[w].last
        closing == fragments(closes, id)
        complete == fragments(within, id)
    IN [closing  |-> closing,
        pending  |-> IF id # 1 /\ complete = <<>> /\ (closing = <<>> \/ Sliding)
                     THEN << {<<AnyWindow, id>>} >> ELSE <<>>,
        opening  |-> fragments(opens, id),
        complete |-> complete]

----------------------------------------------------------------------------
(* A worker gets a task, reserves its slot and fills it.                   *)

created(id) == id <= Batches \/ id <= Len(freed) + Batches - 1

startProcess(w, type, id) ==
    /\ pc[w] = "idle"
    /\ id \notin started
    /\ created(id)
    /\ started' = started \cup {id}
    /\ task' = [task EXCEPT ![w] = [type |-> type, id |-> id]]
    /\ oldVal' = [oldVal EXCEPT ![w] = -1]
    /\ goto(w, "reserve")
    /\ UNCHANGED <<slotVars, mergeVars, forwardVars, query>>

startMergeForward(w) ==
    /\ pc[w] = "idle"
    /\ task' = [task EXCEPT ![w] = MergeTask]
    /\ goto(w, "lockMerge")
    /\ UNCHANGED <<slotVars, mergeVars, forwardVars, query, oldVal, started>>

\* One round of the compare_exchange loop, as in ResultHandler.
reserveSlot(w) ==
    LET s == idx(task[w].id) IN
    /\ pc[w] = "reserve"
    /\ IF slot[s] = oldVal[w]
       THEN /\ slot' = [slot EXCEPT ![s] = 0]
            /\ goto(w, "fill")
            /\ oldVal' = oldVal
       ELSE /\ oldVal' = [oldVal EXCEPT ![w] = slot[s]]
            /\ UNCHANGED <<slot, pc>>
    /\ UNCHANGED <<result, partials, latch, mergeVars, forwardVars, query,
                   task, started>>

\* PartialResultSlot::init, while nobody else looks at the slot.
fillSlot(w) ==
    LET s == idx(task[w].id) IN
    /\ pc[w] = "fill"
    /\ result' = [result EXCEPT ![s] = task[w].id]
    /\ partials' = [partials EXCEPT ![s] = fragmentsOf(task[w].id)]
    /\ latch' = [latch EXCEPT ![s] = 0]
    /\ goto(w, "publish")
    /\ UNCHANGED <<slot, mergeVars, forwardVars, workerVars>>

publishSlot(w) ==
    /\ pc[w] = "publish"
    /\ slot' = [slot EXCEPT ![idx(task[w].id)] = 1]
    /\ goto(w, IF task[w].type = "PROCESS" THEN "lockMerge" ELSE "idle")
    /\ UNCHANGED <<result, partials, latch, mergeVars, forwardVars, workerVars>>

----------------------------------------------------------------------------
(* Merging slots pair-wise, under the merge lock.                          *)

\* Not getting the merge lock is no reason not to forward.
tryLockMerge(w) ==
    /\ pc[w] = "lockMerge"
    /\ IF mergeLock = NoWorker
       THEN mergeLock' = w /\ goto(w, "merge")
       ELSE mergeLock' = mergeLock /\ goto(w, "lock")
    /\ UNCHANGED <<slotVars, nextToAggregate, forwardVars, workerVars>>

\* The flags of the slot to aggregate and of the next one: 5 is a checkpoint's.
bothPublished == slot[nextToAggregate] = 1 /\ slot[next(nextToAggregate)] = 1
flagsThrow ==
    \/ slot[nextToAggregate] > 1
    \/ slot[nextToAggregate] = 1 /\ slot[next(nextToAggregate)] \in {2, 3}

\* Both slots are published: the first is merged and ready to be forwarded.
mergePair(w) ==
    LET c == nextToAggregate
        n == next(c)
        merged == aggregateCurrent(partials[c], partials[n])
    IN  /\ pc[w] = "merge"
        /\ bothPublished
        /\ ~aggregateThrows(partials[c], partials[n])
        /\ isReady(merged)
        /\ partials' = [partials EXCEPT ![c] = merged,
                                        ![n] = aggregateNext(partials[c], partials[n])]
        /\ nextToAggregate' = n
        /\ slot' = [slot EXCEPT ![c] = 3]
        /\ goto(w, "mergeNext")
        /\ UNCHANGED <<result, latch, mergeLock, forwardVars, workerVars>>

\* Mutant: the second slot is ready whatever fragments it has.
mergeNextUnchecked(w) ==
    /\ pc[w] = "mergeNext"
    /\ slot' = [slot EXCEPT ![nextToAggregate] = 3]
    /\ nextToAggregate' = next(nextToAggregate)
    /\ goto(w, "merge")
    /\ UNCHANGED <<result, partials, latch, mergeLock, forwardVars, workerVars>>

\* The second slot is ready too when it opens no window.
mergeNext(w) ==
    /\ pc[w] = "mergeNext"
    /\ IF isReady(partials[nextToAggregate])
       THEN /\ slot' = [slot EXCEPT ![nextToAggregate] = 3]
            /\ nextToAggregate' = next(nextToAggregate)
       ELSE UNCHANGED <<slot, nextToAggregate>>
    /\ goto(w, "merge")
    /\ UNCHANGED <<result, partials, latch, mergeLock, forwardVars, workerVars>>

\* Mutant: the merge lock is kept.
mergeDoneKeepsLock(w) ==
    /\ pc[w] = "merge"
    /\ ~bothPublished
    /\ ~flagsThrow
    /\ goto(w, "lock")
    /\ UNCHANGED <<slotVars, mergeVars, forwardVars, workerVars>>

\* One of the two is not published, or the next one is being forwarded.
mergeDone(w) ==
    /\ pc[w] = "merge"
    /\ ~bothPublished
    /\ ~flagsThrow
    /\ mergeLock' = NoWorker
    /\ goto(w, "lock")
    /\ UNCHANGED <<slotVars, nextToAggregate, forwardVars, workerVars>>

\* An exception leaves aggregateAndForwardAndFree through its catch clause, which
\* does not unlock m_mergeLock.
mergeThrows(w) ==
    LET c == nextToAggregate
        n == next(c)
    IN  /\ pc[w] = "merge"
        /\ \/ flagsThrow
           \/ /\ bothPublished
              /\ \/ aggregateThrows(partials[c], partials[n])
                 \/ ~isReady(aggregateCurrent(partials[c], partials[n]))
        /\ goto(w, "idle")
        /\ UNCHANGED <<slotVars, mergeVars, forwardVars, workerVars>>

----------------------------------------------------------------------------
(* Forwarding the ready results, under the forward lock.                   *)

tryLock(w) ==
    /\ pc[w] = "lock"
    /\ IF forwardLock = NoWorker
       THEN forwardLock' = w /\ goto(w, "check")
       ELSE forwardLock' = forwardLock /\ goto(w, "idle")
    /\ UNCHANGED <<slotVars, mergeVars, nextToForward, qry, delivered, freed, workerVars>>

\* Mutant: a slot that is not merged yet is forwarded.
checkReadyUnmerged(w) ==
    LET s == nextToForward IN
    /\ pc[w] = "check"
    /\ slot[s] \in {1, 3}
    /\ slot' = [slot EXCEPT ![s] = 4]
    /\ qry' = [qry EXCEPT ![w] = latch[s]]
    /\ goto(w, IF NumDownstream > 0 /\ partials[s].complete # <<>>
               THEN "forward" ELSE "free")
    /\ UNCHANGED <<result, partials, latch, mergeVars, nextToForward, forwardLock,
                   delivered, freed, workerVars>>

\* compare_exchange_strong from 3 to 4; a result without rows is not forwarded.
checkReady(w) ==
    LET s == nextToForward IN
    /\ pc[w] = "check"
    /\ slot[s] = 3
    /\ slot' = [slot EXCEPT ![s] = 4]
    /\ qry' = [qry EXCEPT ![w] = latch[s]]
    /\ goto(w, IF NumDownstream > 0 /\ partials[s].complete # <<>>
               THEN "forward" ELSE "free")
    /\ UNCHANGED <<result, partials, latch, mergeVars, nextToForward, forwardLock,
                   delivered, freed, workerVars>>

checkNotReady(w) ==
    /\ pc[w] = "check"
    /\ slot[nextToForward] # 3
    /\ goto(w, "unlock")
    /\ UNCHANGED <<slotVars, mergeVars, forwardVars, workerVars>>

\* tryDispatch of downstream query qry + 1 accepts the result.
forwardAccepted(w) ==
    LET d == qry[w] + 1
        s == nextToForward
    IN  /\ pc[w] = "forward"
        /\ delivered' = [delivered EXCEPT ![d] =
              Append(@, [task |-> result[s], windows |-> partials[s].complete])]
        /\ qry' = [qry EXCEPT ![w] = d]
        /\ goto(w, IF d = NumDownstream THEN "free" ELSE "forward")
        /\ UNCHANGED <<slotVars, mergeVars, nextToForward, forwardLock, freed, workerVars>>

\* Mutant: a result that is not accepted is freed all the same.
forwardRejectedDrops(w) ==
    /\ pc[w] = "forward"
    /\ goto(w, "free")
    /\ UNCHANGED <<slotVars, mergeVars, forwardVars, workerVars>>

\* It is full: remember where to resume and give the slot back.
forwardRejected(w) ==
    /\ pc[w] = "forward"
    /\ latch' = [latch EXCEPT ![nextToForward] = qry[w]]
    /\ slot' = [slot EXCEPT ![nextToForward] = 3]
    /\ goto(w, "unlock")
    /\ UNCHANGED <<result, partials, mergeVars, forwardVars, workerVars>>

freeInput(w) ==
    /\ pc[w] = "free"
    /\ freed' = Append(freed, result[nextToForward])
    /\ goto(w, "release")
    /\ UNCHANGED <<slotVars, mergeVars, nextToForward, forwardLock, qry, delivered, workerVars>>

\* release returns the fragments to their pool.
releaseSlot(w) ==
    /\ pc[w] = "release"
    /\ slot' = [slot EXCEPT ![nextToForward] = -1]
    /\ partials' = [partials EXCEPT ![nextToForward] = NoPartials]
    /\ nextToForward' = next(nextToForward)
    /\ goto(w, "check")
    /\ UNCHANGED <<result, latch, mergeVars, forwardLock, qry, delivered, freed, workerVars>>

unlock(w) ==
    /\ pc[w] = "unlock"
    /\ forwardLock' = NoWorker
    /\ goto(w, "idle")
    /\ UNCHANGED <<slotVars, mergeVars, nextToForward, qry, delivered, freed, workerVars>>

\* What worker w does once it has a task.
Work(w) ==
    \/ reserveSlot(w) \/ fillSlot(w) \/ publishSlot(w)
    \/ tryLockMerge(w) \/ mergePair(w) \/ mergeNext(w) \/ mergeDone(w)
    \/ mergeThrows(w)
    \/ tryLock(w) \/ checkReady(w) \/ checkNotReady(w)
    \/ forwardAccepted(w) \/ forwardRejected(w)
    \/ freeInput(w) \/ releaseSlot(w) \/ unlock(w)

Next ==
    \E w \in Workers :
        \/ \E type \in {"PROCESS", "ONLY_PROCESS"}, id \in TaskIds :
              startProcess(w, type, id)
        \/ startMergeForward(w)
        \/ Work(w)

Spec == Init /\ [][Next]_vars

\* Threads keep running.  While the dispatcher is blocked it goes on creating
\* MERGE_FORWARD tasks, and a downstream query does not stay full for ever.
Fairness ==
    /\ \A w \in Workers : WF_vars(Work(w))
    /\ \A w \in Workers : SF_vars(forwardAccepted(w))
    /\ WF_vars(\E w \in Workers : startMergeForward(w))

FairSpec == Spec /\ Fairness

----------------------------------------------------------------------------
(* Properties.                                                             *)

mergeLabels == {"merge", "mergeNext"}
forwardLabels == {"check", "forward", "free", "release", "unlock"}

TypeOK ==
    /\ slot \in [Slots -> {-1, 0, 1, 3, 4}]
    /\ result \in [Slots -> 0 .. MaxTask]
    /\ latch \in [Slots -> 0 .. NumDownstream]
    /\ nextToAggregate \in Slots /\ nextToForward \in Slots
    /\ mergeLock \in Workers \cup {NoWorker}
    /\ forwardLock \in Workers \cup {NoWorker}
    /\ pc \in [Workers -> {"idle", "reserve", "fill", "publish", "lockMerge", "lock"}
                             \cup mergeLabels \cup forwardLabels]
    /\ started \subseteq TaskIds

\* What window w has to be aggregated from: its own fragments in the first and
\* the last batch, and the pending fragments of the batches in between.
WholeWindow(w) ==
    {<<w, Windows[w].first>>, <<w, Windows[w].last>>}
        \cup {<<AnyWindow, b>> : b \in Windows[w].first + 1 .. Windows[w].last - 1}

\* Every downstream query gets the windows in order, none twice, and each one
\* aggregated from all its fragments and from no other: opening windows with
\* closing ones, and the windows left with the pending fragment of every batch
\* in between ("There may be some opening windows left, in which case they are
\* aggregated with node partialSlot's pending one", PartialResultSlot.h).
WindowsComplete ==
    \A d \in Downstream :
        LET out == Seqs!FlattenSeq([i \in DOMAIN delivered[d] |-> delivered[d][i].windows])
        IN  \A w \in DOMAIN out : out[w] = WholeWindow(w)

\* The ring has a slot that the batches of the input buffer do not need.
SpareSlot == Batches < NumberOfSlots

\* The merge lock is held only by a worker that is merging: none of the errors
\* that aggregateAndForwardAndFree throws while it has the lock occurs, after
\* which nobody could merge again.  It takes a spare slot: on a full ring the
\* slot after the one to merge can be of the previous lap.
MergeLockReleased ==
    SpareSlot /\ mergeLock # NoWorker => pc[mergeLock] \in mergeLabels

\* The slots from m_nextToForward up to m_nextToAggregate, and no others, have
\* been merged: what is forwarded has been merged once, and merging has not
\* gone past a result that is not there yet.
MergedBetweenPointers ==
    /\ TypeOK
    /\ SpareSlot => \A s \in Slots :
          slot[s] \in {3, 4} <=>
              (s - nextToForward) % NumberOfSlots
                  < (nextToAggregate - nextToForward) % NumberOfSlots

\* What the handler promises: see OrderedOutput.  A window is in the result of
\* the batch before its last one, or of the only batch it has tuples in.
Completed == {result[s] : s \in {s \in Slots : slot[s] \in {1, 3, 4}}}
                 \cup {freed[i] : i \in 1 .. Len(freed)}
Empty == {id \in TaskIds : \A w \in 1 .. Len(Windows) :
            id # IF Windows[w].first = Windows[w].last THEN Windows[w].first
                 ELSE Windows[w].last - 1}
Ordered == INSTANCE OrderedOutput WITH
    emptyResults <- Empty,
    completed <- Completed,
    delivered <- [d \in Downstream |->
                     [i \in DOMAIN delivered[d] |-> delivered[d][i].task]]

\* Merging does not disturb the order of the results: they leave in task order
\* for all downstream queries, and input is freed after they left.
ImplementsOrderedOutput == Ordered!Spec

\* Merging makes progress: once a batch and all those before it have been handed
\* to workers, the batch before it is merged, forwarded and freed, although most
\* workers skip the two critical sections when they are taken.
EventuallyFreed ==
    \A id \in 1 .. MaxTask - 1 :
        SpareSlot /\ 1 .. id + 1 \subseteq started ~> Len(freed) >= id
============================================================================
