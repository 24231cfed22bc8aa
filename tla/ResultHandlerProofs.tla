------------------------ MODULE ResultHandlerProofs ------------------------
(***************************************************************************)
(* Safety of the slot ring for every number of slots, workers, downstream  *)
(* queries and tasks, as long as no more batches are in flight than the    *)
(* ring has slots; and that it implements OrderedOutput.                   *)
(***************************************************************************)
EXTENDS ResultHandlerForwarding

----------------------------------------------------------------------------
(* The invariant holds.                                                    *)

\* The ring starts empty.
LEMMA InitRing ==
    ASSUME Init
    PROVE  RingInvariant
<1> USE DEF Init
<1>1. TypeOK
  BY ResultHandlerAssumption DEF TypeOK, Slots, pcLabels, MergeTask, Downstream
<1>2. ~Releasing /\ Released = 0 /\ Len(freed) = 0
  BY DEF Releasing, Released
<1>3. FreedInOrder
  <2>1. 0 % NumberOfSlots = 0
    BY ModLe, ResultHandlerAssumption
  <2> QED BY <1>2, <2>1 DEF FreedInOrder
<1>4. OneForwarder
  BY ResultHandlerAssumption DEF OneForwarder, Forwarding, Locks
<1>5. OneHolder
  BY DEF OneHolder, Holds, Full
<1>6. FillingMarked
  BY DEF FillingMarked, Filling
<1>7. LatchCounts
  BY <1>1, <1>2 DEF TypeOK, LatchCounts, Sends, HasTurn, Downstream
<1> QED BY <1>1, <1>3, <1>4, <1>5, <1>6, <1>7 DEF RingInvariant

\* Every step preserves the invariant.
LEMMA StepRing ==
    ASSUME Batches <= NumberOfSlots, RingInvariant, [Next]_vars
    PROVE  RingInvariant'
<1>1. CASE UNCHANGED vars
  <2>1. TypeOK'
    BY <1>1 DEF vars, RingInvariant, TypeOK
  <2>2. (Releasing' <=> Releasing) /\ Released' = Released
    BY <1>1 DEF vars, Releasing, Released
  <2>3. FreedInOrder' /\ OneForwarder'
    BY <1>1, <2>2 DEF vars, RingInvariant, FreedInOrder, OneForwarder, Forwarding, Locks
  <2>4. OneHolder'
    BY <1>1, <2>2, OneHolderKept DEF vars, RingInvariant, Holds, Full
  <2>5. FillingMarked'
    BY <1>1 DEF vars, RingInvariant, FillingMarked, Filling
  <2>6. LatchCounts'
    BY <1>1, <2>2, LatchCountsKept DEF vars, RingInvariant, TypeOK, Sends
  <2> QED BY <2>1, <2>3, <2>4, <2>5, <2>6 DEF RingInvariant
<1>2. CASE Next
  <2>1. SUFFICES ASSUME NEW w \in Workers,
                        \/ \E type \in {"PROCESS", "ONLY_PROCESS"}, id \in TaskIds :
                              startProcess(w, type, id)
                        \/ startMergeForward(w)
                        \/ Work(w)
                 PROVE  RingInvariant'
    BY <1>2 DEF Next
  <2>2. ASSUME NEW type \in {"PROCESS", "ONLY_PROCESS"}, NEW id \in TaskIds,
               startProcess(w, type, id)
        PROVE  RingInvariant'
    BY <2>2, StartProcessStep
  <2>3. CASE startMergeForward(w)
    BY <2>3, StartMergeForwardStep
  <2>4. CASE Work(w)
    BY <2>4, ReserveStep, FillStep, PublishStep, TryLockStep, CheckReadyStep, CheckEmptyStep,
       ForwardAcceptedStep, ForwardRejectedStep, FreeInputStep, ReleaseSlotStep, UnlockStep
       DEF Work
  <2> QED BY <2>1, <2>2, <2>3, <2>4
<1> QED BY <1>1, <1>2, SMTT(30)

\* As long as no more batches are in flight than there are slots (the dispatcher
\* blocks at Batches), the ring invariant holds, whatever the numbers of slots,
\* workers, downstream queries and tasks.
THEOREM RingSafe ==
    ASSUME Batches <= NumberOfSlots
    PROVE  Spec => []RingInvariant
<1>1. Init => RingInvariant
  BY InitRing
<1>2. RingInvariant /\ [Next]_vars => RingInvariant'
  BY StepRing
<1> QED BY <1>1, <1>2, PTL DEF Spec

\* "No other thread can modify this slot" (ResultHandler.cpp): the slot a worker
\* fills is marked and its own, no worker waits for its slot, and only the holder
\* of the forward lock locks slots.
THEOREM SlotsExclusive ==
    ASSUME Batches <= NumberOfSlots
    PROVE  Spec => []ExclusiveSlot
<1>1. ASSUME RingInvariant PROVE ExclusiveSlot
  <2>1. TypeOK /\ ForwardLockHeld
    BY <1>1 DEF RingInvariant, OneForwarder, ForwardLockHeld, Forwarding, Locks
  <2>2. ASSUME NEW w \in Filling
        PROVE  /\ slot[idx(task[w].id)] = 0
               /\ \A v \in Filling : idx(task[v].id) = idx(task[w].id) => v = w
    <3>1. \A v \in Filling : v \in Workers /\ Holds(v)
      BY DEF Filling, Holds
    <3> QED BY <1>1, <2>2, <3>1, HeldAlone DEF RingInvariant, FillingMarked
  <2>3. \A w \in Workers : pc[w] = "reserve" => slot[idx(task[w].id)] = -1
    BY <1>1, HeldIsFree
  <2> QED BY <2>1, <2>2, <2>3 DEF ExclusiveSlot
<1> QED BY <1>1, RingSafe, PTL

----------------------------------------------------------------------------
(* No result is lost.                                                      *)

\* What a step does to the full slots: it keeps their payload, and gives back
\* only the slot of the result that was freed last.
LEMMA FullKept ==
    ASSUME RingInvariant, Next, NEW s \in Slots, Full(s)
    PROVE  /\ result'[s] = result[s]
           /\ Full(s)' \/ (Len(freed) \in 1 .. Len(freed) /\ freed[Len(freed)] = result[s])
<1>1. slot[s] \in {1, 2} /\ slot \in [Slots -> {-1, 0, 1, 2}] /\ result \in [Slots -> 0 .. MaxTask]
  BY DEF Full, RingInvariant, TypeOK
<1>2. PICK w \in Workers : \/ \E type \in {"PROCESS", "ONLY_PROCESS"}, id \in TaskIds :
                                startProcess(w, type, id)
                           \/ startMergeForward(w)
                           \/ Work(w)
  BY DEF Next
<1>3. CASE UNCHANGED <<slot, result>>
  BY <1>1, <1>3 DEF Full
<1>4. CASE reserveSlot(w)
  <2>1. slot[idx(task[w].id)] = -1 /\ oldVal[w] = -1
    BY <1>4, HeldIsFree DEF reserveSlot, RingInvariant, FillingMarked
  <2>2. slot' = [slot EXCEPT ![idx(task[w].id)] = 0] /\ result' = result
    BY <1>4, <2>1 DEF reserveSlot
  <2> QED BY <1>1, <2>1, <2>2 DEF Full
<1>5. CASE fillSlot(w)
  <2>1. slot[idx(task[w].id)] = 0
    BY <1>5 DEF fillSlot, RingInvariant, FillingMarked, Filling
  <2>2. result' = [result EXCEPT ![idx(task[w].id)] = task[w].id] /\ slot' = slot
    BY <1>5 DEF fillSlot
  <2> QED BY <1>1, <2>1, <2>2 DEF Full
<1>6. CASE publishSlot(w) \/ checkReady(w) \/ forwardRejected(w)
  <2>1. \E t, x : slot' = [slot EXCEPT ![t] = x] /\ x \in {1, 2} /\ result' = result
    BY <1>6 DEF publishSlot, checkReady, forwardRejected
  <2> QED BY <1>1, <2>1 DEF Full
<1>7. CASE releaseSlot(w)
  <2>1. slot' = [slot EXCEPT ![nextToForward] = -1] /\ result' = result
    BY <1>7 DEF releaseSlot
  <2>2. result[nextToForward] = Len(freed) /\ pc[w] = "release" /\ Releasing
    BY <1>7 DEF releaseSlot, Releasing, RingInvariant, OneForwarder
  <2>3. Len(freed) \in Nat /\ Len(freed) - 1 \in Nat
    BY <2>2 DEF RingInvariant, TypeOK, FreedInOrder, Released
  <2>4. Len(freed) \in 1 .. Len(freed) /\ freed[Len(freed)] = Len(freed)
    BY <2>3 DEF RingInvariant, FreedInOrder
  <2>5. CASE s = nextToForward
    BY <2>1, <2>2, <2>4, <2>5
  <2>6. CASE s # nextToForward
    BY <1>1, <2>1, <2>6 DEF Full
  <2> QED BY <2>5, <2>6
<1> QED BY <1>2, <1>3, <1>4, <1>5, <1>6, <1>7
        DEF Work, startProcess, runProcess, startMergeForward, tryLock, checkEmpty,
            forwardAccepted, freeInput, unlock

\* A published result stays in its slot until its input has been freed.
THEOREM ResultsKept ==
    ASSUME Batches <= NumberOfSlots
    PROVE  Spec => NoResultLost
<1> DEFINE Kept == \A s \in Slots : slot[s] \in {1, 2} =>
                     /\ result'[s] = result[s]
                     /\ slot'[s] \in {1, 2} \/ \E i \in 1 .. Len(freed) : freed[i] = result[s]
<1>1. ASSUME RingInvariant, [Next]_vars PROVE [Kept]_vars
  BY <1>1, FullKept DEF Full
<1>2. RingInvariant /\ [Next]_vars => [Kept]_vars
  BY <1>1
<1>3. [][Kept]_vars => NoResultLost
  BY DEF NoResultLost
<1> HIDE DEF Kept
<1> QED BY <1>2, <1>3, RingSafe, PTL DEF Spec

----------------------------------------------------------------------------
(* The ring implements OrderedOutput.                                      *)

\* What it means for a result to be completed.
LEMMA CompletedHas ==
    ASSUME NEW x
    PROVE  x \in Completed <=> \/ \E s \in Slots : Full(s) /\ result[s] = x
                               \/ \E i \in 1 .. Len(freed) : freed[i] = x
BY DEF Completed, Full

\* A step that frees nothing and completes nothing leaves the completed results.
LEMMA CompletedSame ==
    ASSUME RingInvariant, Next, freed' = freed,
           \A s \in Slots : Full(s)' => Full(s)
    PROVE  Completed' = Completed
<1>1. \A s \in Slots : Full(s) =>
         /\ result'[s] = result[s]
         /\ Full(s)' \/ (Len(freed) \in 1 .. Len(freed) /\ freed[Len(freed)] = result[s])
  BY FullKept
<1>2. ASSUME NEW x PROVE x \in Completed' => x \in Completed
  BY <1>1 DEF Completed, Full
<1>3. ASSUME NEW x PROVE x \in Completed => x \in Completed'
  <2>1. SUFFICES ASSUME NEW s \in Slots, Full(s), result[s] = x PROVE x \in Completed'
    BY CompletedHas, Zenon DEF Completed
  <2>2. CASE Full(s)'
    BY <2>1, <2>2, <1>1 DEF Completed, Full
  <2>3. CASE ~Full(s)'
    BY <2>1, <2>3, <1>1 DEF Completed
  <2> QED BY <2>2, <2>3
<1> QED BY <1>2, <1>3

\* Steps inside the ring are invisible from outside.
LEMMA InnerStep ==
    ASSUME RingInvariant, NEW w \in Workers,
           \/ \E type \in {"PROCESS", "ONLY_PROCESS"}, id \in TaskIds : startProcess(w, type, id)
           \/ startMergeForward(w) \/ reserveSlot(w) \/ fillSlot(w) \/ tryLock(w)
           \/ checkReady(w) \/ checkEmpty(w) \/ forwardRejected(w) \/ releaseSlot(w) \/ unlock(w)
    PROVE  UNCHANGED <<Completed, delivered, freed>>
<1>1. Next
  BY DEF Next, Work
<1>2. freed' = freed /\ delivered' = delivered
  BY DEF startProcess, runProcess, startMergeForward, reserveSlot, fillSlot, tryLock, checkReady,
         checkEmpty, forwardRejected, releaseSlot, unlock
<1>3. slot \in [Slots -> {-1, 0, 1, 2}] /\ nextToForward \in Slots
  BY DEF RingInvariant, TypeOK
<1>4. \A s \in Slots : Full(s)' => Full(s)
  <2>1. CASE UNCHANGED slot
    BY <2>1 DEF Full
  <2>2. CASE reserveSlot(w)
    <3>1. slot' = slot \/ slot' = [slot EXCEPT ![idx(task[w].id)] = 0]
      BY <2>2, SMTT(30) DEF reserveSlot
    <3> QED BY <1>3, <3>1 DEF Full
  <2>3. CASE checkReady(w)
    BY <1>3, <2>3 DEF checkReady, Full
  <2>4. CASE releaseSlot(w)
    BY <1>3, <2>4 DEF releaseSlot, Full
  <2>5. CASE forwardRejected(w)
    <3>1. slot[nextToForward] = 2
      BY <2>5, SendsTurn DEF forwardRejected, Sends
    <3> QED BY <1>3, <2>5, <3>1 DEF forwardRejected, Full
  <2> QED BY <2>1, <2>2, <2>3, <2>4, <2>5
          DEF startProcess, runProcess, startMergeForward, fillSlot, tryLock, checkEmpty, unlock
<1>5. Completed' = Completed
  BY <1>1, <1>2, <1>4, CompletedSame
<1> QED BY <1>2, <1>5

\* Publishing a slot completes its result, for the first time.
LEMMA PublishCompletes ==
    ASSUME RingInvariant, NEW w \in Workers, publishSlot(w)
    PROVE  task[w].id \in 1 .. MaxTask /\ Ordered!complete(task[w].id)
<1> DEFINE x == task[w].id
           s == idx(x)
<1>1. /\ pc[w] = "publish" /\ Holds(w) /\ s \in Slots /\ slot[s] = 0 /\ result[s] = x
      /\ x \in 1 .. MaxTask /\ x \in Nat /\ Released \in Nat /\ Released < x
  BY HeldTask, SMTT(30)
     DEF publishSlot, Holds, RingInvariant, TypeOK, FillingMarked, Filling, TaskIds
<1>2. slot' = [slot EXCEPT ![s] = 1] /\ UNCHANGED <<result, delivered, freed>>
  BY DEF publishSlot
<1>3. \A t \in Slots : Full(t) => result[t] # x
  BY <1>1 DEF RingInvariant, OneHolder
<1>4. \A i \in 1 .. Len(freed) : freed[i] # x
  <2>1. \A i \in 1 .. Len(freed) : freed[i] = i
    BY DEF RingInvariant, FreedInOrder
  <2>2. Len(freed) \in Nat
    BY DEF RingInvariant, TypeOK
  <2>3. CASE ~Releasing
    BY <1>1, <2>1, <2>2, <2>3 DEF Released
  <2>4. CASE Releasing
    <3>1. PICK v \in Workers : pc[v] = "release"
      BY <2>4 DEF Releasing
    <3>2. Full(nextToForward) /\ nextToForward \in Slots /\ result[nextToForward] = Len(freed)
      BY <3>1 DEF RingInvariant, TypeOK, OneForwarder, Locks, Full
    <3>3. Len(freed) # x
      BY <1>3, <3>2
    <3> QED BY <1>1, <2>1, <2>2, <2>4, <3>3 DEF Released
  <2> QED BY <2>3, <2>4
<1>5. x \notin Completed
  BY <1>3, <1>4, CompletedHas
<1> HIDE DEF x, s
<1>6. Completed' = Completed \cup {x}
  <2>1. \A t \in Slots : Full(t)' <=> Full(t) \/ t = s
    BY <1>1, <1>2 DEF RingInvariant, TypeOK, Full
  <2> QED BY <1>1, <1>2, <2>1 DEF Completed, Full
<1> QED BY <1>1, <1>2, <1>5, <1>6 DEF Ordered!complete, x

\* An accepted result is the next one of its downstream query.
LEMMA AcceptDelivers ==
    ASSUME RingInvariant, NEW w \in Workers, forwardAccepted(w)
    PROVE  qry[w] + 1 \in 1 .. NumDownstream /\ Ordered!deliver(qry[w] + 1)
<1> DEFINE d == qry[w] + 1
<1>1. /\ pc[w] = "forward" /\ Sends(w)
      /\ delivered' = [delivered EXCEPT ![d] = Append(@, result[nextToForward])]
      /\ UNCHANGED <<slot, result, freed>>
  BY DEF forwardAccepted, Sends
<1>2. /\ slot[nextToForward] = 2 /\ nextToForward \in Slots /\ result[nextToForward] = Turn
      /\ \A c \in Downstream : HasTurn(c) <=> c <= qry[w]
  BY <1>1, SendsTurn
<1>3. /\ qry[w] \in 0 .. NumDownstream /\ qry[w] < NumDownstream
      /\ NumDownstream \in Nat /\ result[nextToForward] \notin EmptyResults
  BY <1>1, ResultHandlerAssumption DEF RingInvariant, TypeOK, LatchCounts
<1>4. Turn \in Completed \ EmptyResults
  BY <1>2, <1>3, CompletedHas DEF Full
<1>5. d \in 1 .. NumDownstream /\ ~HasTurn(d) /\ \A c \in 1 .. d - 1 : HasTurn(c)
  BY <1>2, <1>3 DEF Downstream
<1>6. Completed' = Completed
  BY <1>1 DEF Completed
<1> HIDE DEF d
<1>7. Ordered!deliver(d)
  BY <1>1, <1>2, <1>4, <1>5, <1>6 DEF Ordered!deliver, Ordered!Turn, Ordered!HasTurn, Turn, HasTurn
<1> QED BY <1>5, <1>7 DEF d

\* Input is freed when every downstream query has the result.
LEMMA FreeFrees ==
    ASSUME RingInvariant, NEW w \in Workers, freeInput(w)
    PROVE  Ordered!freeInput
<1>1. /\ pc[w] = "free" /\ Sends(w) /\ freed' = Append(freed, result[nextToForward])
      /\ UNCHANGED <<slot, result, delivered>>
  BY DEF freeInput, Sends
<1>2. /\ slot[nextToForward] = 2 /\ nextToForward \in Slots /\ result[nextToForward] = Turn
      /\ \A c \in Downstream : HasTurn(c) <=> c <= qry[w]
  BY <1>1, SendsTurn
<1>3. Turn \notin EmptyResults => \A d \in 1 .. NumDownstream : HasTurn(d)
  BY <1>1, <1>2, ResultHandlerAssumption DEF RingInvariant, LatchCounts, Downstream
<1>4. Turn \in Completed
  BY <1>2, CompletedHas DEF Full
<1>5. Completed' = Completed
  <2>1. freed \in Seq(0 .. MaxTask) /\ Turn \in 0 .. MaxTask
    BY <1>2 DEF RingInvariant, TypeOK
  <2>2. /\ Len(freed') = Len(freed) + 1 /\ Len(freed) \in Nat
        /\ \A i \in 1 .. Len(freed) : freed'[i] = freed[i]
        /\ freed'[Len(freed) + 1] = Turn
    BY <1>1, <1>2, <2>1
  <2>3. ASSUME NEW x PROVE x \in Completed' <=> x \in Completed
    <3>1. x \in Completed' <=> \/ \E s \in Slots : Full(s) /\ result[s] = x
                               \/ \E i \in 1 .. Len(freed') : freed'[i] = x
      BY <1>1 DEF Completed, Full
    <3>2. (\E i \in 1 .. Len(freed') : freed'[i] = x) <=>
            (x = Turn \/ \E i \in 1 .. Len(freed) : freed[i] = x)
      BY <2>2
    <3> QED BY <3>1, <3>2, <1>4, CompletedHas
  <2> QED BY <2>3
<1> QED BY <1>1, <1>2, <1>3, <1>4, <1>5
        DEF Ordered!freeInput, Ordered!Turn, Ordered!HasTurn, Turn, HasTurn

\* The slot ring implements ordered output ("The results are re-ordered before
\* pushed to the next pipeline", ResultHandler.h): every downstream query gets
\* the results in task order, and input is freed once all of them have it.
THEOREM RingImplementsOrder ==
    ASSUME Batches <= NumberOfSlots
    PROVE  Spec => ImplementsOrderedOutput
<1>1. ASSUME Init PROVE Ordered!Init
  <2>1. \A x : x \notin Completed
    BY <1>1, CompletedHas DEF Init, Full
  <2> QED BY <1>1, <2>1 DEF Init, Ordered!Init, Downstream
<1>2. ASSUME RingInvariant, [Next]_vars PROVE [Ordered!Next]_Ordered!outputVars
  <2>1. CASE UNCHANGED vars
    BY <2>1 DEF vars, Ordered!outputVars, Completed
  <2>2. CASE Next
    <3>1. PICK w \in Workers : \/ \E type \in {"PROCESS", "ONLY_PROCESS"}, id \in TaskIds :
                                    startProcess(w, type, id)
                               \/ startMergeForward(w)
                               \/ Work(w)
      BY <2>2 DEF Next
    <3>2. CASE publishSlot(w)
      BY <1>2, <3>2, PublishCompletes DEF Ordered!Next
    <3>3. CASE forwardAccepted(w)
      BY <1>2, <3>3, AcceptDelivers DEF Ordered!Next
    <3>4. CASE freeInput(w)
      BY <1>2, <3>4, FreeFrees DEF Ordered!Next
    <3>5. CASE ~(publishSlot(w) \/ forwardAccepted(w) \/ freeInput(w))
      BY <1>2, <3>1, <3>5, InnerStep DEF Work, Ordered!outputVars
    <3> QED BY <3>2, <3>3, <3>4, <3>5
  <2> QED BY <1>2, <2>1, <2>2
<1>3. Init => Ordered!Init
  BY <1>1
<1>4. RingInvariant /\ [Next]_vars => [Ordered!Next]_Ordered!outputVars
  BY <1>2
<1> QED BY <1>3, <1>4, RingSafe, PTL DEF Spec, ImplementsOrderedOutput, Ordered!Spec
============================================================================
