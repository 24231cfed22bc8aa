------------------------- MODULE ResultHandlerRing -------------------------
(***************************************************************************)
(* The inductive invariant of the slot ring, what follows from it, and the *)
(* steps that preserve it outside the forwarding section: taking a task,   *)
(* filling its slot, taking and giving back the forward lock.              *)
(***************************************************************************)
EXTENDS ResultHandler, ModArithmetic

----------------------------------------------------------------------------
(* The inductive invariant.                                                *)

\* The slots given back so far.  A worker at "release" has freed the input of
\* the oldest result but still holds its slot.
Releasing == \E w \in Workers : pc[w] = "release"
Released == IF Releasing THEN Len(freed) - 1 ELSE Len(freed)

Holds(w) == pc[w] \in {"reserve", "fill", "publish"}
Sends(w) == pc[w] \in {"forward", "free"}
Locks(w) == pc[w] \in {"forward", "free", "release"}
Full(s) == slot[s] \in {1, 2}

\* Input is freed in task order, and the next slot is that of the oldest task.
FreedInOrder ==
    /\ \A i \in 1 .. Len(freed) : freed[i] = i /\ i \in started
    /\ Released \in Nat
    /\ nextToForward = Released % NumberOfSlots
    /\ \A id \in started : id <= Released + NumberOfSlots

\* Whoever forwards has the lock, and locks the next slot alone.
OneForwarder ==
    /\ \A w \in Workers : w \in Forwarding <=> forwardLock = w
    /\ \A w \in Workers : Locks(w) => slot[nextToForward] = 2
    /\ \A w \in Workers : pc[w] = "release" => result[nextToForward] = Len(freed)
    /\ \A s \in Slots : slot[s] = 2 => s = nextToForward /\ \E w \in Workers : Locks(w)

\* A task that has started and whose slot has not been given back is with one
\* worker or in its slot.
OneHolder ==
    /\ \A w \in Workers : Holds(w) => task[w].id \in started /\ Released < task[w].id
    /\ \A v, w \in Workers : Holds(v) /\ Holds(w) /\ task[v].id = task[w].id => v = w
    /\ \A s \in Slots : Full(s) => /\ result[s] \in started /\ Released < result[s]
                                   /\ idx(result[s]) = s
    /\ \A s \in Slots, w \in Workers : Full(s) /\ Holds(w) => result[s] # task[w].id

\* A slot is marked as being filled exactly while a worker fills it.
FillingMarked ==
    /\ \A w \in Workers : pc[w] = "reserve" => oldVal[w] = -1
    /\ \A w \in Filling : slot[idx(task[w].id)] = 0
    /\ \A w \in Workers : pc[w] = "publish" => /\ result[idx(task[w].id)] = task[w].id
                                               /\ latch[idx(task[w].id)] = 0
    /\ \A s \in Slots : slot[s] = 0 => \E w \in Filling : idx(task[w].id) = s

Turn == Len(freed) + 1
HasTurn(d) == Len(delivered[d]) > 0 /\ delivered[d][Len(delivered[d])] = Turn

\* The downstream queries that have the oldest result are those before qry while
\* it is forwarded, and those before the latch while it waits.
LatchCounts ==
    /\ \A d \in Downstream : Len(delivered[d]) > 0 => delivered[d][Len(delivered[d])] <= Turn
    /\ \A w \in Workers : Sends(w) => \A d \in Downstream : HasTurn(d) <=> d <= qry[w]
    /\ slot[nextToForward] # 2 =>
         \A d \in Downstream : HasTurn(d) <=> slot[nextToForward] = 1 /\ d <= latch[nextToForward]
    /\ Releasing => \A d \in Downstream : ~HasTurn(d)
    /\ \A s \in Slots : slot[s] = 1 => /\ latch[s] = 0 \/ latch[s] < NumDownstream
                                       /\ s # nextToForward => latch[s] = 0
    /\ \A w \in Workers : pc[w] = "forward" => /\ qry[w] < NumDownstream
                                               /\ result[nextToForward] \notin EmptyResults
    /\ \A w \in Workers : pc[w] = "free" => \/ result[nextToForward] \in EmptyResults
                                            \/ qry[w] = NumDownstream

RingInvariant ==
    TypeOK /\ FreedInOrder /\ OneForwarder /\ OneHolder /\ FillingMarked /\ LatchCounts

----------------------------------------------------------------------------
(* Slots and task ids.                                                     *)

\* A task has a slot.
LEMMA SlotOfTask ==
    ASSUME NEW id \in Nat \ {0}
    PROVE  idx(id) \in Slots
<1>1. id - 1 \in Int /\ NumberOfSlots \in Nat \ {0}
  BY ResultHandlerAssumption
<1>2. (id - 1) % NumberOfSlots \in 0 .. NumberOfSlots - 1
  BY <1>1, DivMod, Zenon
<1> QED BY <1>2 DEF idx, Slots

\* The slot of the task after R.
LEMMA SlotAfter ==
    ASSUME NEW R \in Nat
    PROVE  idx(R + 1) = R % NumberOfSlots
<1> DEFINE x == (R + 1) - 1
<1>1. idx(R + 1) = x % NumberOfSlots
  BY DEF idx
<1>2. x = R
  OBVIOUS
<1> HIDE DEF x
<1> QED BY <1>1, <1>2

\* Of the tasks in one lap of the ring no two have the same slot.
LEMMA OneTaskPerSlot ==
    ASSUME NEW R \in Nat, NEW a \in Nat, NEW b \in Nat,
           R < a, a <= R + NumberOfSlots, R < b, b <= R + NumberOfSlots, idx(a) = idx(b)
    PROVE  a = b
<1> DEFINE x == a - 1
           y == b - 1
<1>1. /\ x \in Nat /\ y \in Nat /\ NumberOfSlots \in Nat \ {0}
      /\ x < y + NumberOfSlots /\ y < x + NumberOfSlots
  BY ResultHandlerAssumption
<1>2. x % NumberOfSlots = y % NumberOfSlots
  BY DEF idx
<1> HIDE DEF x, y
<1>3. ~(x < y) /\ ~(y < x)
  BY <1>1, <1>2, ModDistinct, Zenon
<1>4. x = y
  BY <1>1, <1>3
<1> QED BY <1>4 DEF x, y

\* The result in the next slot is the oldest that has not been released.
LEMMA OldestIsNext ==
    ASSUME RingInvariant, Full(nextToForward)
    PROVE  result[nextToForward] = Released + 1
<1> DEFINE s == nextToForward
           a == result[s]
           R == Released
<1>1. /\ s \in Slots /\ a \in started /\ R < a /\ idx(a) = s /\ a <= R + NumberOfSlots
      /\ R \in Nat /\ a \in Nat /\ s = R % NumberOfSlots
  BY DEF RingInvariant, TypeOK, OneHolder, FreedInOrder, TaskIds
<1>2. idx(R + 1) = R % NumberOfSlots
  BY <1>1, SlotAfter
<1>3. R + 1 \in Nat /\ R < R + 1 /\ R + 1 <= R + NumberOfSlots
  BY <1>1, ResultHandlerAssumption
<1> HIDE DEF s, a, R
<1>4. a = R + 1
  BY <1>1, <1>2, <1>3, OneTaskPerSlot
<1> QED BY <1>4 DEF s, a, R

\* What is known of the task a worker holds.
LEMMA HeldTask ==
    ASSUME RingInvariant, NEW w \in Workers, Holds(w)
    PROVE  /\ task[w].id \in started /\ task[w].id \in Nat \ {0} /\ task[w].id <= MaxTask
           /\ Released \in Nat /\ Released < task[w].id
           /\ task[w].id <= Released + NumberOfSlots
           /\ idx(task[w].id) \in Slots
<1>1. /\ task[w].id \in started /\ task[w].id \in Nat \ {0} /\ task[w].id <= MaxTask
      /\ Released \in Nat /\ Released < task[w].id
      /\ task[w].id <= Released + NumberOfSlots
  BY DEF RingInvariant, TypeOK, OneHolder, FreedInOrder, TaskIds
<1> QED BY <1>1, SlotOfTask

\* Two workers never have tasks of the same slot.
LEMMA HeldAlone ==
    ASSUME RingInvariant, NEW v \in Workers, NEW w \in Workers, Holds(v), Holds(w),
           idx(task[v].id) = idx(task[w].id)
    PROVE  v = w
<1>1. task[v].id = task[w].id
  BY HeldTask, OneTaskPerSlot
<1> QED BY <1>1 DEF RingInvariant, OneHolder

\* The slot of a task that a worker holds has no result in it.
LEMMA HeldNotFull ==
    ASSUME RingInvariant, NEW w \in Workers, Holds(w)
    PROVE  ~Full(idx(task[w].id))
<1> DEFINE s == idx(task[w].id)
<1>1. SUFFICES ASSUME Full(s) PROVE FALSE
  OBVIOUS
<1>2. s \in Slots /\ Released \in Nat
  BY HeldTask
<1> HIDE DEF s
<1>3. /\ result[s] \in Nat /\ Released < result[s] /\ result[s] <= Released + NumberOfSlots
      /\ idx(result[s]) = s /\ result[s] # task[w].id
  BY <1>1, <1>2 DEF RingInvariant, TypeOK, OneHolder, FreedInOrder, TaskIds
<1>4. result[s] = task[w].id
  BY <1>2, <1>3, HeldTask, OneTaskPerSlot DEF s
<1> QED BY <1>3, <1>4

\* A worker finds the slot of its task free at the first attempt.
LEMMA HeldIsFree ==
    ASSUME RingInvariant, NEW w \in Workers, pc[w] = "reserve"
    PROVE  slot[idx(task[w].id)] = -1
<1> DEFINE s == idx(task[w].id)
<1>1. Holds(w) /\ s \in Slots
  BY HeldTask DEF Holds
<1>2. slot[s] # 0
  <2>1. SUFFICES ASSUME NEW v \in Filling, idx(task[v].id) = s PROVE FALSE
    BY <1>1 DEF RingInvariant, FillingMarked
  <2>2. v \in Workers /\ Holds(v) /\ v # w
    BY DEF Filling, Holds
  <2> QED BY <1>1, <2>1, <2>2, HeldAlone
<1>3. ~Full(s)
  BY <1>1, HeldNotFull
<1> QED BY <1>1, <1>2, <1>3 DEF RingInvariant, TypeOK, Full

----------------------------------------------------------------------------
(* What carries over to the next state.                                    *)

\* No task gets a holder or a slot, and nothing is given back.
LEMMA OneHolderKept ==
    ASSUME OneHolder, Released' = Released, started' = started,
           \A v \in Workers : Holds(v)' => Holds(v) /\ task'[v] = task[v],
           \A t \in Slots : Full(t)' => Full(t) /\ result'[t] = result[t]
    PROVE  OneHolder'
<1>1. ASSUME NEW v \in Workers, Holds(v)'
      PROVE  task'[v].id \in started' /\ Released' < task'[v].id
  BY <1>1 DEF OneHolder
<1>2. ASSUME NEW u \in Workers, NEW v \in Workers, Holds(u)', Holds(v)',
             task'[u].id = task'[v].id
      PROVE  u = v
  BY <1>2 DEF OneHolder
<1>3. ASSUME NEW t \in Slots, Full(t)'
      PROVE  /\ result'[t] \in started' /\ Released' < result'[t]
             /\ idx(result'[t]) = t
  BY <1>3 DEF OneHolder
<1>4. ASSUME NEW t \in Slots, NEW v \in Workers, Full(t)', Holds(v)'
      PROVE  result'[t] # task'[v].id
  BY <1>4 DEF OneHolder
<1> QED BY <1>1, <1>2, <1>3, <1>4 DEF OneHolder, idx

\* No slot is published or taken, and no query is sent anything.
LEMMA LatchCountsKept ==
    ASSUME LatchCounts, nextToForward \in Slots,
           UNCHANGED <<nextToForward, qry, delivered, freed>>, Releasing' <=> Releasing,
           \A v \in Workers : /\ Sends(v)' <=> Sends(v)
                              /\ pc'[v] = "forward" <=> pc[v] = "forward"
                              /\ pc'[v] = "free" <=> pc[v] = "free"
                              /\ Sends(v) => result'[nextToForward] = result[nextToForward],
           \A t \in Slots : /\ slot'[t] = 2 <=> slot[t] = 2
                            /\ slot'[t] = 1 <=> slot[t] = 1
                            /\ slot[t] = 1 => latch'[t] = latch[t]
    PROVE  LatchCounts'
<1>1. Turn' = Turn /\ \A d \in Downstream : HasTurn(d)' <=> HasTurn(d)
  BY DEF HasTurn, Turn
<1>2. \A v \in Workers : pc[v] \in {"forward", "free"} => Sends(v)
  BY DEF Sends
<1>3. /\ \A d \in Downstream : Len(delivered'[d]) > 0 => delivered'[d][Len(delivered'[d])] <= Turn'
      /\ \A v \in Workers : Sends(v)' => \A d \in Downstream : HasTurn(d)' <=> d <= qry'[v]
      /\ Releasing' => \A d \in Downstream : ~HasTurn(d)'
  BY <1>1 DEF LatchCounts
<1>4. slot'[nextToForward] # 2 =>
        \A d \in Downstream : HasTurn(d)' <=> slot'[nextToForward] = 1 /\ d <= latch'[nextToForward]
  BY <1>1 DEF LatchCounts
<1>5. \A t \in Slots : slot'[t] = 1 => /\ latch'[t] = 0 \/ latch'[t] < NumDownstream
                                       /\ t # nextToForward => latch'[t] = 0
  BY DEF LatchCounts
<1>6. /\ \A v \in Workers : pc'[v] = "forward" => /\ qry'[v] < NumDownstream
                                                  /\ result'[nextToForward] \notin EmptyResults
      /\ \A v \in Workers : pc'[v] = "free" => \/ result'[nextToForward] \in EmptyResults
                                               \/ qry'[v] = NumDownstream
  BY <1>2 DEF LatchCounts
<1> QED BY <1>3, <1>4, <1>5, <1>6 DEF LatchCounts

----------------------------------------------------------------------------
(* Reserving, filling and publishing a slot preserves the invariant.       *)

\* Reserving a slot: the compare_exchange succeeds the first time.
LEMMA ReserveStep ==
    ASSUME RingInvariant, NEW w \in Workers, reserveSlot(w)
    PROVE  RingInvariant'
<1> DEFINE s == idx(task[w].id)
<1>1. /\ pc[w] = "reserve" /\ Holds(w) /\ s \in Slots /\ slot[s] = -1 /\ oldVal[w] = -1
  BY HeldIsFree, HeldTask DEF reserveSlot, Holds, RingInvariant, FillingMarked
<1>2. /\ slot' = [slot EXCEPT ![s] = 0] /\ pc' = [pc EXCEPT ![w] = "fill"]
      /\ UNCHANGED <<result, latch, nextToForward, forwardLock, maxTaskId, task, oldVal,
                     qry, started, delivered, freed>>
  BY <1>1 DEF reserveSlot, goto
<1> HIDE DEF s
<1>3. TypeOK'
  BY <1>1, <1>2, SMTT(30) DEF RingInvariant, TypeOK, pcLabels
<1>4. Released' = Released /\ (Releasing' <=> Releasing)
  BY <1>1, <1>2 DEF RingInvariant, TypeOK, Releasing, Released
<1>5. FreedInOrder'
  BY <1>2, <1>4 DEF RingInvariant, FreedInOrder
<1>6. OneForwarder'
  <2>1. \A v \in Workers : /\ v \in Forwarding' <=> v \in Forwarding
                           /\ Locks(v)' <=> Locks(v)
                           /\ pc'[v] = "release" <=> pc[v] = "release"
    BY <1>1, <1>2 DEF RingInvariant, TypeOK, Forwarding, Locks
  <2>2. \A t \in Slots : slot'[t] = 2 <=> slot[t] = 2
    BY <1>1, <1>2 DEF RingInvariant, TypeOK
  <2> QED BY <1>2, <2>1, <2>2 DEF RingInvariant, TypeOK, OneForwarder
<1>7. OneHolder'
  <2>1. \A v \in Workers : Holds(v)' => Holds(v)
    BY <1>1, <1>2 DEF RingInvariant, TypeOK, Holds
  <2>2. \A t \in Slots : Full(t)' => Full(t)
    BY <1>1, <1>2 DEF RingInvariant, TypeOK, Full
  <2> QED BY <1>2, <1>4, <2>1, <2>2, OneHolderKept DEF RingInvariant
<1>8. FillingMarked'
  <2>1. \A v \in Filling : v # w => idx(task[v].id) # s
    BY <1>1, HeldAlone DEF Filling, Holds, s
  <2>2. Filling' = Filling \cup {w} /\ w \notin Filling
    BY <1>1, <1>2 DEF RingInvariant, TypeOK, Filling
  <2>3. \A v \in Workers : /\ pc'[v] = "reserve" => pc[v] = "reserve"
                           /\ pc'[v] = "publish" => pc[v] = "publish"
    BY <1>1, <1>2 DEF RingInvariant, TypeOK
  <2>4. \A v \in Filling' : slot'[idx(task[v].id)] = 0
    BY <1>1, <1>2, <2>1, <2>2 DEF RingInvariant, TypeOK, FillingMarked, s
  <2>5. \A t \in Slots : slot'[t] = 0 => \E v \in Filling' : idx(task[v].id) = t
    BY <1>1, <1>2, <2>2, SMTT(30) DEF RingInvariant, TypeOK, FillingMarked, s
  <2> QED BY <1>2, <2>3, <2>4, <2>5 DEF RingInvariant, FillingMarked
<1>9. LatchCounts'
  <2>1. \A v \in Workers : /\ Sends(v)' <=> Sends(v)
                           /\ pc'[v] = "forward" <=> pc[v] = "forward"
                           /\ pc'[v] = "free" <=> pc[v] = "free"
    BY <1>1, <1>2 DEF RingInvariant, TypeOK, Sends
  <2>2. \A t \in Slots : /\ slot'[t] = 2 <=> slot[t] = 2
                         /\ slot'[t] = 1 <=> slot[t] = 1
    BY <1>1, <1>2 DEF RingInvariant, TypeOK
  <2>3. nextToForward \in Slots /\ LatchCounts
    BY DEF RingInvariant, TypeOK
  <2> QED BY <1>2, <1>4, <2>1, <2>2, <2>3, LatchCountsKept
<1> QED BY <1>3, <1>5, <1>6, <1>7, <1>8, <1>9 DEF RingInvariant

\* Filling it: nobody else has a task of this slot.
LEMMA FillStep ==
    ASSUME RingInvariant, NEW w \in Workers, fillSlot(w)
    PROVE  RingInvariant'
<1> DEFINE s == idx(task[w].id)
<1>1. /\ pc[w] = "fill" /\ Holds(w) /\ s \in Slots /\ slot[s] = 0
      /\ task[w].id \in 0 .. MaxTask
  BY HeldTask DEF fillSlot, Holds, RingInvariant, FillingMarked, Filling
<1>2. /\ result' = [result EXCEPT ![s] = task[w].id] /\ latch' = [latch EXCEPT ![s] = 0]
      /\ pc' = [pc EXCEPT ![w] = "publish"]
      /\ UNCHANGED <<slot, nextToForward, forwardLock, maxTaskId, task, oldVal,
                     qry, started, delivered, freed>>
  BY DEF fillSlot, goto
<1>3. \A v \in Workers : Holds(v) /\ v # w => idx(task[v].id) # s
  BY <1>1, HeldAlone
<1>4. \A v \in Workers : /\ v \in Forwarding' <=> v \in Forwarding
                         /\ Locks(v)' <=> Locks(v)
                         /\ Sends(v)' <=> Sends(v)
                         /\ Holds(v)' <=> Holds(v)
                         /\ v \in Filling' <=> v \in Filling
                         /\ pc'[v] = "reserve" <=> pc[v] = "reserve"
                         /\ pc'[v] = "forward" <=> pc[v] = "forward"
                         /\ pc'[v] = "free" <=> pc[v] = "free"
                         /\ pc'[v] = "release" <=> pc[v] = "release"
                         /\ pc'[v] = "publish" <=> v = w \/ pc[v] = "publish"
  <2>1. \A v \in Workers : pc'[v] = IF v = w THEN "publish" ELSE pc[v]
    BY <1>2 DEF RingInvariant, TypeOK
  <2> QED BY <1>1, <2>1 DEF Forwarding, Locks, Sends, Holds, Filling
<1> HIDE DEF s
<1>5. TypeOK'
  BY <1>1, <1>2, ResultHandlerAssumption, SMTT(30) DEF RingInvariant, TypeOK, pcLabels
<1>6. Released' = Released /\ (Releasing' <=> Releasing)
  BY <1>2, <1>4 DEF Releasing, Released
<1>7. FreedInOrder'
  BY <1>2, <1>6 DEF RingInvariant, FreedInOrder
<1>8. OneForwarder'
  <2>1. \A v \in Workers : Locks(v) => nextToForward # s
    BY <1>1 DEF RingInvariant, OneForwarder
  <2>2. \A v \in Workers : pc'[v] = "release" => result'[nextToForward] = Len(freed)
    BY <1>2, <1>4, <2>1 DEF RingInvariant, TypeOK, OneForwarder, Locks
  <2> QED BY <1>2, <1>4, <2>2 DEF RingInvariant, OneForwarder
<1>9. \A t \in Slots : Full(t)' <=> Full(t) /\ t # s
  BY <1>1, <1>2 DEF Full
<1>10. \A t \in Slots : t # s => result'[t] = result[t] /\ latch'[t] = latch[t]
  BY <1>2 DEF RingInvariant, TypeOK
<1>11. OneHolder'
  BY <1>2, <1>4, <1>6, <1>9, <1>10, OneHolderKept DEF RingInvariant
<1>12. FillingMarked'
  <2>1. result'[s] = task[w].id /\ latch'[s] = 0
    BY <1>1, <1>2 DEF RingInvariant, TypeOK
  <2>2. ASSUME NEW v \in Workers, pc'[v] = "publish"
        PROVE  result'[idx(task[v].id)] = task[v].id /\ latch'[idx(task[v].id)] = 0
    <3>1. CASE v = w
      BY <3>1, <2>1 DEF s
    <3>2. CASE v # w
      <4>1. pc[v] = "publish" /\ Holds(v)
        BY <3>2, <2>2, <1>4 DEF Holds
      <4>2. idx(task[v].id) \in Slots /\ idx(task[v].id) # s
        BY <4>1, <3>2, <1>3, HeldTask
      <4> QED BY <4>1, <4>2, <1>10 DEF RingInvariant, FillingMarked
    <3> QED BY <3>1, <3>2
  <2>3. \A v \in Filling' : v \in Filling
    BY <1>4 DEF Filling
  <2>4. \A v \in Filling : v \in Filling'
    BY <1>4, SMTT(30) DEF Filling
  <2> QED BY <1>2, <1>4, <2>2, <2>3, <2>4 DEF RingInvariant, FillingMarked
<1>13. LatchCounts'
  <2>1. \A t \in Slots : slot[t] # 0 => result'[t] = result[t] /\ latch'[t] = latch[t]
    BY <1>1, <1>10
  <2>2. nextToForward \in Slots /\ LatchCounts
    BY DEF RingInvariant, TypeOK
  <2>3. \A v \in Workers : Sends(v) => slot[nextToForward] # 0
    BY DEF RingInvariant, OneForwarder, Sends, Locks
  <2>4. \A v \in Workers : Sends(v) => result'[nextToForward] = result[nextToForward]
    BY <2>1, <2>2, <2>3
  <2> QED BY <1>2, <1>4, <1>6, <2>1, <2>2, <2>4, LatchCountsKept
<1> QED BY <1>5, <1>7, <1>8, <1>11, <1>12, <1>13 DEF RingInvariant

\* Publishing it: the result becomes visible to whoever forwards.
LEMMA PublishStep ==
    ASSUME RingInvariant, NEW w \in Workers, publishSlot(w)
    PROVE  RingInvariant'
<1> DEFINE s == idx(task[w].id)
<1>1. /\ pc[w] = "publish" /\ Holds(w) /\ s \in Slots /\ slot[s] = 0
      /\ task[w].id \in 0 .. MaxTask /\ task[w].id \in started /\ Released < task[w].id
      /\ result[s] = task[w].id /\ latch[s] = 0
  <2>1. pc[w] = "publish" /\ Holds(w) /\ w \in Filling
    BY DEF publishSlot, Holds, Filling
  <2>2. /\ s \in Slots /\ task[w].id \in 0 .. MaxTask /\ task[w].id \in started
        /\ Released < task[w].id
    BY <2>1, HeldTask
  <2>3. slot[s] = 0 /\ result[s] = task[w].id /\ latch[s] = 0
    BY <2>1 DEF RingInvariant, FillingMarked
  <2> QED BY <2>1, <2>2, <2>3
<1>2. /\ slot' = [slot EXCEPT ![s] = 1]
      /\ maxTaskId' \in {maxTaskId, task[w].id}
      /\ \E l \in {"lock", "idle"} : pc' = [pc EXCEPT ![w] = l]
      /\ UNCHANGED <<result, latch, nextToForward, forwardLock, task, oldVal, qry,
                     started, delivered, freed>>
  BY ZenonT(30) DEF publishSlot, goto
<1>3. \A v \in Workers : Holds(v) /\ v # w => idx(task[v].id) # s
  BY <1>1, HeldAlone
<1>4. \A v \in Workers : /\ v \in Forwarding' <=> v \in Forwarding
                         /\ Locks(v)' <=> Locks(v)
                         /\ Sends(v)' <=> Sends(v)
                         /\ Holds(v)' <=> Holds(v) /\ v # w
                         /\ v \in Filling' <=> v \in Filling /\ v # w
                         /\ pc'[v] = "reserve" <=> pc[v] = "reserve"
                         /\ pc'[v] = "forward" <=> pc[v] = "forward"
                         /\ pc'[v] = "free" <=> pc[v] = "free"
                         /\ pc'[v] = "release" <=> pc[v] = "release"
                         /\ pc'[v] = "publish" <=> v # w /\ pc[v] = "publish"
  <2>1. PICK l \in {"lock", "idle"} : \A v \in Workers : pc'[v] = IF v = w THEN l ELSE pc[v]
    BY <1>2 DEF RingInvariant, TypeOK
  <2> QED BY <1>1, <2>1 DEF Forwarding, Locks, Sends, Holds, Filling
<1>5. s = idx(task[w].id)
  OBVIOUS
<1> HIDE DEF s
<1>6. TypeOK'
  BY <1>1, <1>2 DEF RingInvariant, TypeOK, pcLabels
<1>7. Released' = Released /\ (Releasing' <=> Releasing)
  BY <1>2, <1>4 DEF Releasing, Released
<1>8. FreedInOrder'
  BY <1>2, <1>7 DEF RingInvariant, FreedInOrder
<1>9. \A t \in Slots : /\ slot'[t] = 2 <=> slot[t] = 2
                       /\ slot'[t] = 1 <=> slot[t] = 1 \/ t = s
                       /\ slot'[t] = 0 <=> slot[t] = 0 /\ t # s
                       /\ Full(t)' <=> Full(t) \/ t = s
  BY <1>1, <1>2, SMTT(30) DEF RingInvariant, TypeOK, Full
<1>10. nextToForward \in Slots
  BY DEF RingInvariant, TypeOK
<1>11. OneForwarder'
  BY <1>2, <1>4, <1>9, <1>10 DEF RingInvariant, OneForwarder
<1>12. OneHolder'
  <2>1. \A v \in Workers : Holds(v) /\ v # w => task[v].id # result[s]
    BY <1>1, <1>3, <1>5, SMTT(30)
  <2>2. OneHolder
    BY DEF RingInvariant
  <2>3. /\ \A v \in Workers : Holds(v)' => task'[v].id \in started' /\ Released' < task'[v].id
        /\ \A u, v \in Workers : Holds(u)' /\ Holds(v)' /\ task'[u].id = task'[v].id => u = v
    BY <1>2, <1>4, <1>7, <2>2 DEF OneHolder
  <2>4. idx(result[s]) = s
    BY <1>1, <1>5
  <2>5. \A t \in Slots : Full(t)' => /\ result'[t] \in started' /\ Released' < result'[t]
                                     /\ idx(result'[t]) = t
    BY <1>1, <1>2, <1>7, <1>9, <2>2, <2>4 DEF OneHolder
  <2>6. ASSUME NEW t \in Slots, NEW v \in Workers, Full(t)', Holds(v)'
        PROVE  result'[t] # task'[v].id
    <3>1. Holds(v) /\ v # w /\ UNCHANGED <<result, task>>
      BY <1>2, <1>4, <2>6
    <3>2. Full(t) \/ t = s
      BY <1>9, <2>6
    <3> QED BY <2>1, <2>2, <3>1, <3>2 DEF OneHolder
  <2> QED BY <2>3, <2>5, <2>6 DEF OneHolder, idx
<1>13. FillingMarked'
  <2>1. \A v \in Filling' : /\ v \in Filling /\ v # w /\ idx(task[v].id) \in Slots
                            /\ idx(task[v].id) # s
    <3>1. SUFFICES ASSUME NEW v \in Workers, v \in Filling, v # w
                   PROVE  idx(task[v].id) \in Slots /\ idx(task[v].id) # s
      BY <1>4 DEF Filling
    <3> QED BY <3>1, <1>3, HeldTask DEF Filling, Holds
  <2>2. \A v \in Filling' : slot'[idx(task[v].id)] = 0
    BY <1>9, <2>1 DEF RingInvariant, FillingMarked
  <2>3. \A t \in Slots : slot'[t] = 0 => \E v \in Filling' : idx(task[v].id) = t
    <3>1. SUFFICES ASSUME NEW t \in Slots, slot'[t] = 0
                   PROVE  \E v \in Filling' : idx(task[v].id) = t
      OBVIOUS
    <3>2. PICK v \in Filling : idx(task[v].id) = t
      <4>1. slot[t] = 0 /\ FillingMarked
        BY <3>1, <1>9 DEF RingInvariant
      <4> QED BY <4>1 DEF FillingMarked
    <3>3. v \in Filling'
      BY <3>1, <3>2, <1>4, <1>5, <1>9, SMTT(30) DEF Filling
    <3> QED BY <3>2, <3>3
  <2> QED BY <1>2, <1>4, <2>2, <2>3 DEF RingInvariant, FillingMarked
<1>14. LatchCounts'
  <2>1. \A d \in Downstream : HasTurn(d)' <=> HasTurn(d)
    BY <1>2 DEF HasTurn, Turn
  <2>2. ASSUME slot'[nextToForward] # 2, NEW d \in Downstream
        PROVE  HasTurn(d) <=> slot'[nextToForward] = 1 /\ d <= latch[nextToForward]
    <3>1. HasTurn(d) <=> slot[nextToForward] = 1 /\ d <= latch[nextToForward]
      BY <2>2, <1>9, <1>10 DEF RingInvariant, LatchCounts
    <3>2. CASE nextToForward = s
      <4>1. ~(d <= 0)
        BY DEF Downstream
      <4>2. slot[s] = 0 /\ slot'[s] = 1 /\ latch[s] = 0
        BY <1>1, <1>9
      <4> QED BY <3>1, <3>2, <4>1, <4>2
    <3>3. CASE nextToForward # s
      BY <3>1, <3>3, <1>9, <1>10
    <3> QED BY <3>2, <3>3
  <2>3. \A t \in Slots : slot'[t] = 1 => /\ latch[t] = 0 \/ latch[t] < NumDownstream
                                         /\ t # nextToForward => latch[t] = 0
    BY <1>1, <1>9 DEF RingInvariant, LatchCounts
  <2> QED BY <1>2, <1>4, <1>7, <2>1, <2>2, <2>3 DEF RingInvariant, LatchCounts, Turn
<1> QED BY <1>6, <1>8, <1>11, <1>12, <1>13, <1>14 DEF RingInvariant

----------------------------------------------------------------------------
(* Taking a task preserves the invariant.                                  *)

\* The dispatcher's bound puts a new task within one lap of the ring.
LEMMA NewTaskInLap ==
    ASSUME RingInvariant, Batches <= NumberOfSlots, NEW id \in TaskIds,
           id \notin started, created(id)
    PROVE  Released < id /\ id <= Released + NumberOfSlots
<1>1. /\ id \in Nat \ {0} /\ Len(freed) \in Nat /\ Released \in Nat
      /\ Released = Len(freed) \/ Released = Len(freed) - 1
      /\ \A i \in 1 .. Len(freed) : i \in started
  BY DEF RingInvariant, TypeOK, FreedInOrder, Released, TaskIds
<1>2. Len(freed) < id
  BY <1>1
<1>3. id <= Released + NumberOfSlots
  BY <1>1, ResultHandlerAssumption DEF created
<1> QED BY <1>1, <1>2, <1>3

\* A worker takes a processing task.
LEMMA StartProcessStep ==
    ASSUME RingInvariant, Batches <= NumberOfSlots, NEW w \in Workers,
           NEW type \in {"PROCESS", "ONLY_PROCESS"}, NEW id \in TaskIds,
           startProcess(w, type, id)
    PROVE  RingInvariant'
<1>1. /\ pc[w] = "idle" /\ id \notin started /\ Released < id
      /\ id <= Released + NumberOfSlots /\ id \in 0 .. MaxTask
  BY NewTaskInLap DEF startProcess, runProcess, TaskIds
<1>2. /\ started' = started \cup {id} /\ oldVal' = [oldVal EXCEPT ![w] = -1]
      /\ task' = [task EXCEPT ![w] = [type |-> type, id |-> id]]
      /\ pc' = [pc EXCEPT ![w] = "reserve"]
      /\ UNCHANGED <<slot, result, latch, nextToForward, forwardLock, maxTaskId,
                     qry, delivered, freed>>
  BY DEF startProcess, runProcess, goto
<1>3. \A v \in Workers : /\ pc'[v] = IF v = w THEN "reserve" ELSE pc[v]
                         /\ oldVal'[v] = IF v = w THEN -1 ELSE oldVal[v]
                         /\ v # w => task'[v] = task[v]
  BY <1>2 DEF RingInvariant, TypeOK
<1>4. task'[w].id = id
  BY <1>2 DEF RingInvariant, TypeOK
<1>5. \A v \in Workers : /\ v \in Forwarding' <=> v \in Forwarding
                         /\ Locks(v)' <=> Locks(v)
                         /\ Sends(v)' <=> Sends(v)
                         /\ Holds(v)' <=> Holds(v) \/ v = w
                         /\ v \in Filling' <=> v \in Filling
                         /\ v \in Filling => v # w
                         /\ pc'[v] = "reserve" <=> pc[v] = "reserve" \/ v = w
                         /\ pc'[v] = "publish" <=> pc[v] = "publish"
                         /\ pc'[v] = "publish" => v # w
                         /\ pc'[v] = "forward" <=> pc[v] = "forward"
                         /\ pc'[v] = "free" <=> pc[v] = "free"
                         /\ pc'[v] = "release" <=> pc[v] = "release"
  BY <1>1, <1>3 DEF Forwarding, Locks, Sends, Holds, Filling
<1>6. TypeOK'
  BY <1>1, <1>2, SMTT(30) DEF RingInvariant, TypeOK, pcLabels
<1>7. Released' = Released /\ (Releasing' <=> Releasing)
  BY <1>2, <1>5 DEF Releasing, Released
<1>8. FreedInOrder'
  BY <1>1, <1>2, <1>7 DEF RingInvariant, FreedInOrder
<1>9. OneForwarder'
  BY <1>2, <1>5 DEF RingInvariant, OneForwarder
<1>10. OneHolder'
  <2>1. OneHolder
    BY DEF RingInvariant
  <2>2. \A v \in Workers : Holds(v) => task[v].id # id /\ v # w
    BY <1>1, <2>1 DEF OneHolder, Holds
  <2>3. \A t \in Slots : /\ Full(t)' <=> Full(t)
                         /\ Full(t) => result[t] # id
    BY <1>1, <1>2, <2>1 DEF OneHolder, Full
  <2>4. ASSUME NEW v \in Workers, Holds(v)'
        PROVE  task'[v].id \in started' /\ Released' < task'[v].id
    <3>1. CASE v = w
      BY <1>1, <1>2, <1>4, <1>7, <3>1
    <3>2. CASE v # w
      <4>1. Holds(v) /\ task'[v] = task[v]
        BY <1>3, <1>5, <2>4, <3>2
      <4>2. task[v].id \in started /\ Released < task[v].id
        BY <2>1, <4>1 DEF OneHolder
      <4> QED BY <1>2, <1>7, <4>1, <4>2
    <3> QED BY <3>1, <3>2
  <2>5. ASSUME NEW u \in Workers, NEW v \in Workers, Holds(u)', Holds(v)',
               task'[u].id = task'[v].id
        PROVE  u = v
    <3>1. \A x \in Workers : Holds(x)' /\ x # w => Holds(x) /\ task'[x].id = task[x].id
      BY <1>3, <1>5
    <3>2. CASE u # w /\ v # w
      <4>1. Holds(u) /\ Holds(v) /\ task[u].id = task[v].id
        BY <2>5, <3>1, <3>2
      <4> QED BY <2>1, <4>1 DEF OneHolder
    <3>3. CASE u = w \/ v = w
      BY <1>4, <2>2, <2>5, <3>1, <3>3
    <3> QED BY <3>2, <3>3
  <2>6. ASSUME NEW t \in Slots, Full(t)'
        PROVE  result'[t] \in started' /\ Released' < result'[t] /\ idx(result'[t]) = t
    <3>1. result' = result /\ Full(t)
      BY <1>2, <2>3, <2>6 DEF Full
    <3>2. result[t] \in started /\ Released < result[t] /\ idx(result[t]) = t
      BY <2>1, <3>1 DEF OneHolder
    <3>3. result[t] \in started'
      BY <1>2, <3>2
    <3> QED BY <1>7, <3>1, <3>2, <3>3
  <2>7. ASSUME NEW t \in Slots, NEW v \in Workers, Full(t)', Holds(v)'
        PROVE  result'[t] # task'[v].id
    <3>1. result' = result /\ Full(t) /\ result[t] # id
      BY <1>2, <2>3, <2>7 DEF Full
    <3>2. CASE v = w
      BY <1>4, <3>1, <3>2
    <3>3. CASE v # w
      <4>1. Holds(v) /\ task'[v] = task[v]
        BY <1>3, <1>5, <2>7, <3>3
      <4> QED BY <2>1, <3>1, <4>1 DEF OneHolder
    <3> QED BY <3>2, <3>3
  <2> QED BY <2>4, <2>5, <2>6, <2>7 DEF OneHolder, idx
<1>11. FillingMarked'
  <2>1. \A v \in Filling' : v \in Filling /\ task'[v] = task[v]
    BY <1>3, <1>5 DEF Filling
  <2>2. \A v \in Filling : v \in Filling' /\ task'[v] = task[v]
    BY <1>3, <1>5 DEF Filling
  <2>3. \A v \in Workers : pc'[v] = "reserve" => oldVal'[v] = -1
    BY <1>2, <1>3, <1>5 DEF RingInvariant, FillingMarked
  <2>4. \A v \in Filling' : slot'[idx(task'[v].id)] = 0
    BY <1>2, <2>1 DEF RingInvariant, FillingMarked
  <2>5. \A v \in Workers : pc'[v] = "publish" =>
           /\ result'[idx(task'[v].id)] = task'[v].id
           /\ latch'[idx(task'[v].id)] = 0
    <3>1. \A v \in Workers : pc'[v] = "publish" => pc[v] = "publish" /\ task'[v] = task[v]
      BY <1>3, <1>5
    <3>2. FillingMarked /\ UNCHANGED <<result, latch>>
      BY <1>2 DEF RingInvariant
    <3> QED BY <3>1, <3>2 DEF FillingMarked
  <2>6. \A s \in Slots : slot'[s] = 0 => \E v \in Filling' : idx(task'[v].id) = s
    BY <1>2, <2>2 DEF RingInvariant, FillingMarked
  <2> QED BY <2>3, <2>4, <2>5, <2>6 DEF FillingMarked
<1>12. LatchCounts'
  <2>1. nextToForward \in Slots /\ LatchCounts
    BY DEF RingInvariant, TypeOK
  <2> QED BY <1>2, <1>5, <1>7, <2>1, LatchCountsKept
<1> QED BY <1>6, <1>8, <1>9, <1>10, <1>11, <1>12 DEF RingInvariant

\* A step that leaves the ring, the tasks and the deliveries alone, and takes a
\* worker from a place where it holds nothing to another such place.
LEMMA QuietStep ==
    ASSUME RingInvariant, NEW w \in Workers,
           pc[w] \in {"idle", "lock", "check", "unlock"},
           NEW l \in {"idle", "lock", "check", "unlock"},
           pc' = [pc EXCEPT ![w] = l],
           TypeOK', \A v \in Workers : v \in Forwarding' <=> forwardLock' = v,
           \A v \in Workers : v # w => task'[v] = task[v],
           UNCHANGED <<slot, result, latch, nextToForward, oldVal, qry, started,
                       delivered, freed>>
    PROVE  RingInvariant'
<1>1. \A v \in Workers : pc'[v] = IF v = w THEN l ELSE pc[v]
  BY DEF RingInvariant, TypeOK
<1>2. \A v \in Workers : /\ Locks(v)' <=> Locks(v)
                         /\ Sends(v)' <=> Sends(v)
                         /\ Holds(v)' <=> Holds(v)
                         /\ Holds(v) => v # w
                         /\ v \in Filling' <=> v \in Filling
                         /\ v \in Filling => v # w
                         /\ pc'[v] = "reserve" <=> pc[v] = "reserve"
                         /\ pc'[v] = "publish" <=> pc[v] = "publish"
                         /\ pc'[v] = "publish" => v # w
                         /\ pc'[v] = "forward" <=> pc[v] = "forward"
                         /\ pc'[v] = "free" <=> pc[v] = "free"
                         /\ pc'[v] = "release" <=> pc[v] = "release"
  BY <1>1 DEF Locks, Sends, Holds, Filling
<1>3. Released' = Released /\ (Releasing' <=> Releasing)
  BY <1>2 DEF Releasing, Released
<1>4. FreedInOrder'
  BY <1>3 DEF RingInvariant, FreedInOrder
<1>5. OneForwarder'
  BY <1>2 DEF RingInvariant, OneForwarder
<1>6. OneHolder'
  <2>1. OneHolder /\ \A t \in Slots : Full(t)' <=> Full(t)
    BY DEF RingInvariant, Full
  <2>2. \A v \in Workers : Holds(v)' => Holds(v) /\ task'[v] = task[v]
    BY <1>2
  <2> QED BY <1>3, <2>1, <2>2, OneHolderKept
<1>7. FillingMarked'
  <2>1. \A v \in Filling' : v \in Filling /\ task'[v] = task[v]
    BY <1>2 DEF Filling
  <2>2. \A v \in Filling : v \in Filling' /\ task'[v] = task[v]
    BY <1>2 DEF Filling
  <2>3. FillingMarked
    BY DEF RingInvariant
  <2>4. \A v \in Workers : pc'[v] = "reserve" => oldVal'[v] = -1
    BY <1>2, <2>3 DEF FillingMarked
  <2>5. \A v \in Filling' : slot'[idx(task'[v].id)] = 0
    BY <2>1, <2>3 DEF FillingMarked
  <2>6. \A v \in Workers : pc'[v] = "publish" =>
           /\ result'[idx(task'[v].id)] = task'[v].id
           /\ latch'[idx(task'[v].id)] = 0
    <3>1. \A v \in Workers : pc'[v] = "publish" => pc[v] = "publish" /\ task'[v] = task[v]
      BY <1>2
    <3> QED BY <2>3, <3>1 DEF FillingMarked
  <2>7. \A s \in Slots : slot'[s] = 0 => \E v \in Filling' : idx(task'[v].id) = s
    BY <2>2, <2>3 DEF FillingMarked
  <2> QED BY <2>4, <2>5, <2>6, <2>7 DEF FillingMarked, idx
<1>8. LatchCounts'
  <2>1. nextToForward \in Slots /\ LatchCounts
    BY DEF RingInvariant, TypeOK
  <2> QED BY <1>2, <1>3, <2>1, LatchCountsKept
<1> QED BY <1>4, <1>5, <1>6, <1>7, <1>8 DEF RingInvariant

\* A worker takes a MERGE_FORWARD task.
LEMMA StartMergeForwardStep ==
    ASSUME RingInvariant, NEW w \in Workers, startMergeForward(w)
    PROVE  RingInvariant'
<1>1. /\ pc[w] = "idle" /\ pc' = [pc EXCEPT ![w] = "lock"]
      /\ task' = [task EXCEPT ![w] = MergeTask]
      /\ UNCHANGED <<slot, result, latch, nextToForward, forwardLock, maxTaskId,
                     oldVal, qry, started, delivered, freed>>
  BY DEF startMergeForward, goto
<1>2. MergeTask \in [type : {"PROCESS", "ONLY_PROCESS", "MERGE_FORWARD"}, id : 0 .. MaxTask]
  BY ResultHandlerAssumption DEF MergeTask
<1>3. TypeOK'
  BY <1>1, <1>2, SMTT(30) DEF RingInvariant, TypeOK, pcLabels
<1>4. \A v \in Workers : v \in Forwarding' <=> forwardLock' = v
  BY <1>1 DEF RingInvariant, TypeOK, OneForwarder, Forwarding
<1>5. \A v \in Workers : v # w => task'[v] = task[v]
  BY <1>1 DEF RingInvariant, TypeOK
<1> QED BY <1>1, <1>3, <1>4, <1>5, QuietStep, Zenon

----------------------------------------------------------------------------
(* The forward lock.                                                       *)

\* m_forwardLock.try_lock, whether it succeeds or not.
LEMMA TryLockStep ==
    ASSUME RingInvariant, NEW w \in Workers, tryLock(w)
    PROVE  RingInvariant'
<1> DEFINE l == IF forwardLock = NoWorker THEN "check" ELSE "idle"
<1>1. /\ pc[w] = "lock" /\ pc' = [pc EXCEPT ![w] = l]
      /\ forwardLock' = IF forwardLock = NoWorker THEN w ELSE forwardLock
      /\ UNCHANGED <<slot, result, latch, nextToForward, maxTaskId, task, oldVal,
                     qry, started, delivered, freed>>
  BY DEF tryLock, goto
<1>2. TypeOK'
  BY <1>1 DEF RingInvariant, TypeOK, pcLabels
<1>3. \A v \in Workers : v \in Forwarding' <=> forwardLock' = v
  <2>1. \A v \in Workers : v \in Forwarding <=> forwardLock = v
    BY DEF RingInvariant, OneForwarder
  <2>2. \A v \in Workers : pc'[v] = IF v = w THEN l ELSE pc[v]
    BY <1>1 DEF RingInvariant, TypeOK
  <2>3. CASE forwardLock = NoWorker
    BY <1>1, <2>1, <2>2, <2>3, ResultHandlerAssumption DEF Forwarding
  <2>4. CASE forwardLock # NoWorker
    BY <1>1, <2>1, <2>2, <2>4 DEF Forwarding
  <2> QED BY <2>3, <2>4
<1>4. l \in {"idle", "lock", "check", "unlock"}
  OBVIOUS
<1> HIDE DEF l
<1> QED BY <1>1, <1>2, <1>3, <1>4, QuietStep, Zenon

\* The next slot is not full: the loop ends.
LEMMA CheckEmptyStep ==
    ASSUME RingInvariant, NEW w \in Workers, checkEmpty(w)
    PROVE  RingInvariant'
<1>1. /\ pc[w] = "check" /\ pc' = [pc EXCEPT ![w] = "unlock"]
      /\ UNCHANGED <<slot, result, latch, nextToForward, forwardLock, maxTaskId,
                     task, oldVal, qry, started, delivered, freed>>
  BY DEF checkEmpty, goto
<1>2. TypeOK'
  BY <1>1 DEF RingInvariant, TypeOK, pcLabels
<1>3. \A v \in Workers : v \in Forwarding' <=> forwardLock' = v
  BY <1>1 DEF RingInvariant, TypeOK, OneForwarder, Forwarding
<1> QED BY <1>1, <1>2, <1>3, QuietStep, Zenon

\* m_forwardLock.unlock.
LEMMA UnlockStep ==
    ASSUME RingInvariant, NEW w \in Workers, unlock(w)
    PROVE  RingInvariant'
<1>1. /\ pc[w] = "unlock" /\ pc' = [pc EXCEPT ![w] = "idle"]
      /\ forwardLock' = NoWorker
      /\ UNCHANGED <<slot, result, latch, nextToForward, maxTaskId, task, oldVal,
                     qry, started, delivered, freed>>
  BY DEF unlock, goto
<1>2. TypeOK'
  BY <1>1 DEF RingInvariant, TypeOK, pcLabels
<1>3. \A v \in Workers : v \in Forwarding' <=> forwardLock' = v
  <2>1. \A v \in Workers : v \in Forwarding <=> forwardLock = v
    BY DEF RingInvariant, OneForwarder
  <2>2. w \in Forwarding
    BY <1>1 DEF Forwarding
  <2>3. \A v \in Workers : pc'[v] = IF v = w THEN "idle" ELSE pc[v]
    BY <1>1 DEF RingInvariant, TypeOK
  <2>4. \A v \in Workers : v \notin Forwarding'
    BY <2>1, <2>2, <2>3 DEF Forwarding
  <2> QED BY <1>1, <2>4, ResultHandlerAssumption
<1> QED BY <1>1, <1>2, <1>3, QuietStep, Zenon
============================================================================
