---------------------- MODULE ResultHandlerForwarding ----------------------
(***************************************************************************)
(* The worker with the forward lock preserves the invariant of the ring    *)
(* while it forwards a result, frees its input and gives back its slot.    *)
(***************************************************************************)
EXTENDS ResultHandlerRing

----------------------------------------------------------------------------
(* Forwarding, under the lock.                                             *)

\* Nobody else is in the forwarding section.
LEMMA ForwarderAlone ==
    ASSUME RingInvariant, NEW w \in Workers, w \in Forwarding
    PROVE  /\ forwardLock = w
           /\ \A v \in Workers : v \in Forwarding => v = w
           /\ \A v \in Workers : Locks(v) => v = w
           /\ \A v \in Workers : Sends(v) => v = w
           /\ Releasing <=> pc[w] = "release"
           /\ pc[w] # "release" => Released = Len(freed)
<1>1. \A v \in Workers : v \in Forwarding <=> forwardLock = v
  BY DEF RingInvariant, OneForwarder
<1>2. \A v \in Workers : Locks(v) \/ Sends(v) \/ pc[v] = "release" => v \in Forwarding
  BY DEF Locks, Sends, Forwarding
<1>3. \A v \in Workers : v \in Forwarding => v = w
  BY <1>1
<1>4. Releasing <=> pc[w] = "release"
  BY <1>2, <1>3 DEF Releasing
<1> QED BY <1>1, <1>2, <1>3, <1>4 DEF Released

\* The result that is being forwarded is the one whose turn it is.
LEMMA SendsTurn ==
    ASSUME RingInvariant, NEW w \in Workers, Sends(w)
    PROVE  /\ w \in Forwarding /\ slot[nextToForward] = 2 /\ nextToForward \in Slots
           /\ Released = Len(freed) /\ Len(freed) \in Nat
           /\ result[nextToForward] = Turn /\ Turn \in started
           /\ \A d \in Downstream : HasTurn(d) <=> d <= qry[w]
<1>1. w \in Forwarding /\ Locks(w) /\ pc[w] # "release"
  BY DEF Sends, Forwarding, Locks
<1>2. slot[nextToForward] = 2 /\ nextToForward \in Slots
  BY <1>1 DEF RingInvariant, TypeOK, OneForwarder
<1>3. Released = Len(freed) /\ Len(freed) \in Nat
  BY <1>1, ForwarderAlone DEF RingInvariant, TypeOK
<1>4. result[nextToForward] = Turn /\ result[nextToForward] \in started
  BY <1>2, <1>3, OldestIsNext DEF Full, Turn, RingInvariant, OneHolder
<1>5. \A d \in Downstream : HasTurn(d) <=> d <= qry[w]
  BY DEF RingInvariant, LatchCounts
<1> QED BY <1>1, <1>2, <1>3, <1>4, <1>5

\* The next slot is full: it is locked and served from its latch on.
LEMMA CheckReadyStep ==
    ASSUME RingInvariant, NEW w \in Workers, checkReady(w)
    PROVE  RingInvariant'
<1> DEFINE n == nextToForward
           send == NumDownstream > 0 /\ result[n] \notin EmptyResults
           l == IF send THEN "forward" ELSE "free"
<1>1. /\ pc[w] = "check" /\ w \in Forwarding /\ n \in Slots /\ slot[n] = 1
      /\ latch[n] \in 0 .. NumDownstream /\ NumDownstream \in Nat
      /\ latch[n] = 0 \/ latch[n] < NumDownstream
      /\ \A d \in Downstream : HasTurn(d) <=> d <= latch[n]
  BY ResultHandlerAssumption
     DEF checkReady, Forwarding, RingInvariant, TypeOK, LatchCounts
<1>2. /\ slot' = [slot EXCEPT ![n] = 2] /\ qry' = [qry EXCEPT ![w] = latch[n]]
      /\ pc' = [pc EXCEPT ![w] = l]
      /\ UNCHANGED <<result, latch, nextToForward, forwardLock, maxTaskId, task,
                     oldVal, started, delivered, freed>>
  BY DEF checkReady, goto
<1>3. /\ l \in {"forward", "free"}
      /\ l = "forward" => latch[n] < NumDownstream /\ result[n] \notin EmptyResults
      /\ l = "free" => result[n] \in EmptyResults \/ latch[n] = NumDownstream
  BY <1>1
<1>4. ~Releasing /\ \A v \in Workers : ~Locks(v) /\ (v \in Forwarding => v = w)
  BY <1>1, ForwarderAlone DEF Locks
<1> HIDE DEF n, send, l
<1>5. \A v \in Workers : /\ pc'[v] = IF v = w THEN l ELSE pc[v]
                         /\ qry'[v] = IF v = w THEN latch[n] ELSE qry[v]
  BY <1>2 DEF RingInvariant, TypeOK
<1>6. \A v \in Workers : /\ v \in Forwarding' <=> v \in Forwarding
                         /\ Locks(v)' <=> v = w
                         /\ Sends(v)' <=> v = w
                         /\ Holds(v)' <=> Holds(v)
                         /\ v \in Filling' <=> v \in Filling
                         /\ pc'[v] = "reserve" <=> pc[v] = "reserve"
                         /\ pc'[v] = "publish" <=> pc[v] = "publish"
                         /\ pc'[v] = "forward" <=> v = w /\ l = "forward"
                         /\ pc'[v] = "free" <=> v = w /\ l = "free"
                         /\ pc'[v] # "release"
  <2>1. \A v \in Workers : pc[v] \notin {"forward", "free", "release"}
    BY <1>4 DEF Locks
  <2> QED BY <1>1, <1>3, <1>5, <2>1 DEF Forwarding, Locks, Sends, Holds, Filling
<1>7. TypeOK'
  BY <1>1, <1>2, <1>3, SMTT(30) DEF RingInvariant, TypeOK, pcLabels
<1>8. Released' = Released /\ ~Releasing'
  BY <1>2, <1>4, <1>6 DEF Releasing, Released
<1>9. FreedInOrder'
  BY <1>2, <1>8 DEF RingInvariant, FreedInOrder
<1>10. \A t \in Slots : /\ slot'[t] = 2 <=> t = n
                        /\ slot'[t] = 1 <=> slot[t] = 1 /\ t # n
                        /\ slot'[t] = 0 <=> slot[t] = 0
                        /\ Full(t)' <=> Full(t)
  <2>1. \A t \in Slots : slot[t] # 2
    BY <1>4 DEF RingInvariant, OneForwarder
  <2> QED BY <1>1, <1>2, <2>1 DEF RingInvariant, TypeOK, Full
<1>11. OneForwarder'
  BY <1>1, <1>2, <1>6, <1>10 DEF RingInvariant, OneForwarder, n
<1>12. OneHolder'
  BY <1>2, <1>6, <1>8, <1>10, OneHolderKept DEF RingInvariant
<1>13. FillingMarked'
  <2>1. \A v \in Filling' : v \in Filling /\ idx(task[v].id) \in Slots
    <3>1. SUFFICES ASSUME NEW v \in Workers, v \in Filling
                   PROVE  idx(task[v].id) \in Slots
      BY <1>6 DEF Filling
    <3> QED BY <3>1, HeldTask DEF Filling, Holds
  <2>2. \A v \in Filling : v \in Filling'
    BY <1>6 DEF Filling
  <2> QED BY <1>2, <1>6, <1>10, <2>1, <2>2 DEF RingInvariant, FillingMarked
<1>14. LatchCounts'
  <2>1. \A d \in Downstream : HasTurn(d)' <=> HasTurn(d)
    BY <1>2 DEF HasTurn, Turn
  <2>2. LatchCounts /\ Turn' = Turn /\ n = nextToForward
        /\ UNCHANGED <<result, latch, nextToForward, delivered>>
    BY <1>2 DEF RingInvariant, Turn, n
  <2>3. \A d \in Downstream : HasTurn(d)' <=> d <= latch[n]
    BY <1>1, <2>1, <2>2 DEF LatchCounts
  <2>4. \A v \in Workers : Sends(v)' => \A d \in Downstream : HasTurn(d)' <=> d <= qry'[v]
    BY <1>5, <1>6, <2>3
  <2>5. slot'[nextToForward] = 2
    BY <1>1, <1>10, <2>2
  <2>6. \A t \in Slots : slot'[t] = 1 => /\ latch'[t] = 0 \/ latch'[t] < NumDownstream
                                         /\ t # nextToForward => latch'[t] = 0
    BY <1>10, <2>2 DEF LatchCounts
  <2>7. /\ \A v \in Workers : pc'[v] = "forward" => /\ qry'[v] < NumDownstream
                                                    /\ result'[nextToForward] \notin EmptyResults
        /\ \A v \in Workers : pc'[v] = "free" => \/ result'[nextToForward] \in EmptyResults
                                                 \/ qry'[v] = NumDownstream
    BY <1>3, <1>5, <1>6, <2>2
  <2> QED BY <1>8, <2>2, <2>4, <2>5, <2>6, <2>7 DEF LatchCounts
<1> QED BY <1>7, <1>9, <1>11, <1>12, <1>13, <1>14 DEF RingInvariant

\* A downstream query takes the result.
LEMMA ForwardAcceptedStep ==
    ASSUME RingInvariant, NEW w \in Workers, forwardAccepted(w)
    PROVE  RingInvariant'
<1> DEFINE d == qry[w] + 1
           l == IF d = NumDownstream THEN "free" ELSE "forward"
<1>1. /\ pc[w] = "forward" /\ Sends(w) /\ w \in Forwarding
      /\ qry[w] \in Nat /\ d \in Downstream /\ NumDownstream \in Nat
      /\ result[nextToForward] \notin EmptyResults
      /\ result[nextToForward] = Turn /\ result[nextToForward] \in 0 .. MaxTask
      /\ \A c \in Downstream : HasTurn(c) <=> c <= qry[w]
  <2>1. pc[w] = "forward" /\ Sends(w) /\ w \in Forwarding
    BY DEF forwardAccepted, Sends, Forwarding
  <2>2. /\ qry[w] \in 0 .. NumDownstream /\ NumDownstream \in Nat /\ qry[w] < NumDownstream
        /\ result[nextToForward] \notin EmptyResults
    BY <2>1, ResultHandlerAssumption DEF RingInvariant, TypeOK, LatchCounts
  <2>3. nextToForward \in Slots /\ result[nextToForward] \in 0 .. MaxTask
    BY DEF RingInvariant, TypeOK
  <2> QED BY <2>1, <2>2, <2>3, SendsTurn DEF Downstream
<1>2. /\ delivered' = [delivered EXCEPT ![d] = Append(@, result[nextToForward])]
      /\ qry' = [qry EXCEPT ![w] = d] /\ pc' = [pc EXCEPT ![w] = l]
      /\ UNCHANGED <<slot, result, latch, nextToForward, forwardLock, maxTaskId,
                     task, oldVal, started, freed>>
  BY DEF forwardAccepted, goto
<1>3. /\ l \in {"forward", "free"}
      /\ l = "forward" => d < NumDownstream
      /\ l = "free" => d = NumDownstream
  BY <1>1 DEF Downstream
<1>4. /\ ~Releasing
      /\ \A v \in Workers : (Sends(v) => v = w) /\ (v \in Forwarding => v = w)
  BY <1>1, ForwarderAlone
<1>5. d = qry[w] + 1
  OBVIOUS
<1> HIDE DEF d, l
<1>6. \A v \in Workers : /\ pc'[v] = IF v = w THEN l ELSE pc[v]
                         /\ qry'[v] = IF v = w THEN d ELSE qry[v]
  BY <1>2 DEF RingInvariant, TypeOK
<1>7. \A v \in Workers : /\ v \in Forwarding' <=> v \in Forwarding
                         /\ Locks(v)' <=> Locks(v)
                         /\ Sends(v)' <=> v = w
                         /\ Holds(v)' <=> Holds(v)
                         /\ v \in Filling' <=> v \in Filling
                         /\ pc'[v] = "reserve" <=> pc[v] = "reserve"
                         /\ pc'[v] = "publish" <=> pc[v] = "publish"
                         /\ pc'[v] = "forward" => v = w /\ l = "forward"
                         /\ pc'[v] = "free" => v = w /\ l = "free"
                         /\ pc'[v] = "release" <=> pc[v] = "release"
  <2>1. \A v \in Workers : pc[v] \in {"forward", "free"} => v = w
    BY <1>4 DEF Sends
  <2> QED BY <1>1, <1>3, <1>6, <2>1 DEF Forwarding, Locks, Sends, Holds, Filling
<1>8. TypeOK'
  <2>1. delivered' \in [Downstream -> Seq(0 .. MaxTask)]
    BY <1>1, <1>2 DEF RingInvariant, TypeOK
  <2>2. qry' \in [Workers -> 0 .. NumDownstream] /\ pc' \in [Workers -> pcLabels]
    <3>1. d \in 0 .. NumDownstream /\ l \in pcLabels
      BY <1>1, <1>3 DEF Downstream, pcLabels
    <3> QED BY <1>2, <3>1 DEF RingInvariant, TypeOK
  <2> QED BY <1>2, <2>1, <2>2, SMTT(30) DEF RingInvariant, TypeOK
<1>9. Released' = Released /\ ~Releasing'
  BY <1>2, <1>4, <1>7 DEF Releasing, Released
<1>10. FreedInOrder'
  BY <1>2, <1>9 DEF RingInvariant, FreedInOrder
<1>11. OneForwarder'
  BY <1>2, <1>7 DEF RingInvariant, OneForwarder
<1>12. OneHolder'
  <2>1. OneHolder /\ \A t \in Slots : Full(t)' <=> Full(t)
    BY <1>2 DEF RingInvariant, Full
  <2> QED BY <1>2, <1>7, <1>9, <2>1, OneHolderKept
<1>13. FillingMarked'
  <2>1. \A v \in Filling' : v \in Filling
    BY <1>7 DEF Filling
  <2>2. \A v \in Filling : v \in Filling'
    BY <1>7, SMTT(30) DEF Filling
  <2> QED BY <1>2, <1>7, <2>1, <2>2 DEF RingInvariant, FillingMarked
<1>14. LatchCounts'
  <2>1. Turn' = Turn /\ Turn \in Nat
    BY <1>2 DEF Turn, RingInvariant, TypeOK
  <2>2. /\ Len(delivered'[d]) > 0 /\ delivered'[d][Len(delivered'[d])] = Turn
        /\ \A c \in Downstream : c # d => delivered'[c] = delivered[c]
    BY <1>1, <1>2 DEF RingInvariant, TypeOK
  <2>3. \A c \in Downstream : HasTurn(c)' <=> HasTurn(c) \/ c = d
    BY <1>1, <2>1, <2>2 DEF HasTurn
  <2>4. \A c \in Downstream : HasTurn(c)' <=> c <= d
    BY <1>1, <1>5, <2>3 DEF Downstream
  <2>5. \A c \in Downstream : Len(delivered'[c]) > 0 =>
                                delivered'[c][Len(delivered'[c])] <= Turn
    BY <1>1, <2>1, <2>2 DEF RingInvariant, LatchCounts
  <2>6. slot[nextToForward] = 2
    BY <1>1, SendsTurn
  <2>7. LatchCounts /\ UNCHANGED <<slot, result, latch, nextToForward>>
    BY <1>2 DEF RingInvariant
  <2>8. \A v \in Workers : Sends(v)' => \A c \in Downstream : HasTurn(c)' <=> c <= qry'[v]
    BY <1>6, <1>7, <2>4
  <2>9. \A v \in Workers : pc'[v] = "forward" => /\ qry'[v] < NumDownstream
                                                 /\ result'[nextToForward] \notin EmptyResults
    BY <1>1, <1>3, <1>6, <1>7, <2>7
  <2>10. \A v \in Workers : pc'[v] = "free" => qry'[v] = NumDownstream
    BY <1>3, <1>6, <1>7
  <2> QED BY <1>9, <2>1, <2>5, <2>6, <2>7, <2>8, <2>9, <2>10 DEF LatchCounts
<1> QED BY <1>8, <1>10, <1>11, <1>12, <1>13, <1>14 DEF RingInvariant

\* A downstream query is full: the latch remembers where to resume.
LEMMA ForwardRejectedStep ==
    ASSUME RingInvariant, NEW w \in Workers, forwardRejected(w)
    PROVE  RingInvariant'
<1> DEFINE n == nextToForward
<1>1. /\ pc[w] = "forward" /\ Sends(w) /\ w \in Forwarding /\ n \in Slots /\ slot[n] = 2
      /\ qry[w] \in 0 .. NumDownstream /\ qry[w] < NumDownstream
      /\ \A c \in Downstream : HasTurn(c) <=> c <= qry[w]
  <2>1. pc[w] = "forward" /\ Sends(w) /\ w \in Forwarding
    BY DEF forwardRejected, Sends, Forwarding
  <2>2. qry[w] \in 0 .. NumDownstream /\ qry[w] < NumDownstream
    BY <2>1 DEF RingInvariant, TypeOK, LatchCounts
  <2> QED BY <2>1, <2>2, SendsTurn
<1>2. /\ latch' = [latch EXCEPT ![n] = qry[w]] /\ slot' = [slot EXCEPT ![n] = 1]
      /\ pc' = [pc EXCEPT ![w] = "unlock"]
      /\ UNCHANGED <<result, nextToForward, forwardLock, maxTaskId, task, oldVal,
                     qry, started, delivered, freed>>
  BY DEF forwardRejected, goto
<1>3. /\ ~Releasing
      /\ \A v \in Workers : (Locks(v) => v = w) /\ (v \in Forwarding => v = w)
  BY <1>1, ForwarderAlone
<1>4. n = nextToForward
  OBVIOUS
<1> HIDE DEF n
<1>5. \A v \in Workers : pc'[v] = IF v = w THEN "unlock" ELSE pc[v]
  BY <1>2 DEF RingInvariant, TypeOK
<1>6. \A v \in Workers : /\ v \in Forwarding' <=> v \in Forwarding
                         /\ ~Locks(v)'
                         /\ ~Sends(v)'
                         /\ Holds(v)' <=> Holds(v)
                         /\ v \in Filling' <=> v \in Filling
                         /\ pc'[v] = "reserve" <=> pc[v] = "reserve"
                         /\ pc'[v] = "publish" <=> pc[v] = "publish"
                         /\ pc'[v] \notin {"forward", "free", "release"}
  <2>1. \A v \in Workers : pc[v] \in {"forward", "free", "release"} => v = w
    BY <1>3 DEF Locks
  <2> QED BY <1>1, <1>5, <2>1 DEF Forwarding, Locks, Sends, Holds, Filling
<1>7. TypeOK'
  BY <1>1, <1>2 DEF RingInvariant, TypeOK, pcLabels
<1>8. Released' = Released /\ ~Releasing'
  BY <1>2, <1>3, <1>6 DEF Releasing, Released
<1>9. FreedInOrder'
  BY <1>2, <1>8 DEF RingInvariant, FreedInOrder
<1>10. \A t \in Slots : /\ slot'[t] # 2
                        /\ slot'[t] = 1 <=> slot[t] = 1 \/ t = n
                        /\ slot'[t] = 0 <=> slot[t] = 0
                        /\ Full(t)' <=> Full(t)
                        /\ latch'[t] = IF t = n THEN qry[w] ELSE latch[t]
  <2>1. \A t \in Slots : slot[t] = 2 => t = n
    BY <1>4 DEF RingInvariant, OneForwarder
  <2> QED BY <1>1, <1>2, <2>1 DEF RingInvariant, TypeOK, Full
<1>11. OneForwarder'
  BY <1>2, <1>6, <1>10 DEF RingInvariant, OneForwarder
<1>12. OneHolder'
  BY <1>2, <1>6, <1>8, <1>10, OneHolderKept DEF RingInvariant
<1>13. FillingMarked'
  <2>1. \A v \in Workers : v \in Filling => idx(task[v].id) \in Slots
    <3>1. SUFFICES ASSUME NEW v \in Workers, v \in Filling
                   PROVE  idx(task[v].id) \in Slots
      OBVIOUS
    <3> QED BY <3>1, HeldTask DEF Filling, Holds
  <2>2. (\A v \in Filling : v \in Workers) /\ \A v \in Filling' : v \in Workers
    BY DEF Filling
  <2>3. \A v \in Filling' : v \in Filling /\ idx(task[v].id) \in Slots
    BY <1>6, <2>1, <2>2
  <2>4. \A v \in Filling : v \in Filling'
    BY <1>6, <2>2
  <2>5. FillingMarked /\ UNCHANGED <<result, task, oldVal>>
    BY <1>2 DEF RingInvariant
  <2>6. \A v \in Workers : pc[v] = "publish" => v \in Filling
    BY DEF Filling
  <2>7. \A v \in Workers : pc[v] = "publish" => /\ idx(task[v].id) \in Slots
                                                /\ idx(task[v].id) # n
    <3>1. \A v \in Filling : slot[idx(task[v].id)] = 0
      BY <2>5 DEF FillingMarked
    <3> QED BY <1>1, <2>1, <2>6, <3>1
  <2>8. \A v \in Workers : pc'[v] = "publish" => /\ result'[idx(task'[v].id)] = task'[v].id
                                                 /\ latch'[idx(task'[v].id)] = 0
    BY <1>6, <1>10, <2>5, <2>7 DEF FillingMarked
  <2>9. \A v \in Filling' : slot'[idx(task'[v].id)] = 0
    BY <1>10, <2>3, <2>5 DEF FillingMarked
  <2>10. \A t \in Slots : slot'[t] = 0 => \E v \in Filling' : idx(task'[v].id) = t
    BY <1>10, <2>4, <2>5 DEF FillingMarked
  <2> QED BY <1>6, <2>5, <2>8, <2>9, <2>10 DEF FillingMarked, idx
<1>14. LatchCounts'
  <2>1. \A d \in Downstream : HasTurn(d)' <=> HasTurn(d)
    BY <1>2 DEF HasTurn, Turn
  <2>2. Turn' = Turn /\ UNCHANGED <<nextToForward, delivered>>
    BY <1>2 DEF Turn
  <2>3. LatchCounts
    BY DEF RingInvariant
  <2>4. slot'[n] = 1 /\ latch'[n] = qry[w]
    BY <1>1, <1>10
  <2>5. \A d \in Downstream : HasTurn(d)' <=> d <= latch'[n]
    BY <1>1, <2>1, <2>3, <2>4 DEF LatchCounts
  <2>6. \A t \in Slots : slot'[t] = 1 => /\ latch'[t] = 0 \/ latch'[t] < NumDownstream
                                         /\ t # n => latch'[t] = 0
    BY <1>1, <1>4, <1>10, <2>3 DEF LatchCounts
  <2> QED BY <1>4, <1>6, <1>8, <2>1, <2>2, <2>3, <2>4, <2>5, <2>6 DEF LatchCounts
<1> QED BY <1>7, <1>9, <1>11, <1>12, <1>13, <1>14 DEF RingInvariant

----------------------------------------------------------------------------
(* Freeing the input of a result, and giving back its slot.                *)

\* The last element of a sequence is an element of its set.
LEMMA LastOfSeq ==
    ASSUME NEW S, NEW q \in Seq(S), Len(q) > 0
    PROVE  q[Len(q)] \in S
BY Len(q) \in 1 .. Len(q), q \in [1 .. Len(q) -> S]

\* The input of the oldest task is freed.
LEMMA FreeInputStep ==
    ASSUME RingInvariant, NEW w \in Workers, freeInput(w)
    PROVE  RingInvariant'
<1>1. /\ pc[w] = "free" /\ Sends(w) /\ w \in Forwarding /\ Locks(w)
      /\ slot[nextToForward] = 2 /\ nextToForward \in Slots
      /\ result[nextToForward] = Turn /\ Turn \in started /\ Turn \in 0 .. MaxTask
      /\ Released = Len(freed) /\ Len(freed) \in Nat
  <2>1. pc[w] = "free" /\ Sends(w) /\ w \in Forwarding /\ Locks(w)
    BY DEF freeInput, Sends, Forwarding, Locks
  <2> QED BY <2>1, SendsTurn, SMTT(30) DEF RingInvariant, TypeOK, TaskIds
<1>2. /\ freed' = Append(freed, Turn) /\ pc' = [pc EXCEPT ![w] = "release"]
      /\ UNCHANGED <<slot, result, latch, nextToForward, forwardLock, maxTaskId,
                     task, oldVal, qry, started, delivered>>
  BY <1>1 DEF freeInput, goto
<1>3. \A v \in Workers : (Locks(v) => v = w) /\ (v \in Forwarding => v = w)
  BY <1>1, ForwarderAlone
<1>4. \A v \in Workers : pc'[v] = IF v = w THEN "release" ELSE pc[v]
  BY <1>2 DEF RingInvariant, TypeOK
<1>5. \A v \in Workers : /\ v \in Forwarding' <=> v \in Forwarding
                         /\ Locks(v)' <=> Locks(v)
                         /\ ~Sends(v)'
                         /\ Holds(v)' <=> Holds(v)
                         /\ v \in Filling' <=> v \in Filling
                         /\ pc'[v] = "reserve" <=> pc[v] = "reserve"
                         /\ pc'[v] = "publish" <=> pc[v] = "publish"
                         /\ pc'[v] \notin {"forward", "free"}
                         /\ pc'[v] = "release" <=> v = w
  <2>1. \A v \in Workers : pc[v] \in {"forward", "free", "release"} => v = w
    BY <1>3 DEF Locks
  <2> QED BY <1>1, <1>4, <2>1 DEF Forwarding, Locks, Sends, Holds, Filling
<1>6. /\ freed' \in Seq(0 .. MaxTask) /\ Len(freed') = Len(freed) + 1
      /\ \A i \in 1 .. Len(freed) : freed'[i] = freed[i]
      /\ freed'[Len(freed) + 1] = Turn
  BY <1>1, <1>2 DEF RingInvariant, TypeOK
<1>7. TypeOK'
  BY <1>2, <1>6 DEF RingInvariant, TypeOK, pcLabels
<1>8. Released' = Released /\ Releasing'
  <2>1. Releasing'
    BY <1>5 DEF Releasing
  <2> QED BY <1>1, <1>6, <2>1 DEF Released
<1>9. FreedInOrder'
  <2>1. \A i \in 1 .. Len(freed') : freed'[i] = i /\ i \in started
    BY <1>1, <1>6 DEF RingInvariant, FreedInOrder, Turn
  <2> QED BY <1>2, <1>8, <2>1 DEF RingInvariant, FreedInOrder
<1>10. OneForwarder'
  <2>1. result[nextToForward] = Len(freed')
    BY <1>1, <1>6 DEF Turn
  <2> QED BY <1>2, <1>5, <2>1 DEF RingInvariant, OneForwarder
<1>11. OneHolder'
  <2>1. OneHolder /\ \A t \in Slots : Full(t)' <=> Full(t)
    BY <1>2 DEF RingInvariant, Full
  <2> QED BY <1>2, <1>5, <1>8, <2>1, OneHolderKept
<1>12. FillingMarked'
  <2>1. \A v \in Filling' : v \in Filling
    BY <1>5 DEF Filling
  <2>2. \A v \in Filling : v \in Filling'
    BY <1>5 DEF Filling
  <2> QED BY <1>2, <1>5, <2>1, <2>2 DEF RingInvariant, FillingMarked
<1>13. LatchCounts'
  <2>1. Turn \in Nat /\ Turn' = Turn + 1
    BY <1>1, <1>6 DEF Turn
  <2>2. \A d \in Downstream : Len(delivered[d]) > 0 =>
                                /\ delivered[d][Len(delivered[d])] \in Int
                                /\ delivered[d][Len(delivered[d])] <= Turn
    <3>1. SUFFICES ASSUME NEW d \in Downstream, Len(delivered[d]) > 0
                   PROVE  delivered[d][Len(delivered[d])] \in Int
      BY DEF RingInvariant, LatchCounts
    <3>2. delivered[d] \in Seq(0 .. MaxTask)
      BY DEF RingInvariant, TypeOK
    <3>3. delivered[d][Len(delivered[d])] \in 0 .. MaxTask
      BY <3>1, <3>2, LastOfSeq, Zenon
    <3> QED BY <3>3
  <2>3. \A d \in Downstream : ~HasTurn(d)'
    BY <1>2, <2>1, <2>2 DEF HasTurn
  <2>4. \A d \in Downstream : Len(delivered[d]) > 0 => delivered[d][Len(delivered[d])] <= Turn'
    BY <2>1, <2>2
  <2> QED BY <1>1, <1>2, <1>5, <2>3, <2>4 DEF RingInvariant, LatchCounts
<1> QED BY <1>7, <1>9, <1>10, <1>11, <1>12, <1>13 DEF RingInvariant

\* Its slot is given back, and the next one is the next task's.
LEMMA ReleaseSlotStep ==
    ASSUME RingInvariant, NEW w \in Workers, releaseSlot(w)
    PROVE  RingInvariant'
<1> DEFINE n == nextToForward
           R == Released
<1>1. /\ pc[w] = "release" /\ w \in Forwarding /\ Locks(w) /\ n \in Slots /\ slot[n] = 2
      /\ Releasing /\ R \in Nat /\ Len(freed) = R + 1 /\ result[n] = R + 1
      /\ n = R % NumberOfSlots /\ idx(R + 1) = n /\ NumberOfSlots \in Nat \ {0}
  <2>1. pc[w] = "release" /\ w \in Forwarding /\ Locks(w) /\ Releasing
    BY DEF releaseSlot, Forwarding, Locks, Releasing
  <2>2. n \in Slots /\ slot[n] = 2 /\ R \in Nat /\ n = R % NumberOfSlots
    BY <2>1 DEF RingInvariant, TypeOK, OneForwarder, FreedInOrder
  <2>3. Len(freed) = R + 1
    BY <2>1 DEF Released, RingInvariant, TypeOK
  <2> QED BY <2>1, <2>2, <2>3, SlotAfter, OldestIsNext, ResultHandlerAssumption, ZenonT(30) DEF Full
<1>2. /\ slot' = [slot EXCEPT ![n] = -1] /\ pc' = [pc EXCEPT ![w] = "check"]
      /\ nextToForward' = IF n + 1 = NumberOfSlots THEN 0 ELSE n + 1
      /\ UNCHANGED <<result, latch, forwardLock, maxTaskId, task, oldVal, qry,
                     started, delivered, freed>>
  BY DEF releaseSlot, goto
<1>3. \A v \in Workers : (Locks(v) => v = w) /\ (v \in Forwarding => v = w)
  BY <1>1, ForwarderAlone
<1>4. n = nextToForward /\ R = Released
  OBVIOUS
<1> HIDE DEF n, R
<1>5. \A v \in Workers : pc'[v] = IF v = w THEN "check" ELSE pc[v]
  BY <1>2 DEF RingInvariant, TypeOK
<1>6. \A v \in Workers : /\ v \in Forwarding' <=> v \in Forwarding
                         /\ ~Locks(v)'
                         /\ ~Sends(v)'
                         /\ Holds(v)' <=> Holds(v)
                         /\ v \in Filling' <=> v \in Filling
                         /\ pc'[v] = "reserve" <=> pc[v] = "reserve"
                         /\ pc'[v] = "publish" <=> pc[v] = "publish"
                         /\ pc'[v] \notin {"forward", "free", "release"}
  <2>1. \A v \in Workers : pc[v] \in {"forward", "free", "release"} => v = w
    BY <1>3 DEF Locks
  <2> QED BY <1>1, <1>5, <2>1 DEF Forwarding, Locks, Sends, Holds, Filling
<1>7. nextToForward' = (R + 1) % NumberOfSlots /\ nextToForward' \in Slots
  <2>1. (R + 1) % NumberOfSlots = IF n + 1 < NumberOfSlots THEN n + 1 ELSE n + 1 - NumberOfSlots
    <3>1. 1 \in 0 .. NumberOfSlots
      BY <1>1
    <3>2. (R + 1) % NumberOfSlots = IF (R % NumberOfSlots) + 1 < NumberOfSlots
                                    THEN (R % NumberOfSlots) + 1
                                    ELSE (R % NumberOfSlots) + 1 - NumberOfSlots
      BY <3>1, <1>1, ModShift, Zenon
    <3> QED BY <3>2, <1>1, Zenon
  <2> QED BY <1>1, <1>2, <2>1 DEF Slots
<1>8. TypeOK'
  BY <1>1, <1>2, <1>7, ZenonT(30) DEF RingInvariant, TypeOK, pcLabels
<1>9. Released' = R + 1 /\ ~Releasing'
  BY <1>1, <1>2, <1>6 DEF Releasing, Released
<1>10. FreedInOrder'
  <2>1. \A id \in started : id \in Nat /\ id <= R + NumberOfSlots
    BY <1>4 DEF RingInvariant, TypeOK, TaskIds, FreedInOrder
  <2>2. \A id \in started : id <= R + 1 + NumberOfSlots
    BY <1>1, <2>1
  <2> QED BY <1>1, <1>2, <1>7, <1>9, <2>2 DEF RingInvariant, FreedInOrder
<1>11. \A t \in Slots : /\ slot'[t] # 2
                        /\ slot'[t] = 1 <=> slot[t] = 1
                        /\ slot'[t] = 0 <=> slot[t] = 0
                        /\ Full(t)' <=> Full(t) /\ t # n
  <2>1. \A t \in Slots : slot[t] = 2 => t = n
    BY <1>4 DEF RingInvariant, OneForwarder
  <2>2. \A t \in Slots : slot'[t] = IF t = n THEN -1 ELSE slot[t]
    BY <1>1, <1>2 DEF RingInvariant, TypeOK
  <2> QED BY <1>1, <2>1, <2>2 DEF Full
<1>12. OneForwarder'
  BY <1>2, <1>6, <1>7, <1>11 DEF RingInvariant, OneForwarder
<1>13. OneHolder'
  <2>1. ASSUME NEW v \in Workers, Holds(v) PROVE R + 1 < task[v].id
    <3>1. R < task[v].id /\ task[v].id \in Nat /\ R \in Nat
      BY <2>1, <1>1, <1>4, HeldTask
    <3>2. task[v].id # R + 1
      BY <2>1, <1>1 DEF RingInvariant, OneHolder, Full
    <3> QED BY <3>1, <3>2
  <2>2. ASSUME NEW t \in Slots, Full(t), t # n PROVE R + 1 < result[t]
    <3>1. R < result[t] /\ result[t] \in Nat /\ idx(result[t]) = t
      BY <2>2, <1>4 DEF RingInvariant, TypeOK, OneHolder
    <3>2. result[t] # R + 1 /\ R \in Nat
      BY <2>2, <3>1, <1>1
    <3> QED BY <3>1, <3>2
  <2>3. OneHolder /\ UNCHANGED <<result, task, started>>
    BY <1>2 DEF RingInvariant
  <2>4. \A v \in Workers : Holds(v)' <=> Holds(v)
    BY <1>6
  <2> QED BY <1>9, <1>11, <2>1, <2>2, <2>3, <2>4 DEF OneHolder, idx
<1>14. FillingMarked'
  <2>1. \A v \in Workers : v \in Filling => idx(task[v].id) \in Slots
    <3>1. SUFFICES ASSUME NEW v \in Workers, v \in Filling
                   PROVE  idx(task[v].id) \in Slots
      OBVIOUS
    <3> QED BY <3>1, HeldTask DEF Filling, Holds
  <2>2. (\A v \in Filling : v \in Workers) /\ \A v \in Filling' : v \in Workers
    BY DEF Filling
  <2>3. \A v \in Filling' : v \in Filling /\ idx(task[v].id) \in Slots
    BY <1>6, <2>1, <2>2
  <2>4. \A v \in Filling : v \in Filling'
    BY <1>6, <2>2
  <2>5. FillingMarked /\ UNCHANGED <<result, latch, task, oldVal>>
    BY <1>2 DEF RingInvariant
  <2>6. \A v \in Filling' : slot'[idx(task'[v].id)] = 0
    BY <1>11, <2>3, <2>5 DEF FillingMarked
  <2>7. \A t \in Slots : slot'[t] = 0 => \E v \in Filling' : idx(task'[v].id) = t
    BY <1>11, <2>4, <2>5 DEF FillingMarked
  <2> QED BY <1>6, <2>5, <2>6, <2>7 DEF FillingMarked, idx
<1>15. LatchCounts'
  <2>1. \A d \in Downstream : HasTurn(d)' <=> HasTurn(d)
    BY <1>2 DEF HasTurn, Turn
  <2>2. \A d \in Downstream : ~HasTurn(d)
    BY <1>1 DEF RingInvariant, LatchCounts
  <2>3. \A t \in Slots : slot[t] = 1 => latch[t] = 0
    <3>1. LatchCounts /\ slot[n] # 1
      BY <1>1 DEF RingInvariant
    <3> QED BY <1>4, <3>1 DEF LatchCounts
  <2>4. \A d \in Downstream : ~(d <= 0)
    BY DEF Downstream
  <2>5. LatchCounts /\ Turn' = Turn /\ UNCHANGED <<latch, delivered>>
    BY <1>2 DEF RingInvariant, Turn
  <2>6. \A t \in Slots : slot'[t] = 1 => latch'[t] = 0
    BY <1>11, <2>3, <2>5
  <2>7. nextToForward' \in Slots
    BY <1>7
  <2>8. \A d \in Downstream :
           HasTurn(d)' <=> slot'[nextToForward'] = 1 /\ d <= latch'[nextToForward']
    BY <2>1, <2>2, <2>4, <2>6, <2>7
  <2> QED BY <1>6, <1>9, <2>5, <2>6, <2>8 DEF LatchCounts
<1> QED BY <1>8, <1>10, <1>12, <1>13, <1>14, <1>15 DEF RingInvariant
============================================================================
