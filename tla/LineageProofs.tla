---------------------------- MODULE LineageProofs ----------------------------
(***************************************************************************)
(* The lineage of a pipeline for every number of slots, size of batch and   *)
(* set of lengths that Sizes allows: the upstream log is freed neither      *)
(* before the results computed from it have been forwarded nor never.       *)
(***************************************************************************)
EXTENDS Lineage, ModArithmetic

\* Max of a pair.
LEMMA MaxOfPair ==
    ASSUME NEW a \in Int, NEW b \in Int
    PROVE  Max({a, b}) = IF a < b THEN b ELSE a
<1> DEFINE m == IF a < b THEN b ELSE a
<1>1. m \in {a, b} /\ \A y \in {a, b} : m >= y
  OBVIOUS
<1>2. \A x \in {a, b} : (\A y \in {a, b} : x >= y) => x = m
  OBVIOUS
<1> QED BY <1>1, <1>2 DEF Max

\* A range holds its upper end.
LEMMA LastOfRange ==
    ASSUME NEW a \in Nat, NEW b \in Nat, a + 1 <= b
    PROVE  b \in a + 1 .. b
OBVIOUS

\* Slots returned: d of them, for at least d batches.
LEMMA ReturnedBound ==
    ASSUME NEW size \in Nat, NEW put \in Nat, NEW a \in Nat, NEW b \in Nat, NEW empty \in Nat,
           NEW d \in Nat, a + d <= b, empty <= size - (put - a)
    PROVE  empty + d <= size - (put - b) /\ (b <= put => empty + d \in 0 .. size)
OBVIOUS

\* A queue that follows the tasks made grows by the tasks made.
LEMMA QueueGrows ==
    ASSUME NEW start \in Nat, NEW q \in Nat, NEW made \in Nat, NEW after \in Nat, NEW len,
           made = start + q, made <= after, len = q + (after - made)
    PROVE  len \in Nat /\ q <= len /\ after = start + len
OBVIOUS

\* What Append does to the elements.
LEMMA AppendElements ==
    ASSUME NEW S, NEW q \in Seq(S), NEW x \in S
    PROVE  /\ Append(q, x) \in Seq(S)
           /\ Len(Append(q, x)) = Len(q) + 1
           /\ \A i \in 1 .. Len(q) : Append(q, x)[i] = q[i]
           /\ Append(q, x)[Len(q) + 1] = x
OBVIOUS

\* What Tail does to the elements.
LEMMA TailElements ==
    ASSUME NEW S, NEW q \in Seq(S), q # <<>>
    PROVE  /\ Len(q) \in Nat \ {0} /\ Head(q) = q[1] /\ q[1] \in S
           /\ Tail(q) \in Seq(S)
           /\ Len(Tail(q)) = Len(q) - 1
           /\ \A i \in 1 .. Len(q) - 1 : Tail(q)[i] = q[i + 1]
OBVIOUS

\* What \o does to the elements.
LEMMA ConcatElements ==
    ASSUME NEW S, NEW q \in Seq(S), NEW n \in Nat, NEW f \in [1 .. n -> S]
    PROVE  /\ q \o f \in Seq(S)
           /\ Len(q \o f) = Len(q) + n
           /\ \A i \in 1 .. Len(q) + n : (q \o f)[i] = IF i <= Len(q) THEN q[i] ELSE f[i - Len(q)]
<1>1. f \in Seq(S) /\ Len(f) = n
  OBVIOUS
<1> QED BY <1>1

\* The types, one fact each.
LEMMA Types ==
    ASSUME Sizes, IInv
    PROVE  /\ InSlots \in Nat /\ OutSlots \in Nat \ {0} /\ BatchUnits \in Nat \ {0} /\ MaxIn \in Nat
           /\ NoGraph = -1
           /\ tasksIn \in Seq(1 .. MaxIn) /\ tasksOut \in Seq(NoGraph .. MaxIn) /\ lastUnit \in Seq(Nat)
           /\ slotGraph \in [0 .. OutSlots - 1 -> NoGraph .. MaxIn]
           /\ emptyIn \in Nat /\ startIn \in Nat /\ logStart \in Nat /\ putIn \in Nat
           /\ putIn <= MaxIn
           /\ heldGraph \in NoGraph .. MaxIn
           /\ endOut \in Nat /\ startOut \in Nat /\ tasksMade \in Nat
           /\ sent \in Nat /\ sent <= MaxIn
           /\ filling \in NoGraph .. MaxIn /\ tasksMade % OutSlots \in 0 .. OutSlots - 1
<1>1. InSlots \in Nat /\ OutSlots \in Nat \ {0} /\ BatchUnits \in Nat \ {0} /\ MaxIn \in Nat
  BY DEF Sizes
<1>2. NoGraph = -1
  BY DEF NoGraph
<1>3. /\ tasksIn \in Seq(1 .. MaxIn) /\ tasksOut \in Seq(NoGraph .. MaxIn) /\ lastUnit \in Seq(Nat)
      /\ slotGraph \in [0 .. OutSlots - 1 -> NoGraph .. MaxIn] /\ heldGraph \in NoGraph .. MaxIn
  BY DEF IInv, TypeOK
<1>4. emptyIn \in Nat /\ endOut \in Nat /\ startOut \in Nat /\ tasksMade \in Nat
  BY <1>1 DEF IInv, TypeOK
<1>5. startIn \in Nat /\ logStart \in Nat /\ putIn \in Nat /\ putIn <= MaxIn
  BY <1>1 DEF IInv, TypeOK
<1>6. putIn = sent + Len(tasksIn)
  BY DEF IInv, GraphsInv
<1>7. sent \in Nat /\ sent <= MaxIn
  <2>1. sent \in Nat /\ Len(tasksIn) \in Nat
    BY <1>3 DEF sent
  <2> QED BY <1>1, <1>5, <1>6, <2>1
<1>8. tasksMade % OutSlots \in 0 .. OutSlots - 1
  BY <1>1, <1>4, DivMod
<1>9. filling \in NoGraph .. MaxIn
  BY <1>3, <1>8 DEF filling
<1> QED BY <1>1, <1>2, <1>3, <1>4, <1>5, <1>7, <1>8, <1>9

\* A result makes tasks of the full batches, fewer than there are slots.
LEMMA TasksAfter ==
    ASSUME Sizes, IInv, NEW length \in Lengths
    PROVE  /\ length \in Nat /\ tasksAfter(length) \in Nat
           /\ tasksMade <= tasksAfter(length)
           /\ tasksAfter(length) < tasksMade + OutSlots
           /\ endOut + length <= (tasksAfter(length) + 1) * BatchUnits
<1> DEFINE e == tasksAfter(length)
           r == endOut % BatchUnits
           p == (endOut + length) % BatchUnits
<1>1. /\ length \in Nat /\ endOut \in Nat /\ tasksMade \in Nat /\ tasksMade = endOut \div BatchUnits
      /\ OutSlots \in Nat \ {0} /\ BatchUnits \in Nat \ {0}
      /\ length <= (OutSlots - 1) * BatchUnits
  <2>1. length \in Nat /\ length <= (OutSlots - 1) * BatchUnits
    BY DEF Sizes
  <2>2. tasksMade = endOut \div BatchUnits
    BY DEF IInv, GraphsInv
  <2> QED BY <2>1, <2>2, Types
<1>2. r \in 0 .. BatchUnits - 1 /\ endOut = BatchUnits * tasksMade + r
  <2>1. endOut \in Int
    BY <1>1
  <2> QED BY <1>1, <2>1, DivMod
<1>3. p \in 0 .. BatchUnits - 1 /\ e \in Int /\ endOut + length = BatchUnits * e + p
  <2>1. endOut + length \in Int
    BY <1>1
  <2> QED BY <1>1, <2>1, DivMod DEF tasksAfter
<1>4. e \in Nat /\ (tasksMade * BatchUnits <= endOut + length => tasksMade <= e)
  BY <1>1, DivLargest DEF tasksAfter
<1>5. tasksMade <= e
  BY <1>1, <1>2, <1>4
<1>6. e < tasksMade + OutSlots
  <2> SUFFICES ASSUME tasksMade + OutSlots <= e PROVE FALSE
    BY <1>1, <1>4
  <2>1. BatchUnits * (tasksMade + OutSlots) <= BatchUnits * e
    <3>1. CASE tasksMade + OutSlots = e
      BY <1>1, <1>4, <3>1
    <3>2. CASE tasksMade + OutSlots < e
      BY <1>1, <1>4, <3>2, MulMono
    <3> QED BY <1>1, <1>4, <3>1, <3>2
  <2>2. BatchUnits * (tasksMade + OutSlots)
          = BatchUnits * tasksMade + (OutSlots - 1) * BatchUnits + BatchUnits
    BY <1>1
  <2> HIDE DEF e, r, p
  <2> QED BY <1>1, <1>2, <1>3, <2>1, <2>2
<1>7. endOut + length <= (e + 1) * BatchUnits
  BY <1>1, <1>3
<1> QED BY <1>1, <1>4, <1>5, <1>6, <1>7

\* A non-empty result leaves its graph, which is the newest, alone in the slot
\* of the batch being filled; the graph that was there goes to the first of the
\* new tasks, and the others have none.
LEMMA ForwardInEffect ==
    ASSUME Sizes, IInv, NEW length \in Lengths, forwardIn(length)
    PROVE  /\ slotGraph' \in [0 .. OutSlots - 1 -> NoGraph .. MaxIn]
           /\ \A s \in 0 .. OutSlots - 1 :
                slotGraph'[s] = IF s = tasksMade' % OutSlots THEN sent + 1 ELSE NoGraph
           /\ tasksOut' \in Seq(NoGraph .. MaxIn)
           /\ Len(tasksOut') = Len(tasksOut) + (tasksMade' - tasksMade)
           /\ \A i \in 1 .. Len(tasksOut') :
                tasksOut'[i] = IF i <= Len(tasksOut) THEN tasksOut[i]
                               ELSE IF i = Len(tasksOut) + 1 THEN filling ELSE NoGraph
<1> DEFINE e == tasksAfter(length)
           z == tasksMade % OutSlots
           y == e % OutSlots
           graphs == slotGraphs(length, mergeGraphs(Head(tasksIn), heldGraph))
           slots == {t % OutSlots : t \in tasksMade .. e - 1}
           n == e - tasksMade
           taken(i) == graphs[(tasksMade + i - 1) % OutSlots]
           added == [i \in 1 .. n |-> taken(i)]
<1> HIDE DEF e, z, y, graphs, slots, n, taken, added
<1>1. /\ e \in Nat /\ tasksMade \in Nat /\ tasksMade <= e /\ e < tasksMade + OutSlots
      /\ OutSlots \in Nat \ {0} /\ MaxIn \in Nat /\ NoGraph = -1
  BY TasksAfter, Types DEF e
<1>2. /\ sent \in Nat /\ sent + 1 \in 1 .. MaxIn
      /\ mergeGraphs(Head(tasksIn), heldGraph) = sent + 1
  <2>1. /\ tasksIn \in Seq(1 .. MaxIn) /\ tasksIn # <<>> /\ sent \in Nat
        /\ heldGraph \in NoGraph .. MaxIn /\ NoGraph = -1
        /\ heldGraph # NoGraph => heldGraph = sent
        /\ \A i \in 1 .. Len(tasksIn) : tasksIn[i] = sent + i
    <3>1. tasksIn # <<>>
      BY DEF forwardIn
    <3>2. /\ heldGraph # NoGraph => heldGraph = sent
          /\ \A i \in 1 .. Len(tasksIn) : tasksIn[i] = sent + i
      BY DEF IInv, GraphsInv
    <3> QED BY <3>1, <3>2, Types
  <2>2. Head(tasksIn) = sent + 1 /\ sent + 1 \in 1 .. MaxIn
    <3>1. /\ Len(tasksIn) \in Nat \ {0}
          /\ Head(tasksIn) = tasksIn[1] /\ tasksIn[1] \in 1 .. MaxIn
      BY <2>1, TailElements
    <3> QED BY <2>1, <3>1
  <2>3. /\ Head(tasksIn) \in Int /\ heldGraph \in Int
        /\ ~ (Head(tasksIn) < heldGraph)
    BY <1>1, <2>1, <2>2
  <2>4. Max({Head(tasksIn), heldGraph}) = Head(tasksIn)
    BY <2>3, MaxOfPair
  <2> QED BY <2>1, <2>2, <2>4 DEF mergeGraphs
<1>3. /\ z \in 0 .. OutSlots - 1 /\ y \in 0 .. OutSlots - 1
      /\ \A t \in Nat : t % OutSlots \in 0 .. OutSlots - 1
  <2>1. \A t \in Nat : t % OutSlots \in 0 .. OutSlots - 1
    <3> TAKE t \in Nat
    <3>1. t \in Int
      OBVIOUS
    <3> QED BY <1>1, <3>1, DivMod
  <2> QED BY <1>1, <2>1 DEF y, z
<1>4. /\ slotGraph \in [0 .. OutSlots - 1 -> NoGraph .. MaxIn]
      /\ filling = slotGraph[z]
      /\ \A s \in 0 .. OutSlots - 1 : s # z => slotGraph[s] = NoGraph
      /\ filling \in NoGraph .. sent
  <2>1. OnItsWay(filling) /\ \A s \in 0 .. OutSlots - 1 : s # z => slotGraph[s] = NoGraph
    BY DEF IInv, GraphsInv, z
  <2>2. filling = slotGraph[z]
    BY DEF filling, z
  <2>3. filling \in NoGraph .. sent
    <3>1. startIn \in Nat /\ sent \in Nat /\ NoGraph = -1
      BY Types
    <3> QED BY <2>1, <3>1 DEF OnItsWay
  <2> QED BY <2>1, <2>2, <2>3, Types
<1>5. \A t \in tasksMade .. e - 1 : t % OutSlots # y
  <2> TAKE t \in tasksMade .. e - 1
  <2>1. t \in Nat /\ t < e /\ e < t + OutSlots
    BY <1>1
  <2> QED BY <1>1, <2>1, ModDistinct DEF y
<1>6. \A t \in tasksMade + 1 .. e - 1 : t % OutSlots # z
  <2> TAKE t \in tasksMade + 1 .. e - 1
  <2>1. t \in Nat /\ tasksMade < t /\ t < tasksMade + OutSlots
    BY <1>1
  <2> QED BY <1>1, <2>1, ModDistinct DEF z
<1>7. slots \subseteq 0 .. OutSlots - 1 /\ y \notin slots /\ (tasksMade < e => z \in slots)
  <2>1. \A t \in tasksMade .. e - 1 : t \in Nat
    BY <1>1
  <2>2. slots \subseteq 0 .. OutSlots - 1
    BY <1>3, <2>1 DEF slots
  <2>3. y \notin slots
    BY <1>5 DEF slots
  <2>4. ASSUME tasksMade < e PROVE z \in slots
    <3>1. tasksMade \in tasksMade .. e - 1
      BY <1>1, <2>4
    <3> QED BY <3>1 DEF slots, z
  <2> QED BY <2>2, <2>3, <2>4
<1>8. graphs = [slotGraph EXCEPT ![y] = sent + 1]
  <2>1. slotGraph[y] \in NoGraph .. sent
    <3>1. CASE y = z
      BY <1>4, <3>1
    <3>2. CASE y # z
      <4>1. slotGraph[y] = NoGraph
        BY <1>3, <1>4, <3>2
      <4> QED BY <1>1, <1>2, <4>1
    <3> QED BY <3>1, <3>2
  <2>2. slotGraph[y] \in Int /\ sent + 1 \in Int /\ slotGraph[y] < sent + 1
    BY <1>1, <1>2, <2>1
  <2>3. Max({slotGraph[y], sent + 1}) = sent + 1
    BY <2>2, MaxOfPair
  <2>4. endSlot(length) = y
    BY DEF endSlot, y, e
  <2>5. graphs = [slotGraph EXCEPT ![y] = Max({slotGraph[y], sent + 1})]
    BY <1>2, <2>4 DEF slotGraphs, mergeGraphs, graphs
  <2> QED BY <2>3, <2>5
<1>9. /\ graphs \in [0 .. OutSlots - 1 -> NoGraph .. MaxIn]
      /\ \A s \in 0 .. OutSlots - 1 : graphs[s] = IF s = y THEN sent + 1 ELSE slotGraph[s]
  <2>1. sent + 1 \in NoGraph .. MaxIn
    BY <1>1, <1>2
  <2> QED BY <1>3, <1>4, <1>8, <2>1
<1>10. /\ tasksMade' = e
       /\ tasksOut' = tasksOut \o added
       /\ slotGraph' = [s \in 0 .. OutSlots - 1 |-> IF s \in slots THEN NoGraph ELSE graphs[s]]
  <2>1. DOMAIN graphs = 0 .. OutSlots - 1
    BY <1>9
  <2> QED BY <2>1 DEF forwardIn, graphs, e, n, taken, added, slots
<1>11. slotGraph' \in [0 .. OutSlots - 1 -> NoGraph .. MaxIn]
  BY <1>1, <1>9, <1>10
<1>12. \A s \in 0 .. OutSlots - 1 : slotGraph'[s] = IF s = y THEN sent + 1 ELSE NoGraph
  <2> TAKE s \in 0 .. OutSlots - 1
  <2>1. CASE s = y
    BY <1>7, <1>9, <1>10, <2>1
  <2>2. CASE s # y /\ s \notin slots
    <3>1. s # z
      <4>1. CASE tasksMade < e
        BY <1>7, <2>2, <4>1
      <4>2. CASE tasksMade = e
        BY <2>2, <4>2 DEF z, y
      <4> QED BY <1>1, <4>1, <4>2
    <3> QED BY <1>4, <1>9, <1>10, <2>2, <3>1
  <2>3. CASE s # y /\ s \in slots
    BY <1>10, <2>3
  <2> QED BY <2>1, <2>2, <2>3
<1>13. \A i \in 1 .. n : taken(i) \in NoGraph .. MaxIn /\ taken(i) = IF i = 1 THEN filling ELSE NoGraph
  <2> TAKE i \in 1 .. n
  <2>1. tasksMade + i - 1 \in tasksMade .. e - 1 /\ tasksMade + i - 1 \in Nat
    BY <1>1 DEF n
  <2>2. /\ (tasksMade + i - 1) % OutSlots \in 0 .. OutSlots - 1
        /\ (tasksMade + i - 1) % OutSlots # y
    BY <1>3, <1>5, <2>1
  <2>3. CASE i = 1
    <3>1. (tasksMade + i - 1) % OutSlots = z
      BY <1>1, <2>3 DEF z
    <3> QED BY <1>3, <1>4, <1>9, <2>2, <2>3, <3>1 DEF taken
  <2>4. CASE i # 1
    <3>1. tasksMade + i - 1 \in tasksMade + 1 .. e - 1
      BY <1>1, <2>4 DEF n
    <3>2. (tasksMade + i - 1) % OutSlots # z
      BY <1>6, <3>1
    <3> QED BY <1>3, <1>4, <1>9, <2>2, <2>4, <3>2 DEF taken
  <2> QED BY <2>3, <2>4
<1>14. n \in Nat /\ added \in [1 .. n -> NoGraph .. MaxIn]
  BY <1>1, <1>13 DEF n, added
<1>15. tasksOut \in Seq(NoGraph .. MaxIn)
  BY Types
<1>16. /\ tasksOut' \in Seq(NoGraph .. MaxIn)
       /\ Len(tasksOut') = Len(tasksOut) + n
       /\ \A i \in 1 .. Len(tasksOut) + n :
            tasksOut'[i] = IF i <= Len(tasksOut) THEN tasksOut[i] ELSE added[i - Len(tasksOut)]
  <2>1. /\ tasksOut \o added \in Seq(NoGraph .. MaxIn)
        /\ Len(tasksOut \o added) = Len(tasksOut) + n
        /\ \A i \in 1 .. Len(tasksOut) + n :
             (tasksOut \o added)[i] = IF i <= Len(tasksOut) THEN tasksOut[i] ELSE added[i - Len(tasksOut)]
    <3> DEFINE G == NoGraph .. MaxIn
    <3>1. tasksOut \in Seq(G) /\ n \in Nat /\ added \in [1 .. n -> G]
      BY <1>14, <1>15
    <3> HIDE DEF G
    <3>2. /\ tasksOut \o added \in Seq(G)
          /\ Len(tasksOut \o added) = Len(tasksOut) + n
          /\ \A i \in 1 .. Len(tasksOut) + n :
               (tasksOut \o added)[i] = IF i <= Len(tasksOut) THEN tasksOut[i] ELSE added[i - Len(tasksOut)]
      BY <3>1, ConcatElements
    <3> QED BY <3>2 DEF G
  <2> QED BY <1>10, <2>1
<1>17. \A i \in 1 .. Len(tasksOut') :
         tasksOut'[i] = IF i <= Len(tasksOut) THEN tasksOut[i]
                        ELSE IF i = Len(tasksOut) + 1 THEN filling ELSE NoGraph
  <2> TAKE i \in 1 .. Len(tasksOut')
  <2>1. Len(tasksOut) \in Nat /\ i \in Nat
    BY <1>15, <1>16
  <2>2. CASE i <= Len(tasksOut)
    BY <1>16, <2>2
  <2>3. CASE i > Len(tasksOut)
    <3>1. i - Len(tasksOut) \in 1 .. n
      BY <1>1, <1>14, <1>16, <2>1, <2>3
    <3>2. tasksOut'[i] = added[i - Len(tasksOut)]
      BY <1>16, <2>1, <2>3
    <3> QED BY <1>13, <2>1, <2>3, <3>1, <3>2 DEF added
  <2> QED BY <2>1, <2>2, <2>3
<1> QED BY <1>10, <1>11, <1>12, <1>16, <1>17 DEF y, n

\* The invariant holds when the buffers are empty.
LEMMA InitIInv ==
    ASSUME Sizes, Init
    PROVE  IInv
<1>1. InSlots \in Nat /\ OutSlots \in Nat \ {0} /\ BatchUnits \in Nat \ {0} /\ MaxIn \in Nat
  BY DEF Sizes
<1>2. sent = 0 /\ lastUnit \in Seq(Nat) /\ Len(tasksIn) = 0 /\ Len(tasksOut) = 0
  BY DEF Init, sent
<1>3. TypeOK
  BY <1>1 DEF Init, TypeOK, NoGraph
<1>4. 0 \div BatchUnits = 0
  BY <1>1, DivMultiple
<1>5. 0 % OutSlots \in 0 .. OutSlots - 1
  BY <1>1, DivMod
<1>6. filling = NoGraph
  BY <1>5 DEF Init, filling
<1>7. GraphsInv
  BY <1>1, <1>2, <1>4, <1>6 DEF Init, GraphsInv, OnItsWay
<1>8. LineageExact
  BY <1>1, <1>2 DEF Init, LineageExact, FreedAfterResults, SlotsReturnedOnce, OffsetsAccounted, sent
<1> QED BY <1>2, <1>3, <1>7, <1>8 DEF IInv

\* put and newTaskFor preserve the invariant.
LEMMA DispatchInStep ==
    ASSUME Sizes, IInv, dispatchIn
    PROVE  IInv'
<1>0. /\ MaxIn \in Nat /\ InSlots \in Nat /\ OutSlots \in Nat \ {0} /\ BatchUnits \in Nat \ {0} /\ NoGraph = -1
      /\ tasksIn \in Seq(1 .. MaxIn) /\ lastUnit \in Seq(Nat) /\ sent \in Nat /\ endOut \in Nat
      /\ emptyIn \in Nat /\ putIn \in Nat /\ putIn <= MaxIn /\ startIn \in Nat /\ startOut \in Nat
  BY Types
<1>1. /\ UNCHANGED <<startIn, logStart, heldGraph, slotGraph, endOut, startOut, tasksOut, tasksMade, lastUnit>>
      /\ putIn' = putIn + 1 /\ emptyIn' = emptyIn - 1 /\ putIn < MaxIn /\ emptyIn > 0
      /\ tasksIn' = Append(tasksIn, putIn + 1)
  BY <1>0 DEF dispatchIn
<1>2. sent' = sent /\ filling' = filling /\ \A g : OnItsWay(g)' <=> OnItsWay(g)
  BY <1>0, <1>1 DEF sent, filling, OnItsWay
<1>3. /\ tasksIn' \in Seq(1 .. MaxIn) /\ Len(tasksIn') = Len(tasksIn) + 1
      /\ \A i \in 1 .. Len(tasksIn) : tasksIn'[i] = tasksIn[i]
      /\ tasksIn'[Len(tasksIn) + 1] = putIn + 1
  <2>1. putIn + 1 \in 1 .. MaxIn
    BY <1>0, <1>1
  <2> QED BY <1>0, <1>1, <2>1, AppendElements
<1>4. TypeOK'
  BY <1>0, <1>1, <1>3 DEF IInv, TypeOK
<1>5. putIn' = sent' + Len(tasksIn') /\ \A i \in 1 .. Len(tasksIn') : tasksIn'[i] = sent' + i
  <2>1. /\ putIn = sent + Len(tasksIn) /\ Len(tasksIn) \in Nat
        /\ \A i \in 1 .. Len(tasksIn) : tasksIn[i] = sent + i
    BY <1>0 DEF IInv, GraphsInv
  <2> QED BY <1>0, <1>1, <1>2, <1>3, <2>1
<1>6. GraphsInv'
  BY <1>0, <1>1, <1>2, <1>5 DEF IInv, GraphsInv, OnItsWay, NoGraph
<1>7. LineageExact'
  BY <1>0, <1>1 DEF IInv, LineageExact, FreedAfterResults, SlotsReturnedOnce, OffsetsAccounted
<1> QED BY <1>0, <1>1, <1>4, <1>6, <1>7 DEF IInv

\* The oldest upstream task leaves; the result it stands for ends at u.
Sends(u) ==
    /\ tasksIn # <<>> /\ tasksIn' = Tail(tasksIn)
    /\ endOut' = u /\ lastUnit' = Append(lastUnit, u)
    /\ UNCHANGED <<putIn, startIn, logStart, startOut, emptyIn>>

\* What that leaves of the invariant.
LEMMA SentTask ==
    ASSUME Sizes, IInv, NEW u \in Nat, endOut <= u, Sends(u)
    PROVE  /\ Head(tasksIn) = sent + 1 /\ sent' = sent + 1 /\ sent' \in 1 .. MaxIn
           /\ tasksIn' \in Seq(1 .. MaxIn) /\ lastUnit' \in Seq(Nat)
           /\ \A k \in 1 .. sent : lastUnit'[k] = lastUnit[k]
           /\ startIn' = logStart' /\ startIn' <= sent'
           /\ putIn' = sent' + Len(tasksIn')
           /\ \A i \in 1 .. Len(tasksIn') : tasksIn'[i] = sent' + i
           /\ \A k \in 1 .. sent' : lastUnit'[k] <= endOut'
           /\ \A j, k \in 1 .. sent' : j <= k => lastUnit'[j] <= lastUnit'[k]
           /\ FreedAfterResults' /\ SlotsReturnedOnce'
<1>0. /\ MaxIn \in Nat /\ InSlots \in Nat /\ OutSlots \in Nat \ {0} /\ BatchUnits \in Nat \ {0} /\ NoGraph = -1
      /\ tasksIn \in Seq(1 .. MaxIn) /\ lastUnit \in Seq(Nat) /\ sent \in Nat /\ endOut \in Nat
      /\ emptyIn \in Nat /\ putIn \in Nat /\ putIn <= MaxIn /\ startIn \in Nat /\ startOut \in Nat
  BY Types
<1>1. /\ Len(tasksIn) \in Nat \ {0} /\ Head(tasksIn) = tasksIn[1] /\ tasksIn[1] \in 1 .. MaxIn
      /\ tasksIn' \in Seq(1 .. MaxIn) /\ Len(tasksIn') = Len(tasksIn) - 1
      /\ \A i \in 1 .. Len(tasksIn) - 1 : tasksIn'[i] = tasksIn[i + 1]
  BY <1>0, TailElements DEF Sends
<1>2. /\ lastUnit' \in Seq(Nat) /\ sent' = sent + 1
      /\ \A k \in 1 .. sent : lastUnit'[k] = lastUnit[k]
      /\ lastUnit'[sent + 1] = u
  BY <1>0, AppendElements DEF Sends, sent
<1>3. /\ putIn = sent + Len(tasksIn) /\ \A i \in 1 .. Len(tasksIn) : tasksIn[i] = sent + i
      /\ startIn = logStart /\ startIn <= sent
      /\ \A k \in 1 .. sent : lastUnit[k] <= endOut
      /\ \A j, k \in 1 .. sent : j <= k => lastUnit[j] <= lastUnit[k]
  BY DEF IInv, GraphsInv
<1>4. /\ putIn' = putIn /\ startIn' = startIn /\ logStart' = logStart
      /\ startOut' = startOut /\ emptyIn' = emptyIn /\ endOut' = u
  BY DEF Sends
<1>5. Head(tasksIn) = sent + 1 /\ sent' \in 1 .. MaxIn
  BY <1>0, <1>1, <1>2, <1>3
<1>6. putIn' = sent' + Len(tasksIn') /\ \A i \in 1 .. Len(tasksIn') : tasksIn'[i] = sent' + i
  <2>1. putIn' = sent' + Len(tasksIn')
    BY <1>0, <1>1, <1>2, <1>3, <1>4
  <2>2. ASSUME NEW i \in 1 .. Len(tasksIn') PROVE tasksIn'[i] = sent' + i
    <3>1. i \in Nat /\ i \in 1 .. Len(tasksIn) - 1 /\ i + 1 \in 1 .. Len(tasksIn)
      BY <1>1
    <3>2. tasksIn'[i] = sent + (i + 1)
      BY <1>1, <1>3, <3>1
    <3> QED BY <1>0, <1>2, <3>1, <3>2
  <2> QED BY <2>1, <2>2
<1>7. \A k \in 1 .. sent' : lastUnit'[k] \in Nat /\ lastUnit'[k] <= endOut'
  <2> TAKE k \in 1 .. sent'
  <2>1. CASE k = sent + 1
    BY <1>2, <1>4, <2>1
  <2>2. CASE k # sent + 1
    <3>1. k \in 1 .. sent /\ lastUnit[k] \in Nat
      BY <1>0, <1>2, <2>2 DEF sent
    <3>2. lastUnit'[k] = lastUnit[k] /\ lastUnit[k] <= endOut
      BY <1>2, <1>3, <3>1
    <3> QED BY <1>0, <1>4, <3>1, <3>2
  <2> QED BY <1>0, <2>1, <2>2
<1>8. \A j, k \in 1 .. sent' : j <= k => lastUnit'[j] <= lastUnit'[k]
  <2> SUFFICES ASSUME NEW j \in 1 .. sent', NEW k \in 1 .. sent', j <= k
               PROVE  lastUnit'[j] <= lastUnit'[k]
    OBVIOUS
  <2>1. CASE k = sent + 1
    BY <1>2, <1>7, <1>4, <2>1
  <2>2. CASE k # sent + 1
    <3>1. k \in 1 .. sent /\ j \in 1 .. sent
      BY <1>0, <1>2, <2>2
    <3> QED BY <1>0, <1>2, <1>3, <3>1
  <2> QED BY <1>0, <2>1, <2>2
<1>9. FreedAfterResults'
  <2>1. \A k \in 1 .. logStart : k <= sent /\ lastUnit[k] <= startOut * BatchUnits
    BY DEF IInv, LineageExact, FreedAfterResults, sent
  <2>2. \A k \in 1 .. logStart : k \in 1 .. sent
    BY <1>0, <2>1
  <2>3. \A k \in 1 .. logStart' : k <= sent' /\ lastUnit'[k] <= startOut' * BatchUnits
    BY <1>0, <1>2, <1>4, <2>1, <2>2
  <2> QED BY <1>0, <2>3 DEF FreedAfterResults, sent
<1>10. SlotsReturnedOnce'
  BY <1>4 DEF IInv, LineageExact, SlotsReturnedOnce
<1>11. startIn' = logStart' /\ startIn' <= sent'
  BY <1>0, <1>2, <1>3, <1>4
<1> QED BY <1>1, <1>2, <1>5, <1>6, <1>7, <1>8, <1>9, <1>10, <1>11

\* An empty result, whose graph is held, preserves the invariant.
LEMMA HoldGraphStep ==
    ASSUME Sizes, IInv, holdGraph
    PROVE  IInv'
<1>0. /\ MaxIn \in Nat /\ OutSlots \in Nat \ {0} /\ NoGraph = -1
      /\ tasksOut \in Seq(NoGraph .. MaxIn) /\ slotGraph \in [0 .. OutSlots - 1 -> NoGraph .. MaxIn]
      /\ sent \in Nat /\ endOut \in Nat /\ startIn \in Nat
      /\ heldGraph \in NoGraph .. MaxIn /\ filling \in NoGraph .. MaxIn
  BY Types
<1>1. /\ Sends(endOut)
      /\ UNCHANGED <<slotGraph, tasksOut, tasksMade>>
      /\ heldGraph' = mergeGraphs(heldGraph, Head(tasksIn))
  BY DEF holdGraph, Sends
<1>2. /\ Head(tasksIn) = sent + 1 /\ sent' = sent + 1 /\ sent' \in 1 .. MaxIn
      /\ tasksIn' \in Seq(1 .. MaxIn) /\ lastUnit' \in Seq(Nat)
      /\ \A k \in 1 .. sent : lastUnit'[k] = lastUnit[k]
      /\ startIn' = logStart' /\ startIn' <= sent'
      /\ putIn' = sent' + Len(tasksIn')
      /\ \A i \in 1 .. Len(tasksIn') : tasksIn'[i] = sent' + i
      /\ \A k \in 1 .. sent' : lastUnit'[k] <= endOut'
      /\ \A j, k \in 1 .. sent' : j <= k => lastUnit'[j] <= lastUnit'[k]
      /\ FreedAfterResults' /\ SlotsReturnedOnce'
  BY <1>0, <1>1, SentTask
<1>3. /\ startIn' = startIn /\ startOut' = startOut /\ endOut' = endOut /\ putIn' = putIn
      /\ logStart' = logStart /\ emptyIn' = emptyIn
  BY <1>1 DEF Sends
<1>4. filling' = filling /\ heldGraph' = sent'
  <2>1. heldGraph # NoGraph => heldGraph = sent
    BY DEF IInv, GraphsInv
  <2>2. heldGraph \in Int /\ sent + 1 \in Int /\ heldGraph < sent + 1
    BY <1>0, <2>1
  <2>3. Max({heldGraph, sent + 1}) = sent + 1
    BY <2>2, MaxOfPair
  <2> QED BY <1>1, <1>2, <2>3 DEF filling, mergeGraphs
<1>5. TypeOK'
  <2>1. heldGraph' \in NoGraph .. MaxIn
    BY <1>0, <1>2, <1>4
  <2>2. TypeOK /\ UNCHANGED <<slotGraph, tasksOut, tasksMade, emptyIn, startIn, logStart, putIn, endOut, startOut>>
    BY <1>1, <1>3 DEF IInv
  <2> QED BY <1>2, <2>1, <2>2, SMTT(30) DEF TypeOK, NoGraph
<1>6. /\ OnItsWay(filling)
      /\ \A i \in 1 .. Len(tasksOut) :
           /\ tasksOut[i] \in NoGraph .. MaxIn /\ OnItsWay(tasksOut[i])
           /\ tasksOut[i] # NoGraph => lastUnit[tasksOut[i]] <= (startOut + i) * BatchUnits
           /\ filling # NoGraph => tasksOut[i] < filling
           /\ \A j \in 1 .. i - 1 : tasksOut[i] # NoGraph => tasksOut[j] < tasksOut[i]
  <2>1. \A i \in 1 .. Len(tasksOut) : tasksOut[i] \in NoGraph .. MaxIn
    BY <1>0
  <2>2. /\ OnItsWay(filling)
        /\ \A i \in 1 .. Len(tasksOut) :
             /\ OnItsWay(tasksOut[i])
             /\ tasksOut[i] # NoGraph => lastUnit[tasksOut[i]] <= (startOut + i) * BatchUnits
             /\ filling # NoGraph => tasksOut[i] < filling
             /\ \A j \in 1 .. i - 1 : tasksOut[i] # NoGraph => tasksOut[j] < tasksOut[i]
    BY DEF IInv, GraphsInv
  <2> QED BY <2>1, <2>2
<1>7. OnItsWay(filling)' /\ filling' < sent'
  <2>1. filling = NoGraph \/ filling \in startIn + 1 .. sent
    BY <1>6 DEF OnItsWay
  <2>2. sent' = sent + 1 /\ startIn' = startIn /\ filling' = filling
    BY <1>2, <1>3, <1>4
  <2>3. filling' < sent' /\ (filling' = NoGraph \/ filling' \in startIn' + 1 .. sent')
    BY <1>0, <2>1, <2>2
  <2> QED BY <2>3 DEF OnItsWay, NoGraph
<1>8. \A i \in 1 .. Len(tasksOut') :
        /\ OnItsWay(tasksOut[i])'
        /\ tasksOut'[i] # NoGraph => lastUnit'[tasksOut'[i]] <= (startOut' + i) * BatchUnits
        /\ filling' # NoGraph => tasksOut'[i] < filling'
        /\ heldGraph' # NoGraph => tasksOut'[i] < heldGraph'
        /\ \A j \in 1 .. i - 1 : tasksOut'[i] # NoGraph => tasksOut'[j] < tasksOut'[i]
  <2>1. tasksOut' = tasksOut
    BY <1>1
  <2> SUFFICES ASSUME NEW i \in 1 .. Len(tasksOut)
               PROVE  /\ OnItsWay(tasksOut[i])'
                      /\ tasksOut[i] # NoGraph => lastUnit'[tasksOut[i]] <= (startOut + i) * BatchUnits
                      /\ filling # NoGraph => tasksOut[i] < filling
                      /\ tasksOut[i] < sent'
                      /\ \A j \in 1 .. i - 1 : tasksOut[i] # NoGraph => tasksOut[j] < tasksOut[i]
    BY <1>3, <1>4, <2>1
  <2> DEFINE g == tasksOut[i]
  <2>2. g \in NoGraph .. MaxIn /\ OnItsWay(g)
    BY <1>6
  <2>3. g = NoGraph \/ (g \in startIn' + 1 .. sent' /\ g \in 1 .. sent)
    <3> HIDE DEF g
    <3> QED BY <1>0, <1>2, <1>3, <2>2 DEF OnItsWay
  <2>4. OnItsWay(tasksOut[i])'
    <3>1. OnItsWay(tasksOut[i])' <=> (g = NoGraph \/ g \in startIn' + 1 .. sent')
      BY <2>1 DEF OnItsWay, NoGraph
    <3> HIDE DEF g
    <3> QED BY <2>3, <3>1
  <2>5. g < sent' /\ (g # NoGraph => lastUnit'[g] = lastUnit[g])
    <3> HIDE DEF g
    <3>1. sent' = sent + 1 /\ \A k \in 1 .. sent : lastUnit'[k] = lastUnit[k]
      BY <1>2
    <3> QED BY <1>0, <2>3, <3>1
  <2> QED BY <1>6, <2>4, <2>5
<1>9. GraphsInv'
  <2>1. /\ tasksMade' = endOut' \div BatchUnits
        /\ tasksMade' = startOut' + Len(tasksOut')
        /\ \A s \in 0 .. OutSlots - 1 : s # tasksMade' % OutSlots => slotGraph'[s] = NoGraph
    BY <1>1, <1>3 DEF IInv, GraphsInv
  <2>2. heldGraph' # NoGraph => heldGraph' = sent' /\ startIn' < sent' /\ filling' < sent'
    <3>1. startIn <= sent
      BY DEF IInv, GraphsInv
    <3> QED BY <1>0, <1>2, <1>3, <1>4, <1>7, <3>1
  <2> QED BY <1>2, <1>7, <1>8, <2>1, <2>2 DEF GraphsInv
<1>10. OffsetsAccounted'
  BY <1>4 DEF OffsetsAccounted, sent
<1> QED BY <1>2, <1>5, <1>9, <1>10 DEF IInv, LineageExact

\* The units put so far end in the batch that is being filled.
LEMMA FillingEnds ==
    ASSUME Sizes, IInv
    PROVE  endOut <= (tasksMade + 1) * BatchUnits
<1> DEFINE r == endOut % BatchUnits
<1>1. endOut \in Int /\ endOut \in Nat /\ BatchUnits \in Nat \ {0} /\ tasksMade \in Nat
  BY Types
<1>2. tasksMade = endOut \div BatchUnits
  BY DEF IInv, GraphsInv
<1>3. r \in 0 .. BatchUnits - 1 /\ endOut = BatchUnits * tasksMade + r
  BY <1>1, <1>2, DivMod
<1> HIDE DEF r
<1> QED BY <1>1, <1>3

\* A non-empty result, put downstream, preserves the invariant.
LEMMA ForwardInStep ==
    ASSUME Sizes, IInv, NEW length \in Lengths, forwardIn(length)
    PROVE  IInv'
<1> DEFINE n == Len(tasksOut)
<1>0. /\ MaxIn \in Nat /\ OutSlots \in Nat \ {0} /\ BatchUnits \in Nat \ {0} /\ NoGraph = -1
      /\ tasksOut \in Seq(NoGraph .. MaxIn) /\ n \in Nat
      /\ sent \in Nat /\ endOut \in Nat /\ startIn \in Nat /\ startOut \in Nat /\ tasksMade \in Nat
      /\ filling \in NoGraph .. MaxIn /\ lastUnit \in Seq(Nat)
  BY Types
<1>1. /\ length \in Nat /\ endOut + length \in Nat /\ endOut <= endOut + length
      /\ tasksAfter(length) \in Nat /\ tasksMade <= tasksAfter(length)
  BY <1>0, TasksAfter
<1>2. /\ Sends(endOut + length)
      /\ heldGraph' = NoGraph /\ tasksMade' = tasksAfter(length)
      /\ startIn' = startIn /\ startOut' = startOut /\ endOut' = endOut + length
      /\ putIn' = putIn /\ emptyIn' = emptyIn /\ logStart' = logStart
  BY DEF forwardIn, Sends
<1>3. /\ sent' = sent + 1 /\ sent' \in 1 .. MaxIn
      /\ tasksIn' \in Seq(1 .. MaxIn) /\ lastUnit' \in Seq(Nat)
      /\ \A k \in 1 .. sent : lastUnit'[k] = lastUnit[k]
      /\ startIn' = logStart' /\ startIn' <= sent'
      /\ putIn' = sent' + Len(tasksIn')
      /\ \A i \in 1 .. Len(tasksIn') : tasksIn'[i] = sent' + i
      /\ \A k \in 1 .. sent' : lastUnit'[k] <= endOut'
      /\ \A j, k \in 1 .. sent' : j <= k => lastUnit'[j] <= lastUnit'[k]
      /\ FreedAfterResults' /\ SlotsReturnedOnce'
  BY <1>1, <1>2, SentTask
<1>4. /\ slotGraph' \in [0 .. OutSlots - 1 -> NoGraph .. MaxIn]
      /\ \A s \in 0 .. OutSlots - 1 :
           slotGraph'[s] = IF s = tasksMade' % OutSlots THEN sent + 1 ELSE NoGraph
      /\ tasksOut' \in Seq(NoGraph .. MaxIn)
      /\ Len(tasksOut') = n + (tasksMade' - tasksMade)
      /\ \A i \in 1 .. Len(tasksOut') :
           tasksOut'[i] = IF i <= n THEN tasksOut[i] ELSE IF i = n + 1 THEN filling ELSE NoGraph
  BY ForwardInEffect
<1>5. tasksMade' % OutSlots \in 0 .. OutSlots - 1 /\ filling' = sent'
  <2>1. tasksMade' \in Int
    BY <1>1, <1>2
  <2>2. tasksMade' % OutSlots \in 0 .. OutSlots - 1
    BY <1>0, <2>1, DivMod
  <2> QED BY <1>3, <1>4, <2>2 DEF filling
<1>6. TypeOK'
  <2>1. {endOut', startOut', tasksMade'} \subseteq Nat
    BY <1>0, <1>1, <1>2
  <2>2. emptyIn' \in 0 .. InSlots /\ {startIn', logStart', putIn'} \subseteq 0 .. MaxIn
    BY <1>2 DEF IInv, TypeOK
  <2>3. heldGraph' \in NoGraph .. MaxIn
    BY <1>0, <1>2
  <2> QED BY <1>3, <1>4, <2>1, <2>2, <2>3 DEF TypeOK, NoGraph
<1>7. /\ startIn <= sent /\ OnItsWay(filling) /\ tasksMade = startOut + n
      /\ \A k \in 1 .. sent : lastUnit[k] <= endOut
      /\ \A i \in 1 .. n :
           /\ OnItsWay(tasksOut[i])
           /\ tasksOut[i] # NoGraph => lastUnit[tasksOut[i]] <= (startOut + i) * BatchUnits
           /\ filling # NoGraph => tasksOut[i] < filling
           /\ \A j \in 1 .. i - 1 : tasksOut[i] # NoGraph => tasksOut[j] < tasksOut[i]
  BY DEF IInv, GraphsInv
<1> HIDE DEF n
<1>8. /\ Len(tasksOut') \in Nat /\ n <= Len(tasksOut')
      /\ tasksMade' = startOut' + Len(tasksOut')
      /\ \A i \in 1 .. n : tasksOut'[i] = tasksOut[i]
  <2>1. Len(tasksOut') = n + (tasksMade' - tasksMade) /\ tasksMade' \in Nat /\ tasksMade <= tasksMade'
    BY <1>1, <1>2, <1>4
  <2>2. Len(tasksOut') \in Nat /\ n <= Len(tasksOut') /\ tasksMade' = startOut' + Len(tasksOut')
    <3>1. n \in Nat /\ startOut \in Nat /\ tasksMade \in Nat
      BY <1>0
    <3>2. startOut' = startOut /\ tasksMade = startOut + n
      BY <1>2, <1>7
    <3>3. /\ tasksMade' = tasksAfter(length) /\ tasksAfter(length) \in Nat
          /\ tasksMade <= tasksAfter(length)
          /\ Len(tasksOut') = n + (tasksAfter(length) - tasksMade)
      BY <1>1, <1>2, <2>1
    <3> QED BY <3>1, <3>2, <3>3, QueueGrows
  <2>3. \A i \in 1 .. n : i \in 1 .. Len(tasksOut') /\ i <= n
    BY <1>0, <2>2
  <2> QED BY <1>4, <2>2, <2>3
<1>9. ASSUME NEW i \in 1 .. Len(tasksOut')
      PROVE  \/ tasksOut'[i] = NoGraph
             \/ /\ tasksOut'[i] \in startIn' + 1 .. sent
                /\ lastUnit[tasksOut'[i]] <= (startOut' + i) * BatchUnits
                /\ \A j \in 1 .. i - 1 : tasksOut'[j] < tasksOut'[i]
  <2>1. Len(tasksOut') \in Nat /\ i \in Nat /\ i \in 1 .. Len(tasksOut')
    BY <1>8
  <2>2. CASE i <= n
    <3>1. i \in 1 .. n /\ tasksOut'[i] = tasksOut[i]
      BY <1>0, <1>8, <2>1, <2>2
    <3>2. \A j \in 1 .. i - 1 : tasksOut'[j] = tasksOut[j]
      BY <1>0, <1>8, <3>1
    <3> QED BY <1>2, <1>7, <3>1, <3>2 DEF OnItsWay
  <2>3. CASE i = n + 1
    <3>1. tasksOut'[i] = filling
      BY <1>0, <1>4, <2>1, <2>3
    <3>2. \A j \in 1 .. i - 1 : j \in 1 .. n /\ tasksOut'[j] = tasksOut[j]
      BY <1>0, <1>8, <2>3
    <3>3. ASSUME filling # NoGraph
          PROVE  filling \in startIn + 1 .. sent /\ lastUnit[filling] <= (startOut + i) * BatchUnits
      <4>1. filling \in startIn + 1 .. sent
        BY <1>7, <3>3 DEF OnItsWay
      <4>2. filling \in 1 .. sent /\ lastUnit[filling] \in Nat
        BY <1>0, <4>1 DEF sent
      <4>3. lastUnit[filling] <= endOut
        BY <1>7, <4>2
      <4>4. endOut <= (tasksMade + 1) * BatchUnits
        BY FillingEnds
      <4>5. startOut + i = tasksMade + 1
        BY <1>0, <1>7, <2>3
      <4>6. (tasksMade + 1) * BatchUnits \in Int
        BY <1>0
      <4>7. lastUnit[filling] <= (tasksMade + 1) * BatchUnits
        BY <1>0, <4>2, <4>3, <4>4, <4>6
      <4> QED BY <4>1, <4>5, <4>7
    <3> QED BY <1>2, <1>7, <3>1, <3>2, <3>3
  <2>4. CASE i > n + 1
    <3>1. ~ (i <= n) /\ i # n + 1
      BY <1>0, <2>1, <2>4
    <3> QED BY <1>4, <2>1, <3>1
  <2> QED BY <1>0, <2>1, <2>2, <2>3, <2>4
<1>10. \A i \in 1 .. Len(tasksOut') : tasksOut'[i] \in NoGraph .. sent
  BY <1>0, <1>2, <1>9
<1>11. \A i \in 1 .. Len(tasksOut') :
        /\ OnItsWay(tasksOut[i])'
        /\ tasksOut'[i] # NoGraph => lastUnit'[tasksOut'[i]] <= (startOut' + i) * BatchUnits
        /\ filling' # NoGraph => tasksOut'[i] < filling'
        /\ heldGraph' # NoGraph => tasksOut'[i] < heldGraph'
        /\ \A j \in 1 .. i - 1 : tasksOut'[i] # NoGraph => tasksOut'[j] < tasksOut'[i]
  <2> SUFFICES ASSUME NEW i \in 1 .. Len(tasksOut')
               PROVE  /\ OnItsWay(tasksOut[i])'
                      /\ tasksOut'[i] # NoGraph => lastUnit'[tasksOut'[i]] <= (startOut' + i) * BatchUnits
                      /\ tasksOut'[i] < filling'
                      /\ \A j \in 1 .. i - 1 : tasksOut'[i] # NoGraph => tasksOut'[j] < tasksOut'[i]
    BY <1>2
  <2> DEFINE g == tasksOut'[i]
  <2>1. \/ g = NoGraph
        \/ /\ g \in startIn' + 1 .. sent /\ g \in 1 .. sent /\ g \in startIn' + 1 .. sent'
           /\ lastUnit[g] <= (startOut' + i) * BatchUnits
           /\ \A j \in 1 .. i - 1 : tasksOut'[j] < g
    <3>1. \/ g = NoGraph
          \/ /\ g \in startIn' + 1 .. sent
             /\ lastUnit[g] <= (startOut' + i) * BatchUnits
             /\ \A j \in 1 .. i - 1 : tasksOut'[j] < g
      BY <1>9
    <3>2. sent' = sent + 1 /\ sent \in Nat /\ startIn' \in Nat
      BY <1>0, <1>2, <1>3
    <3> HIDE DEF g
    <3> QED BY <3>1, <3>2
  <2>2. OnItsWay(tasksOut[i])' <=> (g = NoGraph \/ g \in startIn' + 1 .. sent')
    BY DEF OnItsWay, NoGraph
  <2>3. g < filling'
    <3>1. g \in NoGraph .. sent /\ filling' = sent + 1
      BY <1>3, <1>5, <1>10
    <3> HIDE DEF g
    <3> QED BY <1>0, <3>1
  <2>4. \A k \in 1 .. sent : lastUnit'[k] = lastUnit[k]
    BY <1>3
  <2> HIDE DEF g
  <2>5. /\ OnItsWay(tasksOut[i])'
        /\ g # NoGraph => lastUnit'[g] <= (startOut' + i) * BatchUnits
        /\ g < filling'
        /\ \A j \in 1 .. i - 1 : g # NoGraph => tasksOut'[j] < g
    BY <2>1, <2>2, <2>3, <2>4
  <2> QED BY <2>5 DEF g
<1>12. GraphsInv'
  <2>1. tasksMade' = endOut' \div BatchUnits
    BY <1>2 DEF tasksAfter
  <2>2. tasksMade' = startOut' + Len(tasksOut')
    BY <1>8
  <2>3. \A s \in 0 .. OutSlots - 1 : s # tasksMade' % OutSlots => slotGraph'[s] = NoGraph
    BY <1>4
  <2>4. OnItsWay(filling)'
    <3>1. startIn' + 1 <= sent' /\ sent' \in Nat /\ startIn' \in Nat
      BY <1>0, <1>2, <1>3, <1>7
    <3>2. OnItsWay(filling)' <=> (filling' = NoGraph \/ filling' \in startIn' + 1 .. sent')
      BY DEF OnItsWay, NoGraph
    <3>3. sent' \in startIn' + 1 .. sent'
      BY <3>1, LastOfRange
    <3> QED BY <1>5, <3>2, <3>3
  <2> QED BY <1>2, <1>3, <1>11, <2>1, <2>2, <2>3, <2>4 DEF GraphsInv, NoGraph
<1>13. OffsetsAccounted'
  <2>1. tasksMade' % OutSlots \in DOMAIN slotGraph' /\ slotGraph'[tasksMade' % OutSlots] = sent'
    BY <1>4, <1>5 DEF filling
  <2> QED BY <2>1 DEF OffsetsAccounted, sent
<1> QED BY <1>3, <1>6, <1>12, <1>13 DEF IInv, LineageExact

\* Forwarding a downstream task, and freePersistentState, preserve the invariant.
LEMMA ForwardOutStep ==
    ASSUME Sizes, IInv, forwardOut
    PROVE  IInv'
<1> DEFINE g == Head(tasksOut)
<1>0. /\ MaxIn \in Nat /\ InSlots \in Nat /\ BatchUnits \in Nat \ {0} /\ NoGraph = -1
      /\ tasksOut \in Seq(NoGraph .. MaxIn) /\ lastUnit \in Seq(Nat)
      /\ sent \in Nat /\ sent <= MaxIn /\ startIn \in Nat /\ startOut \in Nat /\ tasksMade \in Nat
      /\ emptyIn \in Nat /\ putIn \in Nat /\ putIn <= MaxIn
      /\ filling \in NoGraph .. MaxIn /\ heldGraph \in NoGraph .. MaxIn
  BY Types
<1>1. /\ UNCHANGED <<tasksIn, putIn, heldGraph, slotGraph, endOut, tasksMade, lastUnit>>
      /\ tasksOut # <<>> /\ startOut' = startOut + 1 /\ tasksOut' = Tail(tasksOut)
      /\ logStart' = Max({g, logStart}) /\ startIn' = Max({g, startIn})
      /\ emptyIn' = IF g = NoGraph THEN emptyIn ELSE emptyIn + 1
  BY DEF forwardOut, tryToFree
<1>2. /\ Len(tasksOut) \in Nat \ {0} /\ g = tasksOut[1] /\ g \in NoGraph .. MaxIn
      /\ tasksOut' \in Seq(NoGraph .. MaxIn) /\ Len(tasksOut') = Len(tasksOut) - 1
      /\ \A i \in 1 .. Len(tasksOut) - 1 : tasksOut'[i] = tasksOut[i + 1]
  <2> DEFINE G == NoGraph .. MaxIn
  <2>1. tasksOut \in Seq(G)
    BY <1>0
  <2> HIDE DEF G
  <2>2. /\ Len(tasksOut) \in Nat \ {0} /\ g = tasksOut[1] /\ g \in G
        /\ tasksOut' \in Seq(G) /\ Len(tasksOut') = Len(tasksOut) - 1
        /\ \A i \in 1 .. Len(tasksOut) - 1 : tasksOut'[i] = tasksOut[i + 1]
    BY <1>1, <2>1, TailElements
  <2> QED BY <2>2 DEF G
<1> HIDE DEF g
<1>3. /\ startIn = logStart /\ startIn <= sent /\ putIn = sent + Len(tasksIn) /\ Len(tasksIn) \in Nat
      /\ OnItsWay(filling) /\ OnItsWay(g) /\ tasksMade = startOut + Len(tasksOut)
      /\ filling # NoGraph => g < filling
      /\ heldGraph # NoGraph => g < heldGraph /\ heldGraph = sent /\ startIn < sent /\ filling < sent
      /\ g # NoGraph => lastUnit[g] <= (startOut + 1) * BatchUnits
  <2>1. 1 \in 1 .. Len(tasksOut)
    BY <1>2
  <2>2. tasksIn \in Seq(1 .. MaxIn)
    BY Types
  <2>3. Len(tasksIn) \in Nat
    BY <2>2
  <2> QED BY <1>2, <2>1, <2>3 DEF IInv, GraphsInv
<1>4. g = NoGraph \/ g \in startIn + 1 .. sent
  BY <1>3 DEF OnItsWay
\* The graph of the task that leaves is newer than what has been freed.
<1>5. /\ startIn' = (IF g = NoGraph THEN startIn ELSE g) /\ logStart' = startIn'
      /\ startIn' \in Nat /\ startIn <= startIn' /\ startIn' <= sent
      /\ g # NoGraph => startIn + 1 <= startIn'
  <2>1. g \in Int /\ startIn \in Int
    BY <1>0, <1>2
  <2>2. Max({g, startIn}) = IF g < startIn THEN startIn ELSE g
    BY <2>1, MaxOfPair
  <2>3. startIn' = (IF g < startIn THEN startIn ELSE g) /\ logStart' = startIn'
    BY <1>1, <1>3, <2>2
  <2>4. CASE g = NoGraph
    BY <1>0, <1>3, <2>3, <2>4
  <2>5. CASE g # NoGraph
    <3>1. g \in startIn + 1 .. sent
      BY <1>4, <2>5
    <3> QED BY <1>0, <2>3, <2>5, <3>1
  <2> QED BY <2>4, <2>5
<1>6. sent' = sent /\ filling' = filling
  BY <1>1 DEF sent, filling
<1>7. \A i \in 1 .. Len(tasksOut') :
        /\ i + 1 \in 1 .. Len(tasksOut) /\ tasksOut'[i] = tasksOut[i + 1]
        /\ tasksOut'[i] \in NoGraph .. MaxIn
        /\ OnItsWay(tasksOut[i + 1])
        /\ tasksOut[i + 1] # NoGraph => lastUnit[tasksOut[i + 1]] <= (startOut + (i + 1)) * BatchUnits
        /\ filling # NoGraph => tasksOut[i + 1] < filling
        /\ heldGraph # NoGraph => tasksOut[i + 1] < heldGraph
        /\ \A j \in 1 .. i : tasksOut[i + 1] # NoGraph => tasksOut[j] < tasksOut[i + 1]
        /\ tasksOut[i + 1] # NoGraph => g < tasksOut[i + 1]
  <2> TAKE i \in 1 .. Len(tasksOut')
  <2>1. i + 1 \in 1 .. Len(tasksOut) /\ i \in 1 .. Len(tasksOut) - 1 /\ 1 \in 1 .. i /\ (i + 1) - 1 = i
    BY <1>2
  <2>2. tasksOut'[i] = tasksOut[i + 1] /\ tasksOut'[i] \in NoGraph .. MaxIn
    <3>1. tasksOut'[i] = tasksOut[i + 1]
      BY <1>2, <2>1
    <3>2. tasksOut[i + 1] \in NoGraph .. MaxIn
      BY <1>0, <2>1
    <3> QED BY <3>1, <3>2
  <2>3. \A k \in 1 .. Len(tasksOut) :
          /\ OnItsWay(tasksOut[k])
          /\ tasksOut[k] # NoGraph => lastUnit[tasksOut[k]] <= (startOut + k) * BatchUnits
          /\ filling # NoGraph => tasksOut[k] < filling
          /\ heldGraph # NoGraph => tasksOut[k] < heldGraph
          /\ \A j \in 1 .. k - 1 : tasksOut[k] # NoGraph => tasksOut[j] < tasksOut[k]
    BY DEF IInv, GraphsInv
  <2>4. \A j \in 1 .. i : tasksOut[i + 1] # NoGraph => tasksOut[j] < tasksOut[i + 1]
    BY <2>1, <2>3
  <2> QED BY <1>2, <2>1, <2>2, <2>3, <2>4
<1>8. \A h \in NoGraph .. MaxIn :
        OnItsWay(h) /\ (h # NoGraph => g < h) => (h = NoGraph \/ h \in startIn' + 1 .. sent')
  BY <1>0, <1>2, <1>5, <1>6 DEF OnItsWay
<1>9. \A i \in 1 .. Len(tasksOut') :
        /\ OnItsWay(tasksOut[i])'
        /\ tasksOut'[i] # NoGraph => lastUnit'[tasksOut'[i]] <= (startOut' + i) * BatchUnits
        /\ filling' # NoGraph => tasksOut'[i] < filling'
        /\ heldGraph' # NoGraph => tasksOut'[i] < heldGraph'
        /\ \A j \in 1 .. i - 1 : tasksOut'[i] # NoGraph => tasksOut'[j] < tasksOut'[i]
  <2> TAKE i \in 1 .. Len(tasksOut')
  <2>1. OnItsWay(tasksOut[i])'
    <3>1. OnItsWay(tasksOut[i])' <=> (tasksOut'[i] = NoGraph \/ tasksOut'[i] \in startIn' + 1 .. sent')
      BY DEF OnItsWay, NoGraph
    <3> QED BY <1>7, <1>8, <3>1
  <2>2. tasksOut'[i] # NoGraph => lastUnit'[tasksOut'[i]] <= (startOut' + i) * BatchUnits
    <3>1. startOut' + i = startOut + (i + 1) /\ lastUnit' = lastUnit
      BY <1>0, <1>1, <1>2
    <3> QED BY <1>7, <3>1
  <2>3. /\ filling' # NoGraph => tasksOut'[i] < filling'
        /\ heldGraph' # NoGraph => tasksOut'[i] < heldGraph'
    BY <1>1, <1>6, <1>7
  <2>4. \A j \in 1 .. i - 1 : tasksOut'[i] # NoGraph => tasksOut'[j] < tasksOut'[i]
    <3> TAKE j \in 1 .. i - 1
    <3>1. j \in 1 .. Len(tasksOut') /\ j + 1 \in 1 .. i
      BY <1>2
    <3> QED BY <1>7, <3>1
  <2> QED BY <2>1, <2>2, <2>3, <2>4
<1>10. emptyIn' \in 0 .. InSlots /\ emptyIn' <= InSlots - (putIn - startIn')
  <2>1. emptyIn <= InSlots - (putIn - startIn)
    BY DEF IInv, LineageExact, SlotsReturnedOnce
  <2>2. startIn' \in Nat /\ startIn' <= putIn
    BY <1>0, <1>3, <1>5
  <2> DEFINE d == IF g = NoGraph THEN 0 ELSE 1
  <2>3. d \in Nat /\ emptyIn' = emptyIn + d /\ startIn + d <= startIn'
    BY <1>0, <1>1, <1>5
  <2> HIDE DEF d
  <2> QED BY <1>0, <2>1, <2>2, <2>3, ReturnedBound
<1>11. TypeOK'
  <2>1. /\ {endOut', startOut', tasksMade'} \subseteq Nat
        /\ {startIn', logStart', putIn'} \subseteq 0 .. MaxIn
    <3>1. endOut' \in Nat /\ tasksMade' \in Nat /\ startOut' \in Nat
      BY <1>0, <1>1 DEF IInv, TypeOK
    <3>2. startIn' \in 0 .. MaxIn /\ logStart' \in 0 .. MaxIn /\ putIn' \in 0 .. MaxIn
      BY <1>0, <1>1, <1>5
    <3> QED BY <3>1, <3>2
  <2> QED BY <1>0, <1>1, <1>2, <1>10, <2>1 DEF IInv, TypeOK
<1>12. GraphsInv'
  <2>1. OnItsWay(filling)'
    <3>1. OnItsWay(filling)' <=> (filling' = NoGraph \/ filling' \in startIn' + 1 .. sent')
      BY DEF OnItsWay, NoGraph
    <3> QED BY <1>0, <1>3, <1>6, <1>8, <3>1
  <2>2. tasksMade' = startOut' + Len(tasksOut')
    BY <1>0, <1>1, <1>2, <1>3
  <2>3. heldGraph' # NoGraph => heldGraph' = sent' /\ startIn' < sent' /\ filling' < sent'
    BY <1>0, <1>1, <1>2, <1>3, <1>5, <1>6
  <2>4. startIn' = logStart' /\ startIn' <= sent'
    BY <1>5, <1>6
  <2>5. /\ tasksMade' = endOut' \div BatchUnits
        /\ \A s \in 0 .. OutSlots - 1 : s # tasksMade' % OutSlots => slotGraph'[s] = NoGraph
    BY <1>1 DEF IInv, GraphsInv
  <2>6. /\ putIn' = sent' + Len(tasksIn')
        /\ \A i \in 1 .. Len(tasksIn') : tasksIn'[i] = sent' + i
        /\ \A k \in 1 .. sent' : lastUnit'[k] <= endOut'
        /\ \A j, k \in 1 .. sent' : j <= k => lastUnit'[j] <= lastUnit'[k]
    BY <1>1, <1>6 DEF IInv, GraphsInv
  <2> QED BY <1>9, <2>1, <2>2, <2>3, <2>4, <2>5, <2>6 DEF GraphsInv
\* What is freed beyond the old start are results that end in this batch.
<1>13. FreedAfterResults'
  <2>1. \A k \in 1 .. logStart : k <= sent /\ lastUnit[k] <= startOut * BatchUnits
    BY DEF IInv, LineageExact, FreedAfterResults, sent
  <2>2. startOut * BatchUnits \in Int /\ startOut * BatchUnits <= (startOut + 1) * BatchUnits
    BY <1>0
  <2>3. ASSUME NEW k \in 1 .. logStart'
        PROVE  k <= sent /\ lastUnit[k] <= (startOut + 1) * BatchUnits
    <3> DEFINE b == (startOut + 1) * BatchUnits
    <3>1. b \in Int /\ k \in 1 .. sent /\ lastUnit[k] \in Nat
      BY <1>0, <1>5 DEF sent
    <3>2. CASE k <= logStart
      <4>1. k \in 1 .. logStart
        BY <1>0, <1>3, <3>1, <3>2
      <4>2. lastUnit[k] <= startOut * BatchUnits
        BY <2>1, <4>1
      <4> HIDE DEF b
      <4>3. startOut * BatchUnits <= b
        BY <2>2 DEF b
      <4>4. lastUnit[k] <= b
        BY <2>2, <3>1, <4>2, <4>3
      <4> QED BY <3>1, <4>4 DEF b
    <3>3. CASE k > logStart
      <4>1. g # NoGraph /\ g \in 1 .. sent /\ k <= g
        BY <1>0, <1>3, <1>4, <1>5, <3>1, <3>3, SMTT(30)
      <4>2. lastUnit[k] <= lastUnit[g] /\ lastUnit[g] <= b /\ lastUnit[g] \in Nat
        <5>1. \A j, m \in 1 .. sent : j <= m => lastUnit[j] <= lastUnit[m]
          BY DEF IInv, GraphsInv
        <5>2. lastUnit[g] \in Nat
          BY <1>0, <4>1 DEF sent
        <5>3. lastUnit[g] <= b
          BY <1>3, <4>1
        <5> QED BY <3>1, <4>1, <5>1, <5>2, <5>3
      <4> HIDE DEF b
      <4>3. lastUnit[k] <= b
        BY <3>1, <4>2
      <4> QED BY <3>1, <4>3 DEF b
    <3> QED BY <1>0, <1>3, <3>1, <3>2, <3>3
  <2> QED BY <1>1, <2>3 DEF FreedAfterResults, sent
<1>14. SlotsReturnedOnce'
  BY <1>1, <1>10 DEF SlotsReturnedOnce
<1>15. OffsetsAccounted'
  <2> SUFFICES ASSUME sent > 0
               PROVE  \/ logStart' = sent \/ heldGraph' = sent
                      \/ \E s \in DOMAIN slotGraph' : slotGraph'[s] = sent
                      \/ \E i \in DOMAIN tasksOut' : tasksOut'[i] = sent
    BY <1>1, <1>6 DEF OffsetsAccounted, sent
  <2>1. \/ logStart = sent \/ heldGraph = sent
        \/ \E s \in DOMAIN slotGraph : slotGraph[s] = sent
        \/ \E i \in DOMAIN tasksOut : tasksOut[i] = sent
    BY DEF IInv, LineageExact, OffsetsAccounted, sent
  <2>2. CASE logStart = sent
    BY <1>0, <1>3, <1>5, <2>2
  <2>3. CASE heldGraph = sent \/ \E s \in DOMAIN slotGraph : slotGraph[s] = sent
    BY <1>1, <2>3
  <2>4. ASSUME NEW i \in DOMAIN tasksOut, tasksOut[i] = sent
        PROVE  logStart' = sent \/ \E j \in DOMAIN tasksOut' : tasksOut'[j] = sent
    <3>1. i \in 1 .. Len(tasksOut)
      BY <1>0, <2>4
    <3>2. CASE i = 1
      BY <1>0, <1>2, <1>5, <2>4, <3>2
    <3>3. CASE i # 1
      <4>1. i - 1 \in 1 .. Len(tasksOut) - 1 /\ i - 1 \in DOMAIN tasksOut' /\ (i - 1) + 1 = i
        BY <1>2, <3>1, <3>3
      <4>2. tasksOut'[i - 1] = sent
        BY <1>2, <2>4, <4>1
      <4> QED BY <4>1, <4>2
    <3> QED BY <3>2, <3>3
  <2> QED BY <2>1, <2>2, <2>3, <2>4
<1>16. lastUnit' \in Seq(Nat)
  BY <1>0, <1>1
<1> QED BY <1>11, <1>12, <1>13, <1>14, <1>15, <1>16 DEF IInv, LineageExact

\* A step that changes nothing.
LEMMA StutterStep ==
    ASSUME IInv, UNCHANGED vars
    PROVE  IInv'
<1>1. TypeOK' /\ lastUnit' \in Seq(Nat)
  BY DEF IInv, TypeOK, vars, NoGraph
<1>2. GraphsInv'
  BY DEF IInv, GraphsInv, OnItsWay, filling, sent, vars, NoGraph
<1>3. LineageExact'
  BY DEF IInv, LineageExact, FreedAfterResults, SlotsReturnedOnce, OffsetsAccounted, vars
<1> QED BY <1>1, <1>2, <1>3 DEF IInv

\* The inductive invariant: the upstream tasks are consecutive, only the slot
\* of the batch being filled has a graph, the graphs on their way have increasing
\* offsets, and the results behind the graph of a task end in the task's batch.
THEOREM LineageInvariance ==
    Spec => []IInv
<1>1. Init => IInv
  BY SizesAssumption, InitIInv
<1>2. IInv /\ [Next]_vars => IInv'
  <2> SUFFICES ASSUME IInv, [Next]_vars PROVE IInv'
    OBVIOUS
  <2>1. CASE dispatchIn
    BY <2>1, SizesAssumption, DispatchInStep
  <2>2. ASSUME NEW length \in Lengths, forwardIn(length) PROVE IInv'
    BY <2>2, SizesAssumption, ForwardInStep
  <2>3. CASE holdGraph
    BY <2>3, SizesAssumption, HoldGraphStep
  <2>4. CASE forwardOut
    BY <2>4, SizesAssumption, ForwardOutStep
  <2>5. CASE UNCHANGED vars
    BY <2>5, StutterStep
  <2> QED BY <2>1, <2>2, <2>3, <2>4, <2>5 DEF Next
<1> QED BY <1>1, <1>2, PTL DEF Spec

\* freePersistentState for every buffer, batch and set of lengths: the log of an
\* input batch is freed only when every downstream batch with results of it has
\* been forwarded; a slot is returned at most once for a batch freed; the newest
\* offset is never lost on its way through slots and tasks.
THEOREM LineageIsExact ==
    Spec => []LineageExact
<1>1. IInv => LineageExact
  BY DEF IInv
<1> QED BY <1>1, LineageInvariance, PTL
=============================================================================
