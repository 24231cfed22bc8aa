------------------------ MODULE TaskDispatcherProofs ------------------------
(***************************************************************************)
(* Safety of the dispatcher and its circular buffer for every capacity,    *)
(* batch size, tuple size and sequence of dispatch lengths.                *)
(***************************************************************************)
EXTENDS TaskDispatcher, ModArithmetic

\* The assumptions on the sizes, in the form the proofs use them.
LEMMA Sizes ==
    /\ Capacity \in Nat \ {0}
    /\ BatchSize \in Nat \ {0}
    /\ TupleSize \in Nat
    /\ TupleSize >= 2
    /\ BatchSize >= 2 * TupleSize
    /\ BatchSize <= Capacity
    /\ \E n \in Nat \ {0} : Capacity = n * BatchSize
<1>1. PICK n \in 1 .. Capacity : Capacity = n * BatchSize
  BY CapacityAssumption, DispatcherAssumption
<1>2. BatchSize \in Nat \ {0} /\ n \in Nat \ {0}
  BY CapacityAssumption, DispatcherAssumption
<1>3. BatchSize <= n * BatchSize
  BY <1>2
<1> QED BY <1>1, <1>2, <1>3, CapacityAssumption, DispatcherAssumption

\* normalise gives an index of the buffer.
LEMMA NormaliseRange ==
    ASSUME NEW a \in Nat
    PROVE  /\ normalise(a) \in Nat /\ normalise(a) < Capacity /\ normalise(a) <= a
           /\ normalise(a) \in Index
<1>1. a \in Int /\ Capacity \in Nat \ {0}
  BY Sizes
<1>2. a % Capacity \in 0 .. Capacity - 1
  BY <1>1, DivMod, Zenon
<1>3. a % Capacity <= a
  BY <1>1, ModLe, Zenon
<1> QED BY <1>1, <1>2, <1>3 DEF normalise, Index

\* Batches do not straddle the end of the buffer: where batch k starts and where
\* the next one does.
LEMMA BatchPlace ==
    ASSUME NEW k \in Nat
    PROVE  LET p == normalise(k * BatchSize)
               e == normalise(k * BatchSize + BatchSize)
           IN  /\ p \in Nat
               /\ p = 0 \/ p >= BatchSize
               /\ p + BatchSize <= Capacity
               /\ e = IF p + BatchSize = Capacity THEN 0 ELSE p + BatchSize
<1>1. PICK n \in Nat \ {0} : Capacity = n * BatchSize
  BY Sizes
<1>2. PICK r \in 0 .. n - 1 : /\ (k * BatchSize) % (n * BatchSize) = r * BatchSize
                              /\ r * BatchSize + BatchSize <= n * BatchSize
  BY <1>1, Sizes, ModMultiple
<1> DEFINE a == k * BatchSize
           p == a % Capacity
<1>3. a \in Nat /\ p = r * BatchSize /\ p + BatchSize <= Capacity
  BY <1>1, <1>2, Sizes
<1>4. p \in Nat /\ (p = 0 \/ p >= BatchSize)
  <2>1. CASE r = 0
    BY <2>1, <1>3, Sizes
  <2>2. CASE r >= 1
    BY <2>2, <1>2, <1>3, Sizes
  <2> QED BY <2>1, <2>2, <1>2
<1>5. (a + BatchSize) % Capacity = IF p + BatchSize < Capacity
                                   THEN p + BatchSize ELSE p + BatchSize - Capacity
  <2>1. BatchSize \in 0 .. Capacity
    BY Sizes
  <2> HIDE DEF a
  <2> QED BY <1>3, <2>1, Sizes, ModShift
<1> QED BY <1>3, <1>4, <1>5, Sizes DEF normalise

\* What newTaskFor computes for batch k.
LEMMA NewTaskShape ==
    ASSUME NEW k \in Nat,
           thisBatchStart = k * BatchSize,
           nextBatchEnd = thisBatchStart + BatchSize
    PROVE  LET p == normalise(thisBatchStart)
           IN  /\ p \in Nat
               /\ p = 0 \/ p >= BatchSize
               /\ p + BatchSize <= Capacity
               /\ newTaskFor = [id |-> nextTask, p |-> p, q |-> p + BatchSize,
                                free |-> p + BatchSize - 1 - TupleSize,
                                b |-> thisBatchStart, d |-> nextBatchEnd,
                                prev |-> IF thisBatchStart = 0 THEN Unwritten
                                         ELSE mem[prevEndIndex(p)]]
<1> DEFINE p == normalise(thisBatchStart)
           e == normalise(nextBatchEnd)
<1>1. /\ p \in Nat
      /\ p = 0 \/ p >= BatchSize
      /\ p + BatchSize <= Capacity
      /\ e = IF p + BatchSize = Capacity THEN 0 ELSE p + BatchSize
  BY BatchPlace
<1>2. (IF e <= p THEN e + Capacity ELSE e) = p + BatchSize
  BY <1>1, Sizes
<1>3. lastIndex(nextBatchEnd) = p + BatchSize - 1
  BY <1>1, Sizes DEF lastIndex
<1> HIDE DEF p, e
<1>4. newTaskFor = [id |-> nextTask, p |-> p, q |-> p + BatchSize,
                    free |-> p + BatchSize - 1 - TupleSize,
                    b |-> thisBatchStart, d |-> nextBatchEnd,
                    prev |-> IF thisBatchStart = 0 THEN Unwritten
                             ELSE mem[prevEndIndex(p)]]
  <2>1. newTaskFor = [id |-> nextTask, p |-> p,
                      q |-> IF e <= p THEN e + Capacity ELSE e,
                      free |-> lastIndex(nextBatchEnd) - TupleSize,
                      b |-> thisBatchStart, d |-> nextBatchEnd,
                      prev |-> IF thisBatchStart = 0 THEN Unwritten
                               ELSE mem[prevEndIndex(p)]]
    BY Zenon DEF newTaskFor, p, e
  <2>2. lastIndex(nextBatchEnd) - TupleSize = p + BatchSize - 1 - TupleSize
    BY <1>1, <1>3, Sizes
  <2> QED BY <1>2, <2>1, <2>2
<1> QED BY <1>1, <1>4 DEF p

\* free moves the start pointer from one tuple short of batch k's start (or 0) to
\* one tuple short of its end.
LEMMA FreeDistance ==
    ASSUME NEW k \in Nat,
           startP = IF k = 0 THEN 0 ELSE k * BatchSize - TupleSize
    PROVE  startP + freedBytes(normalise(k * BatchSize) + BatchSize - 1 - TupleSize)
              = (k + 1) * BatchSize - TupleSize
<1> DEFINE b == k * BatchSize
           p == normalise(b)
           index == normalise(startP)
<1>1. p \in Nat /\ (p = 0 \/ p >= BatchSize) /\ b \in Nat
  BY BatchPlace, Sizes
<1>2. (k + 1) * BatchSize = b + BatchSize
  BY Sizes
<1>3. CASE k = 0
  <2>1. startP = 0 /\ b = 0
    BY <1>3, Sizes
  <2>2. p = 0 /\ index = 0
    BY <2>1, Sizes, ModUnique DEF normalise
  <2> HIDE DEF b, p, index
  <2> QED BY <1>2, <2>1, <2>2, Sizes DEF freedBytes, index, p, b
<1>4. CASE k > 0
  <2>1. b >= BatchSize /\ startP = b - TupleSize
    <3>1. k * BatchSize >= BatchSize
      BY <1>4, Sizes
    <3> QED BY <3>1, <1>4
  <2>2. startP \in Nat /\ b = startP + TupleSize /\ TupleSize \in 0 .. Capacity
    BY <2>1, <1>1, Sizes
  <2>3. p = IF index + TupleSize < Capacity THEN index + TupleSize
            ELSE index + TupleSize - Capacity
    <3> HIDE DEF b
    <3> QED BY <2>2, Sizes, ModShift DEF normalise
  <2>4. index \in 0 .. Capacity - 1
    BY <2>2, Sizes, DivMod DEF normalise
  <2>5. index = IF p = 0 THEN Capacity - TupleSize ELSE p - TupleSize
    <3> HIDE DEF p, index
    <3> QED BY <1>1, <2>3, <2>4, Sizes
  <2>6. freedBytes(p + BatchSize - 1 - TupleSize) = BatchSize
    <3> HIDE DEF p, b
    <3>1. freedBytes(p + BatchSize - 1 - TupleSize) =
             IF p + BatchSize - 1 - TupleSize <= index
             THEN Capacity - index + (p + BatchSize - 1 - TupleSize) + 1
             ELSE (p + BatchSize - 1 - TupleSize) - index + 1
      BY DEF freedBytes
    <3> HIDE DEF index
    <3> QED BY <1>1, <2>4, <2>5, <3>1, Sizes
  <2> HIDE DEF p, b
  <2> QED BY <1>1, <1>2, <2>1, <2>6, Sizes DEF p, b
<1> QED BY <1>3, <1>4

----------------------------------------------------------------------------
(* The buffer's contents.                                                  *)

\* The one or two memcpy calls of put store the j-th unit at the index of stream
\* offset endP + j and change no other index.
LEMMA CopiedShape ==
    ASSUME NEW bytes \in Nat, bytes <= Capacity, endP \in Nat,
           mem \in [Index -> Int]
    PROVE  /\ copied(bytes) \in [Index -> Int]
           /\ \A j \in 0 .. bytes - 1 :
                 /\ normalise(endP + j) \in Index
                 /\ copied(bytes)[normalise(endP + j)] = endP + j
           /\ \A i \in Index :
                 \/ copied(bytes)[i] = mem[i]
                 \/ \E j \in 0 .. bytes - 1 : /\ copied(bytes)[i] = endP + j
                                              /\ normalise(endP + j) = i
<1> DEFINE index == normalise(endP)
           right == Capacity - index
<1>1. index \in 0 .. Capacity - 1
  BY NormaliseRange, Sizes
<1>2. \A j \in 0 .. Capacity :
         normalise(endP + j) = IF index + j < Capacity THEN index + j
                               ELSE index + j - Capacity
  BY Sizes, ModShift DEF normalise
<1>3. \A i \in Index :
         copied(bytes)[i] = IF index <= i /\ i < index + bytes
                            THEN endP + (i - index)
                            ELSE IF bytes > right /\ i < bytes - right
                                 THEN endP + right + i
                                 ELSE mem[i]
  BY Zenon DEF copied
<1>4. copied(bytes) \in [Index -> Int]
  <2> HIDE DEF index
  <2>1. \A i \in Index : i \in Int
    BY DEF Index
  <2> QED BY <1>1, <2>1, Sizes DEF copied, index
<1> HIDE DEF index
<1>5. ASSUME NEW j \in 0 .. bytes - 1
      PROVE  /\ normalise(endP + j) \in Index
             /\ copied(bytes)[normalise(endP + j)] = endP + j
  <2>1. Capacity \in Nat /\ index \in Nat /\ index < Capacity /\ j \in Nat /\ j < bytes
    BY <1>1, Sizes
  <2>2. CASE index + j < Capacity
    <3>1. normalise(endP + j) = index + j /\ index + j \in Index
      BY <1>2, <2>1, <2>2 DEF Index
    <3>2. copied(bytes)[index + j] = endP + (index + j - index)
      BY <1>3, <2>1, <3>1
    <3> QED BY <2>1, <3>1, <3>2
  <2>3. CASE ~(index + j < Capacity)
    <3>1. /\ normalise(endP + j) = index + j - Capacity /\ index + j - Capacity \in Index
          /\ index + j - Capacity < index /\ bytes > right
          /\ index + j - Capacity < bytes - right
      BY <1>2, <2>1, <2>3 DEF Index
    <3>2. copied(bytes)[index + j - Capacity] = endP + right + (index + j - Capacity)
      BY <1>3, <2>1, <3>1
    <3> QED BY <2>1, <3>1, <3>2
  <2> QED BY <2>2, <2>3
<1>6. ASSUME NEW i \in Index
      PROVE  \/ copied(bytes)[i] = mem[i]
             \/ \E j \in 0 .. bytes - 1 : /\ copied(bytes)[i] = endP + j
                                          /\ normalise(endP + j) = i
  <2>1. CASE index <= i /\ i < index + bytes
    <3> DEFINE j == i - index
    <3>1. j \in 0 .. bytes - 1 /\ j \in 0 .. Capacity /\ index + j = i /\ i < Capacity
      BY <1>1, <2>1, Sizes DEF Index
    <3>2. copied(bytes)[i] = endP + j
      BY <1>3, <2>1
    <3> HIDE DEF j
    <3>3. normalise(endP + j) = i
      BY <1>1, <1>2, <3>1, Sizes
    <3> QED BY <3>1, <3>2, <3>3
  <2>2. CASE ~(index <= i /\ i < index + bytes) /\ bytes > right /\ i < bytes - right
    <3> DEFINE j == right + i
    <3>1. j \in 0 .. bytes - 1 /\ j \in 0 .. Capacity /\ index + j = Capacity + i
          /\ i \in Nat
      BY <1>1, <2>2, Sizes DEF Index
    <3>2. copied(bytes)[i] = endP + j
      BY <1>1, <1>3, <2>2, Sizes DEF Index
    <3> HIDE DEF j
    <3>3. normalise(endP + j) = i
      BY <1>1, <1>2, <3>1, Sizes
    <3> QED BY <3>1, <3>2, <3>3
  <2>3. CASE /\ ~(index <= i /\ i < index + bytes)
             /\ ~(bytes > right /\ i < bytes - right)
    BY <1>3, <2>3
  <2> QED BY <2>1, <2>2, <2>3
<1> QED BY <1>4, <1>5, <1>6

\* put keeps the last lap of the stream in the buffer.
LEMMA PutKeepsContent ==
    ASSUME TypeOK, ContentInv, NEW bytes \in Nat \ {0}, bytes <= Capacity,
           putCopy(bytes)
    PROVE  mem' \in [Index -> Int] /\ ContentInv'
<1>1. /\ endP \in Nat /\ wraps \in Nat /\ mem \in [Index -> Int]
      /\ endP' = endP + bytes /\ bytes \in 0 .. Capacity
  BY Sizes DEF TypeOK, putCopy
<1>2. /\ copied(bytes) \in [Index -> Int]
      /\ \A j \in 0 .. bytes - 1 :
            /\ normalise(endP + j) \in Index
            /\ copied(bytes)[normalise(endP + j)] = endP + j
      /\ \A i \in Index :
            \/ copied(bytes)[i] = mem[i]
            \/ \E j \in 0 .. bytes - 1 : /\ copied(bytes)[i] = endP + j
                                         /\ normalise(endP + j) = i
  BY <1>1, CopiedShape
<1>3. /\ mem' = copied(bytes) \/ (mem' = mem /\ ~CopyDataOnInsert /\ wraps # 0)
      /\ CopyDataOnInsert => mem' = copied(bytes)
  BY CapacityAssumption DEF putCopy
<1>4. mem' \in [Index -> Int]
  BY <1>1, <1>2, <1>3
<1>5. wraps' > 0 => endP' >= Capacity
  <2>1. CASE wraps > 0
    BY <1>1, <2>1, Sizes DEF ContentInv
  <2>2. CASE wraps = 0
    <3>1. normalise(endP) \in Nat /\ normalise(endP) <= endP
      BY <1>1, NormaliseRange
    <3>2. normalise(endP + bytes) =
             IF normalise(endP) + bytes < Capacity THEN normalise(endP) + bytes
             ELSE normalise(endP) + bytes - Capacity
      BY <1>1, Sizes, ModShift DEF normalise
    <3>3. wraps' > 0 => normalise(endP + bytes) <= normalise(endP)
      BY <2>2 DEF putCopy
    <3> QED BY <1>1, <3>1, <3>2, <3>3, Sizes
  <2> QED BY <1>1, <2>1, <2>2
<1>6. ASSUME NEW i \in Index
      PROVE  /\ mem'[i] = Unwritten \/ (mem'[i] \in Nat /\ normalise(mem'[i]) = i)
             /\ i < endP' => mem'[i] # Unwritten
  <2>1. CASE mem'[i] = mem[i]
    <3>1. mem[i] = Unwritten \/ (mem[i] \in Nat /\ normalise(mem[i]) = i)
      BY DEF ContentInv
    <3>2. ASSUME i < endP' PROVE mem'[i] # Unwritten
      <4>1. CASE i < endP
        BY <2>1, <4>1 DEF ContentInv
      <4>2. CASE ~(i < endP) /\ mem' = copied(bytes)
        <5> DEFINE j == i - endP
        <5>1. j \in 0 .. bytes - 1 /\ endP + j = i /\ i \in Nat /\ i < Capacity
          BY <1>1, <3>2, <4>2, Sizes DEF Index
        <5> HIDE DEF j
        <5>2. normalise(i) = i
          BY <5>1, Sizes, ModLe DEF normalise
        <5>3. copied(bytes)[i] = i
          BY <1>2, <5>1, <5>2
        <5> QED BY <4>2, <5>1, <5>3 DEF Unwritten
      <4>3. CASE ~(i < endP) /\ wraps # 0
        <5>1. endP >= Capacity /\ i < Capacity /\ i \in Nat
          BY <1>1, <4>3, Sizes DEF ContentInv, Index
        <5> QED BY <1>1, <4>3, <5>1, Sizes
      <4> QED BY <1>3, <4>1, <4>2, <4>3
    <3> QED BY <2>1, <3>1, <3>2
  <2>2. CASE mem'[i] # mem[i]
    <3>1. PICK j \in 0 .. bytes - 1 : mem'[i] = endP + j /\ normalise(endP + j) = i
      BY <1>2, <1>3, <2>2
    <3>2. mem'[i] \in Nat /\ normalise(mem'[i]) = i
      BY <1>1, <3>1
    <3> QED BY <3>2 DEF Unwritten
  <2> QED BY <2>1, <2>2
<1>7. ASSUME CopyDataOnInsert, NEW o \in 0 .. endP' - 1, endP' - Capacity <= o
      PROVE  mem'[normalise(o)] = o
  <2>1. mem' = copied(bytes) /\ o \in Nat /\ o < endP + bytes
    BY <1>1, <1>3, <1>7
  <2>2. CASE o >= endP
    <3> DEFINE j == o - endP
    <3>1. j \in 0 .. bytes - 1 /\ endP + j = o
      BY <1>1, <2>1, <2>2
    <3> HIDE DEF j
    <3> QED BY <1>2, <2>1, <3>1
  <2>3. CASE o < endP
    <3>1. o \in 0 .. endP - 1 /\ endP - Capacity <= o
      BY <1>1, <1>7, <2>1, <2>3, Sizes
    <3>2. mem[normalise(o)] = o
      BY <1>7, <3>1 DEF ContentInv
    <3>3. normalise(o) \in Index
      BY <2>1, NormaliseRange
    <3>4. ASSUME NEW j \in 0 .. bytes - 1 PROVE normalise(endP + j) # normalise(o)
      <4> DEFINE e == endP + j
      <4>1. e \in Nat /\ o < e /\ e < o + Capacity
        BY <1>1, <1>7, <2>1, <2>3, Sizes
      <4> HIDE DEF e
      <4>2. o % Capacity # e % Capacity
        BY <2>1, <4>1, Sizes, ModDistinct
      <4> QED BY <4>2 DEF e, normalise
    <3> QED BY <1>2, <2>1, <3>2, <3>3, <3>4
  <2> QED BY <1>1, <2>1, <2>2, <2>3
<1>8. (CopyDataOnInsert => \A o \in 0 .. endP - 1 :
                              endP - Capacity <= o => mem[normalise(o)] = o)'
  BY <1>7 DEF normalise
<1>9. (\A i \in Index : /\ mem[i] = Unwritten \/ (mem[i] \in Nat /\ normalise(mem[i]) = i)
                        /\ i < endP => mem[i] # Unwritten)'
  BY <1>6 DEF normalise, Index, Unwritten
<1> QED BY <1>4, <1>5, <1>8, <1>9 DEF ContentInv

----------------------------------------------------------------------------
(* Consequences of the inductive invariant.                                *)

\* The start pointer stays behind the next batch, and so behind the end pointer.
LEMMA StartBehind ==
    ASSUME TypeOK, PointersInv, StartFollowsTasks
    PROVE  /\ startP <= tasksProcessed * BatchSize
           /\ tasksProcessed * BatchSize <= (nextTask - 1) * BatchSize
           /\ startP <= endP
<1>1. tasksProcessed \in Nat /\ nextTask - 1 \in Nat /\ tasksProcessed <= nextTask - 1
  BY DEF TypeOK, PointersInv
<1> DEFINE a == tasksProcessed * BatchSize
           b == (nextTask - 1) * BatchSize
<1>2. a <= b /\ a \in Nat /\ b \in Nat
  <2>1. CASE tasksProcessed = nextTask - 1
    BY <1>1, <2>1, Sizes
  <2>2. CASE tasksProcessed < nextTask - 1
    <3>1. BatchSize * tasksProcessed + BatchSize <= BatchSize * (nextTask - 1)
      BY <1>1, <2>2, Sizes, MulMono
    <3> QED BY <1>1, <3>1, Sizes
  <2> QED BY <1>1, <2>1, <2>2
<1>3. startP <= a
  BY <1>1, <1>2, Sizes DEF StartFollowsTasks
<1> HIDE DEF a, b
<1>4. b <= endP /\ endP \in Nat /\ startP \in Nat
  BY DEF PointersInv, TypeOK, b
<1>5. startP <= endP
  BY <1>2, <1>3, <1>4
<1> QED BY <1>2, <1>3, <1>5 DEF a, b

\* An admitted put is not longer than the buffer.
LEMMA AdmittedFits ==
    ASSUME TypeOK, PointersInv, StartFollowsTasks, NoOverrun, dpc = "copy"
    PROVE  length \in Nat \ {0} /\ length <= Capacity
<1>1. length \in Nat \ {0} /\ startP \in Nat /\ endP \in Nat
  BY DispatcherAssumption DEF TypeOK, PointersInv
<1>2. (endP + length) - startP <= Capacity
  BY DEF NoOverrun
<1> QED BY <1>1, <1>2, StartBehind, Sizes

\* The published and unfreed part of the stream fits the buffer.
LEMMA UnfreedFits ==
    ASSUME TypeOK, PointersInv, StartFollowsTasks, NoOverrun
    PROVE  endP - startP <= Capacity
<1>1. startP \in Nat /\ endP \in Nat
  BY DEF TypeOK
<1>2. CASE dpc = "copy"
  BY <1>1, <1>2, AdmittedFits, Sizes DEF NoOverrun
<1>3. CASE dpc # "copy"
  BY <1>1, <1>3, Sizes DEF NoOverrun
<1> QED BY <1>2, <1>3

\* The data of a batch whose task is not freed.
LEMMA IInvReadable ==
    ASSUME IInv
    PROVE  BatchReadable
<1> SUFFICES ASSUME NEW t \in tasks, NEW k \in 0 .. BatchSize - 1
             PROVE  /\ t.q - t.p = BatchSize
                    /\ t.q <= Capacity
                    /\ mem[t.p + k] # Unwritten
                    /\ normalise(mem[t.p + k]) = normalise(t.b + k)
                    /\ CopyDataOnInsert => mem[t.p + k] = t.b + k
  <2>1. 0 \in 0 .. BatchSize - 1
    BY Sizes
  <2> QED BY <2>1 DEF BatchReadable
<1>1. /\ t.id \in Nat /\ t.p \in Nat /\ t.b \in Nat
      /\ t.q = t.p + BatchSize /\ t.q <= Capacity /\ t.p = normalise(t.b)
      /\ t.b = (t.id - 1) * BatchSize
      /\ tasksProcessed < t.id /\ t.id < nextTask
      /\ tasksProcessed \in Nat /\ nextTask \in Nat /\ endP \in Nat /\ startP \in Nat
  BY DEF IInv, TypeOK, TaskInv, Task
<1>2. t.b + BatchSize <= endP
  <2>1. BatchSize * (t.id - 1) + BatchSize <= BatchSize * (nextTask - 1)
    BY <1>1, Sizes, MulMono
  <2>2. (nextTask - 1) * BatchSize <= endP
    BY DEF IInv, PointersInv
  <2> QED BY <1>1, <2>1, <2>2, Sizes
<1>3. startP <= t.b
  <2>1. startP <= tasksProcessed * BatchSize
    BY StartBehind DEF IInv
  <2>2. tasksProcessed * BatchSize <= t.b
    <3>1. CASE tasksProcessed = t.id - 1
      BY <1>1, <3>1, Sizes
    <3>2. CASE tasksProcessed < t.id - 1
      <4>1. BatchSize * tasksProcessed + BatchSize <= BatchSize * (t.id - 1)
        BY <1>1, <3>2, Sizes, MulMono
      <4> QED BY <1>1, <4>1, Sizes
    <3> QED BY <1>1, <3>1, <3>2
  <2> DEFINE x == tasksProcessed * BatchSize
  <2>3. x \in Nat
    BY <1>1, Sizes
  <2> HIDE DEF x
  <2> QED BY <1>1, <2>1, <2>2, <2>3 DEF x
<1> DEFINE o == t.b + k
<1>4. o \in Nat /\ o < endP /\ startP <= o
  BY <1>1, <1>2, <1>3, Sizes
<1>5. normalise(o) = t.p + k
  <2>1. k \in 0 .. Capacity /\ t.p + k < Capacity
    BY <1>1, Sizes
  <2>2. (t.b + k) % Capacity = IF (t.b % Capacity) + k < Capacity
                               THEN (t.b % Capacity) + k
                               ELSE (t.b % Capacity) + k - Capacity
    BY <1>1, <2>1, Sizes, ModShift
  <2> QED BY <1>1, <2>1, <2>2 DEF normalise
<1>6. endP - Capacity <= o
  <2>1. endP - startP <= Capacity
    BY UnfreedFits DEF IInv
  <2> HIDE DEF o
  <2> QED BY <1>1, <1>4, <2>1, Sizes
<1> HIDE DEF o
<1>7. normalise(o) \in Index /\ normalise(o) < endP
  BY <1>1, <1>4, NormaliseRange
<1>8. /\ mem[normalise(o)] # Unwritten
      /\ normalise(mem[normalise(o)]) = normalise(o)
  BY <1>7 DEF IInv, ContentInv
<1>9. CopyDataOnInsert => mem[normalise(o)] = o
  BY <1>1, <1>4, <1>6 DEF IInv, ContentInv
<1> QED BY <1>1, <1>5, <1>8, <1>9, Sizes DEF o

\* The bound on the tasks in flight follows from the space of their batches.
LEMMA IInvInFlight ==
    ASSUME IInv
    PROVE  InFlightBound
<1>1. PICK n \in Nat \ {0} : Capacity = n * BatchSize
  BY Sizes
<1>2. Batches = n
  BY <1>1, Sizes, DivMultiple DEF Batches
<1>3. /\ nextTask \in Nat /\ tasksProcessed \in Nat /\ endP \in Nat /\ startP \in Nat
      /\ (nextTask - 1) * BatchSize <= endP
  BY DEF IInv, TypeOK, PointersInv
<1>4. endP - startP <= Capacity
  BY UnfreedFits DEF IInv
<1>5. CASE tasksProcessed = 0
  <2>1. startP = 0
    BY <1>5 DEF IInv, StartFollowsTasks
  <2>2. ~(n < nextTask - 1)
    <3> SUFFICES ASSUME n < nextTask - 1 PROVE FALSE
      OBVIOUS
    <3>1. BatchSize * n + BatchSize <= BatchSize * (nextTask - 1)
      BY <1>3, Sizes, MulMono
    <3>2. (nextTask - 1) * BatchSize <= n * BatchSize
      BY <1>1, <1>3, <1>4, <2>1, Sizes
    <3> QED BY <1>3, <3>1, <3>2, Sizes
  <2> QED BY <1>2, <1>3, <2>2 DEF InFlightBound
<1>6. CASE tasksProcessed > 0
  <2>1. startP = tasksProcessed * BatchSize - TupleSize
    BY <1>6 DEF IInv, StartFollowsTasks
  <2>2. ~(tasksProcessed + n < nextTask - 1 + 1)
    <3> SUFFICES ASSUME tasksProcessed + n < nextTask - 1 + 1 PROVE FALSE
      OBVIOUS
    <3> DEFINE x == tasksProcessed + n
               y == nextTask - 1
    <3>1. x \in Int /\ y \in Int /\ x <= y
      BY <1>3
    <3>2. BatchSize * x <= BatchSize * y
      <4> HIDE DEF x, y
      <4> QED BY <3>1, Sizes, MulMono
    <3>3. BatchSize * x = tasksProcessed * BatchSize + n * BatchSize
      BY <1>3, Sizes
    <3>4. BatchSize * y = y * BatchSize
      BY <3>1, Sizes
    <3> DEFINE u == tasksProcessed * BatchSize
               w == y * BatchSize
    <3>5. u \in Int /\ w \in Int /\ u + Capacity <= w
      BY <1>1, <1>3, <3>1, <3>2, <3>3, <3>4, Sizes
    <3>6. startP = u - TupleSize /\ w <= endP
      BY <1>3, <2>1
    <3> HIDE DEF u, w
    <3> QED BY <1>3, <1>4, <3>5, <3>6, Sizes
  <2> QED BY <1>2, <1>3, <2>2 DEF InFlightBound
<1> QED BY <1>3, <1>5, <1>6

----------------------------------------------------------------------------
(* Every step preserves the inductive invariant.                           *)

\* What a step that moves neither data nor tasks preserves.
LEMMA Frame ==
    ASSUME IInv,
           UNCHANGED <<startP, endP, wraps, mem, tasksProcessed, nextTask, tasks>>
    PROVE  TaskInv' /\ ContentInv' /\ PreviousTupleRead' /\ StartFollowsTasks'
<1>1. TaskInv'
  BY DEF IInv, TaskInv, normalise
<1>2. ContentInv'
  BY DEF IInv, ContentInv, normalise
<1>3. PreviousTupleRead' /\ StartFollowsTasks'
  BY DEF IInv, PreviousTupleRead, StartFollowsTasks
<1> QED BY <1>1, <1>2, <1>3

\* What a step that moves no task preserves.
LEMMA QueueFrame ==
    ASSUME IInv, dpc # "enqueue", dpc' # "enqueue",
           UNCHANGED <<tasksProcessed, nextTask, pending, queue, tasks>>
    PROVE  QueueInv'
BY DEF IInv, QueueInv

\* Calling dispatch.
LEMMA DispatchStep ==
    ASSUME IInv, NEW len \in Lengths, dispatch(len)
    PROVE  IInv'
<1> USE DEF IInv, dispatch, bufferVars
<1>1. TypeOK'
  BY DEF TypeOK
<1>2. PointersInv'
  BY DEF PointersInv
<1>3. NoOverrun'
  BY DEF NoOverrun
<1>4. TaskInv' /\ ContentInv' /\ PreviousTupleRead' /\ StartFollowsTasks'
  BY Frame
<1>5. QueueInv'
  BY QueueFrame
<1> QED BY <1>1, <1>2, <1>3, <1>4, <1>5

\* A put that finds no room: only the cached start pointer and the number of
\* merge tasks change.
LEMMA DispatchBlockedStep ==
    ASSUME IInv, dispatchBlocked
    PROVE  IInv'
<1> USE DEF IInv, dispatchBlocked, putReject
<1>1. temp' \in {startP, temp} /\ mergeTasks' \in {mergeTasks, mergeTasks + 1}
  BY DEF freshTemp, tryCreateNonProcessingTasks
<1>2. TypeOK'
  BY <1>1 DEF TypeOK
<1>3. PointersInv'
  BY DEF PointersInv
<1>4. NoOverrun'
  BY <1>1 DEF NoOverrun, TypeOK
<1>5. TaskInv' /\ ContentInv' /\ PreviousTupleRead' /\ StartFollowsTasks'
  BY Frame
<1>6. QueueInv'
  BY QueueFrame
<1> QED BY <1>2, <1>3, <1>4, <1>5, <1>6

\* A put that finds room: the cached start pointer is not ahead of the real one,
\* so the room is there.
LEMMA DispatchAdmittedStep ==
    ASSUME IInv, dispatchAdmitted
    PROVE  IInv'
<1> USE DEF IInv, dispatchAdmitted, putAdmit
<1>1. temp' \in {startP, temp} /\ temp' > (endP + length - 1) - Capacity
  BY DEF freshTemp, wrapPoint
<1>2. TypeOK'
  BY <1>1 DEF TypeOK
<1>3. PointersInv'
  BY DEF PointersInv
<1>4. NoOverrun'
  <2>1. /\ startP \in Nat /\ temp \in Nat /\ endP \in Nat /\ length \in Nat
        /\ temp <= startP
    BY DispatcherAssumption DEF TypeOK, NoOverrun
  <2>2. temp' <= startP
    BY <1>1, <2>1
  <2>3. (endP + length) - startP <= Capacity
    BY <1>1, <2>1, <2>2, Sizes
  <2> QED BY <2>2, <2>3 DEF NoOverrun
<1>5. TaskInv' /\ ContentInv' /\ PreviousTupleRead' /\ StartFollowsTasks'
  BY Frame
<1>6. QueueInv'
  BY QueueFrame
<1> QED BY <1>2, <1>3, <1>4, <1>5, <1>6

\* The copy publishes what was admitted.
LEMMA DispatchCopyStep ==
    ASSUME IInv, dispatchCopy
    PROVE  IInv'
<1> USE DEF IInv, dispatchCopy
<1>1. /\ length \in Nat \ {0} /\ length <= Capacity
      /\ endP' = endP + length /\ accumulated' = accumulated + length
      /\ wraps' \in {wraps, wraps + 1}
      /\ UNCHANGED <<startP, temp, tasksProcessed>>
  BY AdmittedFits DEF putCopy
<1>2. mem' \in [Index -> Int] /\ ContentInv'
  BY <1>1, PutKeepsContent
<1>3. TypeOK'
  BY <1>1, <1>2 DEF TypeOK
<1>4. PointersInv'
  <2> DEFINE b == (nextTask - 1) * BatchSize
  <2>1. b \in Int /\ endP \in Nat
    BY Sizes DEF TypeOK
  <2>2. b <= endP'
    <3> HIDE DEF b
    <3> QED BY <1>1, <2>1 DEF PointersInv, b
  <2> QED BY <1>1, <2>2 DEF PointersInv
<1>5. NoOverrun'
  BY <1>1 DEF NoOverrun
<1>6. TaskInv'
  BY <1>1 DEF TaskInv, normalise
<1>7. PreviousTupleRead' /\ StartFollowsTasks'
  BY <1>1 DEF PreviousTupleRead, StartFollowsTasks
<1>8. QueueInv'
  BY <1>1, QueueFrame
<1> QED BY <1>2, <1>3, <1>4, <1>5, <1>6, <1>7, <1>8

\* newTaskFor: the new task is where its id says, and the tuple it reads of the
\* previous batch has not been overwritten.
LEMMA AssembleTaskStep ==
    ASSUME IInv, assembleTask
    PROVE  IInv'
<1> USE DEF IInv, assembleTask, bufferVars
<1> DEFINE k == nextTask - 1
           p == normalise(thisBatchStart)
           t == newTaskFor
<1>1. /\ k \in Nat /\ nextTask \in Nat /\ endP \in Nat /\ startP \in Nat
      /\ tasksProcessed \in Nat /\ tasksProcessed <= k
      /\ thisBatchStart = k * BatchSize
      /\ thisBatchStart \in Nat /\ nextBatchEnd \in Nat
      /\ nextBatchEnd = thisBatchStart + BatchSize
      /\ thisBatchStart + BatchSize <= endP /\ endP <= MaxOffset
      /\ (nextTask - 1) * BatchSize <= endP
  BY DEF TypeOK, PointersInv
<1>2. /\ p \in Nat
      /\ p = 0 \/ p >= BatchSize
      /\ p + BatchSize <= Capacity
      /\ t = [id |-> nextTask, p |-> p, q |-> p + BatchSize,
              free |-> p + BatchSize - 1 - TupleSize,
              b |-> thisBatchStart, d |-> nextBatchEnd,
              prev |-> IF thisBatchStart = 0 THEN Unwritten
                       ELSE mem[prevEndIndex(p)]]
  <2> HIDE DEF k
  <2> QED BY <1>1, NewTaskShape
<1>3. nextTask' = nextTask + 1
  <2>1. nextTask * BatchSize = thisBatchStart + BatchSize
    BY <1>1, Sizes
  <2>2. MaxOffset \in Nat /\ IntMax \in Nat /\ MaxOffset < (IntMax - 2) * BatchSize
    BY DispatcherAssumption, TaskIdAssumption
  <2>3. ~(IntMax - 2 < nextTask + 1)
    <3> SUFFICES ASSUME IntMax - 2 < nextTask + 1 PROVE FALSE
      OBVIOUS
    <3>1. (IntMax - 2) * BatchSize <= nextTask * BatchSize
      <4>1. CASE IntMax - 2 = nextTask
        BY <1>1, <4>1, Sizes
      <4>2. CASE IntMax - 2 < nextTask
        <5>1. BatchSize * (IntMax - 2) + BatchSize <= BatchSize * nextTask
          BY <1>1, <2>2, <4>2, Sizes, MulMono
        <5> QED BY <1>1, <2>2, <5>1, Sizes
      <4> QED BY <1>1, <2>2, <4>1, <4>2
    <3> DEFINE x == (IntMax - 2) * BatchSize
               y == nextTask * BatchSize
    <3>2. x \in Int /\ y \in Int
      BY <1>1, <2>2, Sizes
    <3>3. MaxOffset < x /\ x <= y /\ y <= MaxOffset
      BY <1>1, <2>1, <2>2, <3>1
    <3> HIDE DEF x, y
    <3> QED BY <2>2, <3>2, <3>3
  <2> QED BY <1>1, <2>2, <2>3 DEF getTaskNumber
<1>4. ASSUME thisBatchStart # 0
      PROVE  /\ mem[prevEndIndex(p)] \in Int
             /\ CopyDataOnInsert => mem[prevEndIndex(p)] = thisBatchStart - TupleSize
  <2> DEFINE o == thisBatchStart - TupleSize
  <2>1. o \in Nat /\ o < endP /\ TupleSize \in 0 .. Capacity
        /\ o + TupleSize = thisBatchStart
    <3>1. thisBatchStart >= BatchSize
      <4>1. k >= 1
        BY <1>1, <1>4, Sizes
      <4> QED BY <1>1, <4>1, Sizes
    <3> HIDE DEF k
    <3> QED BY <1>1, <3>1, Sizes
  <2>2. normalise(o) = prevEndIndex(p)
    <3>1. normalise(o) \in Nat /\ normalise(o) < Capacity
      BY <2>1, NormaliseRange
    <3>2. p = IF normalise(o) + TupleSize < Capacity THEN normalise(o) + TupleSize
              ELSE normalise(o) + TupleSize - Capacity
      <4> HIDE DEF o
      <4> QED BY <2>1, Sizes, ModShift DEF normalise
    <3> HIDE DEF o, p
    <3> QED BY <1>2, <3>1, <3>2, Sizes DEF prevEndIndex
  <2>3. startP <= o
    <3>1. CASE tasksProcessed = 0
      BY <2>1, <3>1 DEF StartFollowsTasks
    <3>2. CASE tasksProcessed # 0
      <4> DEFINE x == tasksProcessed * BatchSize
      <4>1. x <= thisBatchStart /\ x \in Nat
        BY <1>1, StartBehind, Sizes
      <4>2. startP = x - TupleSize
        BY <3>2 DEF StartFollowsTasks
      <4> HIDE DEF x
      <4> QED BY <1>1, <4>1, <4>2, Sizes
    <3> QED BY <3>1, <3>2
  <2>4. endP - startP <= Capacity
    BY UnfreedFits
  <2> HIDE DEF o
  <2>5. normalise(o) \in Index /\ o \in 0 .. endP - 1 /\ endP - Capacity <= o
    BY <1>1, <2>1, <2>3, <2>4, NormaliseRange, Sizes
  <2>6. mem[normalise(o)] \in Int
    BY <2>5 DEF TypeOK
  <2>7. CopyDataOnInsert => mem[normalise(o)] = o
    BY <2>5 DEF ContentInv
  <2> QED BY <2>2, <2>6, <2>7 DEF o
<1>5. t \in Task
  <2>1. p + BatchSize - 1 - TupleSize \in Int /\ p + BatchSize \in Nat
    BY <1>2, Sizes
  <2>2. (IF thisBatchStart = 0 THEN Unwritten ELSE mem[prevEndIndex(p)]) \in Int
    BY <1>4 DEF Unwritten
  <2> HIDE DEF p, t
  <2> QED BY <1>1, <1>2, <2>1, <2>2 DEF Task
<1>6. TypeOK'
  <2> HIDE DEF t
  <2> QED BY <1>1, <1>3, <1>5 DEF TypeOK, t
<1>7. PointersInv'
  <2>1. (nextTask' - 1) * BatchSize = thisBatchStart + BatchSize
    BY <1>1, <1>3, Sizes
  <2>2. (nextTask' - 2) * BatchSize = thisBatchStart
    BY <1>1, <1>3, Sizes
  <2>3. UNCHANGED <<accumulated, endP, thisBatchStart, nextBatchEnd, tasksProcessed>>
        /\ dpc' = "enqueue"
    OBVIOUS
  <2>4. nextTask' >= 2 /\ tasksProcessed < nextTask'
    BY <1>1, <1>3
  <2>5. accumulated = endP
    BY DEF PointersInv
  <2> HIDE DEF assembleTask, k, p, t, IInv
  <2> QED BY <1>1, <2>1, <2>2, <2>3, <2>4, <2>5 DEF PointersInv
<1>8. TaskInv'
  <2>1. /\ tasksProcessed < t.id /\ t.id < nextTask'
        /\ t.b = (t.id - 1) * BatchSize
        /\ t.p = normalise(t.b)
        /\ t.q = t.p + BatchSize
        /\ t.q <= Capacity
        /\ t.free = t.p + BatchSize - 1 - TupleSize
        /\ t.id = nextTask
    <3> HIDE DEF t
    <3> QED BY <1>1, <1>2, <1>3
  <2>2. ASSUME NEW u \in tasks
        PROVE  /\ tasksProcessed < u.id /\ u.id < nextTask'
               /\ u.b = (u.id - 1) * BatchSize
               /\ u.p = normalise(u.b)
               /\ u.q = u.p + BatchSize
               /\ u.q <= Capacity
               /\ u.free = u.p + BatchSize - 1 - TupleSize
               /\ u.id # nextTask
    <3>1. u.id \in Nat
      BY DEF TypeOK, Task
    <3> QED BY <1>1, <1>3, <3>1 DEF TaskInv
  <2>3. tasks' = tasks \cup {t} /\ tasksProcessed' = tasksProcessed
    OBVIOUS
  <2>4. \A u, w \in tasks : u.id = w.id => u = w
    BY DEF TaskInv
  <2> HIDE DEF t, IInv, assembleTask
  <2>5. \A u, w \in tasks' : u.id = w.id => u = w
    BY <2>1, <2>2, <2>3, <2>4
  <2>6. \A u \in tasks' :
          /\ tasksProcessed' < u.id /\ u.id < nextTask'
          /\ u.b = (u.id - 1) * BatchSize
          /\ u.p = normalise(u.b)
          /\ u.q = u.p + BatchSize
          /\ u.q <= Capacity
          /\ u.free = u.p + BatchSize - 1 - TupleSize
    BY <2>1, <2>2, <2>3, Zenon
  <2> QED BY <2>5, <2>6 DEF TaskInv, normalise
<1>9. PreviousTupleRead'
  <2> SUFFICES ASSUME CopyDataOnInsert, NEW u \in tasks'
               PROVE  u.prev = IF u.id = 1 THEN Unwritten ELSE u.b - TupleSize
    BY DEF PreviousTupleRead
  <2>1. CASE u \in tasks
    BY <2>1 DEF PreviousTupleRead
  <2>2. CASE u = t
    <3>1. thisBatchStart = 0 <=> nextTask = 1
      BY <1>1, Sizes
    <3>2. u.prev = (IF thisBatchStart = 0 THEN Unwritten ELSE mem[prevEndIndex(p)])
          /\ u.id = nextTask /\ u.b = thisBatchStart
      <4> HIDE DEF t
      <4> QED BY <1>2, <2>2
    <3> QED BY <1>4, <3>1, <3>2
  <2> QED BY <2>1, <2>2
<1>10. ContentInv'
  BY DEF ContentInv, normalise
<1>11. StartFollowsTasks' /\ NoOverrun'
  BY DEF StartFollowsTasks, NoOverrun
<1>12. QueueInv'
  <2>1. t.id = nextTask /\ t \notin queue /\ pending' = {t} /\ tasks' = tasks \cup {t}
    <3>1. t.id = nextTask /\ pending' = {t} /\ tasks' = tasks \cup {t}
      BY <1>2
    <3>2. \A u \in queue : u.id < nextTask
      BY DEF QueueInv, TaskInv
    <3> QED BY <1>1, <3>1, <3>2
  <2> HIDE DEF t
  <2>2. \A id \in tasksProcessed + 1 .. nextTask : \E u \in tasks' : u.id = id
    <3> SUFFICES ASSUME NEW id \in tasksProcessed + 1 .. nextTask
                 PROVE  \E u \in tasks' : u.id = id
      OBVIOUS
    <3>1. CASE id = nextTask
      BY <2>1, <3>1
    <3>2. CASE id # nextTask
      BY <1>1, <2>1, <3>2 DEF QueueInv
    <3> QED BY <3>1, <3>2
  <2>3. nextTask' - 1 = nextTask /\ tasksProcessed' = tasksProcessed /\ queue' = queue
        /\ dpc' = "enqueue"
    BY <1>1, <1>3
  <2>4. queue' \subseteq tasks' /\ pending' \subseteq tasks' \ queue' /\ pending' # {}
    BY <2>1, <2>3 DEF QueueInv
  <2>5. \A u \in pending' : dpc' = "enqueue" /\ u.id = nextTask' - 1
    BY <2>1, <2>3
  <2> QED BY <2>2, <2>3, <2>4, <2>5 DEF QueueInv
<1> QED BY <1>6, <1>7, <1>8, <1>9, <1>10, <1>11, <1>12

\* The enqueue that ends newTaskFor, and assemble's move to the next batch.
LEMMA EnqueueTaskStep ==
    ASSUME IInv, enqueueTask
    PROVE  IInv'
<1> USE DEF IInv, enqueueTask, bufferVars
<1>1. TypeOK'
  BY Sizes DEF TypeOK
<1>2. PointersInv'
  <2>1. nextTask \in Nat /\ thisBatchStart = (nextTask - 2) * BatchSize
        /\ nextBatchEnd = thisBatchStart + BatchSize
    BY DEF TypeOK, PointersInv
  <2>2. thisBatchStart' = (nextTask - 1) * BatchSize
    BY <2>1, Sizes
  <2>3. nextBatchEnd' = thisBatchStart' + BatchSize
    BY <2>1
  <2>4. nextTask >= 1
    BY <2>1 DEF PointersInv
  <2> QED BY <2>2, <2>3, <2>4 DEF PointersInv
<1>3. NoOverrun'
  BY DEF NoOverrun
<1>4. TaskInv' /\ ContentInv' /\ PreviousTupleRead' /\ StartFollowsTasks'
  BY Frame
<1>5. QueueInv'
  BY DEF QueueInv
<1> QED BY <1>1, <1>2, <1>3, <1>4, <1>5

\* assemble finds no complete batch.
LEMMA AssembleDoneStep ==
    ASSUME IInv, assembleDone
    PROVE  IInv'
<1> USE DEF IInv, assembleDone, bufferVars
<1>1. TypeOK'
  BY DEF TypeOK
<1>2. PointersInv'
  BY DEF PointersInv
<1>3. NoOverrun'
  BY DEF NoOverrun
<1>4. TaskInv' /\ ContentInv' /\ PreviousTupleRead' /\ StartFollowsTasks'
  BY Frame
<1>5. QueueInv'
  BY QueueFrame
<1> QED BY <1>1, <1>2, <1>3, <1>4, <1>5

\* A worker takes a processing task or a merge task.
LEMMA TakeStep ==
    ASSUME IInv, takeMerge \/ \E t \in queue : take(t)
    PROVE  IInv'
<1> USE DEF IInv, bufferVars
<1>1. UNCHANGED <<startP, endP, temp, wraps, mem, tasksProcessed, dpc, length,
                  accumulated, thisBatchStart, nextBatchEnd, nextTask, pending, tasks>>
  BY DEF take, takeMerge
<1>2. TypeOK'
  <2>1. mergeTasks' \in Nat /\ queue' \subseteq queue
    BY DEF take, takeMerge, TypeOK
  <2> QED BY <1>1, <2>1 DEF TypeOK
<1>3. PointersInv'
  BY <1>1 DEF PointersInv
<1>4. NoOverrun'
  BY <1>1 DEF NoOverrun
<1>5. TaskInv' /\ ContentInv' /\ PreviousTupleRead' /\ StartFollowsTasks'
  BY <1>1, Frame
<1>6. QueueInv'
  <2>1. queue' \subseteq queue
    BY DEF take, takeMerge
  <2> QED BY <1>1, <2>1 DEF QueueInv
<1> QED BY <1>2, <1>3, <1>4, <1>5, <1>6

\* free of the oldest task moves the start pointer by one batch.
LEMMA FreeInputStep ==
    ASSUME IInv, NEW t \in tasks, freeInput(t)
    PROVE  IInv'
<1> USE DEF IInv, freeInput
<1> DEFINE k == tasksProcessed
<1>1. /\ k \in Nat /\ t.id = k + 1 /\ t.id < nextTask /\ nextTask \in Nat
      /\ t.b = (t.id - 1) * BatchSize
      /\ t.free = normalise(t.b) + BatchSize - 1 - TupleSize
      /\ startP \in Nat
  BY DEF TypeOK, TaskInv
<1>2. t.b = k * BatchSize
  BY <1>1
<1>3. startP' = startP + freedBytes(t.free) /\ tasksProcessed' = k + 1
      /\ UNCHANGED <<endP, temp, wraps, mem>>
  BY DEF free
<1>4. startP' = (k + 1) * BatchSize - TupleSize
  BY <1>1, <1>2, <1>3, FreeDistance DEF StartFollowsTasks
<1>5. startP <= startP' /\ startP' \in Nat
  <2> DEFINE x == k * BatchSize
  <2>1. x \in Nat /\ startP <= x /\ startP' = x + BatchSize - TupleSize
    BY <1>1, <1>4, StartBehind, Sizes
  <2> HIDE DEF x
  <2> QED BY <1>1, <2>1, Sizes
<1>6. TypeOK'
  BY <1>1, <1>3, <1>5 DEF TypeOK
<1>7. PointersInv'
  BY <1>1, <1>3 DEF PointersInv
<1>8. StartFollowsTasks'
  BY <1>1, <1>3, <1>4 DEF StartFollowsTasks
<1>9. NoOverrun'
  <2>1. /\ temp \in Nat /\ endP \in Nat
        /\ (IF dpc = "copy" THEN length ELSE 0) \in Int
    BY DispatcherAssumption DEF TypeOK
  <2>2. dpc' = dpc /\ length' = length
    OBVIOUS
  <2> QED BY <1>1, <1>3, <1>5, <2>1, <2>2, Sizes DEF NoOverrun
<1>10. TaskInv'
  <2>1. \A u \in tasks' : tasksProcessed' < u.id
    <3> SUFFICES ASSUME NEW u \in tasks, u # t PROVE k + 1 < u.id
      BY <1>3
    <3>1. u.id \in Nat /\ k < u.id /\ u.id # t.id
      BY DEF TypeOK, TaskInv, Task
    <3> QED BY <1>1, <3>1
  <2>2. tasks' \subseteq tasks
    OBVIOUS
  <2> QED BY <2>1, <2>2 DEF TaskInv, normalise
<1>11. ContentInv'
  BY <1>3 DEF ContentInv, normalise
<1>12. PreviousTupleRead'
  BY DEF PreviousTupleRead
<1>13. QueueInv'
  <2>1. \A id \in k + 2 .. nextTask - 1 : \E u \in tasks' : u.id = id
    <3> SUFFICES ASSUME NEW id \in k + 2 .. nextTask - 1
                 PROVE  \E u \in tasks' : u.id = id
      OBVIOUS
    <3>1. PICK u \in tasks : u.id = id
      BY <1>1 DEF QueueInv
    <3>2. u # t
      BY <1>1, <3>1
    <3> QED BY <3>1, <3>2
  <2>2. queue' \subseteq tasks' /\ pending' \subseteq tasks' \ queue'
    BY DEF QueueInv
  <2>3. (tasksProcessed + 1)' = k + 2
    BY <1>1, <1>3
  <2> QED BY <2>1, <2>2, <2>3 DEF QueueInv
<1> QED BY <1>6, <1>7, <1>8, <1>9, <1>10, <1>11, <1>12, <1>13

----------------------------------------------------------------------------
(* The theorems.                                                           *)

\* IInv holds initially.
LEMMA InitIInv == Init => IInv
<1> SUFFICES ASSUME Init PROVE IInv
  OBVIOUS
<1> USE DEF Init, BufferInit
<1>1. TypeOK
  BY Sizes DEF TypeOK, Unwritten
<1>2. PointersInv
  BY Sizes, DispatcherAssumption DEF PointersInv
<1>3. TaskInv /\ PreviousTupleRead /\ StartFollowsTasks
  BY DEF TaskInv, PreviousTupleRead, StartFollowsTasks
<1>4. ContentInv
  BY DEF ContentInv, Index
<1>5. NoOverrun
  BY Sizes DEF NoOverrun
<1>6. QueueInv
  BY DEF QueueInv
<1> QED BY <1>1, <1>2, <1>3, <1>4, <1>5, <1>6 DEF IInv

\* IInv is inductive: one case per action of the dispatcher and of the workers.
LEMMA NextIInv == IInv /\ [Next]_vars => IInv'
<1> SUFFICES ASSUME IInv, [Next]_vars PROVE IInv'
  OBVIOUS
<1>1. ASSUME NEW len \in Lengths, dispatch(len) PROVE IInv'
  BY <1>1, DispatchStep
<1>2. CASE dispatchBlocked
  BY <1>2, DispatchBlockedStep
<1>3. CASE dispatchAdmitted
  BY <1>3, DispatchAdmittedStep
<1>4. CASE dispatchCopy
  BY <1>4, DispatchCopyStep
<1>5. CASE assembleTask
  BY <1>5, AssembleTaskStep
<1>6. CASE enqueueTask
  BY <1>6, EnqueueTaskStep
<1>7. CASE assembleDone
  BY <1>7, AssembleDoneStep
<1>8. CASE takeMerge \/ \E t \in queue : take(t)
  BY <1>8, TakeStep
<1>9. ASSUME NEW t \in tasks, freeInput(t) PROVE IInv'
  BY <1>9, FreeInputStep
<1>10. CASE UNCHANGED vars
  <2> USE <1>10 DEF IInv, vars, bufferVars, dispatcherVars
  <2>1. TypeOK' /\ PointersInv' /\ NoOverrun'
    BY DEF TypeOK, PointersInv, NoOverrun
  <2>2. TaskInv' /\ ContentInv' /\ PreviousTupleRead' /\ StartFollowsTasks'
    BY Frame
  <2>3. QueueInv'
    BY DEF QueueInv
  <2> QED BY <2>1, <2>2, <2>3
<1> QED BY <1>1, <1>2, <1>3, <1>4, <1>5, <1>6, <1>7, <1>8, <1>9, <1>10
        DEF Next, Dispatcher, quiescent

\* The inductive invariant holds in every reachable state.
THEOREM Invariance == Spec => []IInv
BY InitIInv, NextIInv, PTL DEF Spec

\* Type correctness of the dispatcher and its buffer.
THEOREM TypeCorrect == Spec => []TypeOK
<1>1. IInv => TypeOK
  BY DEF IInv
<1> QED BY <1>1, Invariance, PTL

\* For every buffer, batch and tuple size and every sequence of dispatch lengths,
\* put never overwrites a batch a worker may still read.
THEOREM BatchesReadable == Spec => []BatchReadable
<1>1. IInv => BatchReadable
  BY IInvReadable
<1> QED BY <1>1, Invariance, PTL

\* newTaskFor reads the last tuple of the previous batch, whoever frees meanwhile.
THEOREM PreviousTuplesRead == Spec => []PreviousTupleRead
<1>1. IInv => PreviousTupleRead
  BY DEF IInv
<1> QED BY <1>1, Invariance, PTL

\* free gives back exactly the bytes of the batches forwarded, and put admits no
\* more than the room they leave.
THEOREM NoOverruns == Spec => [](StartFollowsTasks /\ NoOverrun)
<1>1. IInv => StartFollowsTasks /\ NoOverrun
  BY DEF IInv
<1> QED BY <1>1, Invariance, PTL

\* The dispatcher never leads the frees by more than the batches of the buffer:
\* what the result handler's ring of slots relies on.
THEOREM InFlightBounded == Spec => []InFlightBound
<1>1. IInv => InFlightBound
  BY IInvInFlight
<1> QED BY <1>1, Invariance, PTL
============================================================================
