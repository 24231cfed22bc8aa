--------------------------- MODULE ModArithmetic ---------------------------
(***************************************************************************)
(* Facts about / and % that the proofs about the buffer and the slot ring   *)
(* rest on, for every divisor.                                             *)
(***************************************************************************)
EXTENDS Integers, TLAPS

\* Multiples of c are at least c apart.
LEMMA MulMono ==
    ASSUME NEW c \in Nat \ {0}, NEW x \in Int, NEW y \in Int, x < y
    PROVE  c * x + c <= c * y
BY SMT

\* Quotient and remainder; the remainder is what the code's mask computes.
LEMMA DivMod ==
    ASSUME NEW a \in Int, NEW c \in Nat \ {0}
    PROVE  /\ a % c \in 0 .. c - 1
           /\ a \div c \in Int
           /\ a = c * (a \div c) + (a % c)
BY SMT

\* The remainder is the only one of its kind.
LEMMA ModUnique ==
    ASSUME NEW a \in Int, NEW c \in Nat \ {0}, NEW k \in Int,
           NEW r \in 0 .. c - 1, a = c * k + r
    PROVE  a % c = r
<1> DEFINE d == a \div c
           m == a % c
<1>1. m \in 0 .. c - 1 /\ d \in Int /\ a = c * d + m
  BY DivMod
<1> HIDE DEF d, m
<1>2. CASE d < k
  <2>1. c * d + c <= c * k
    BY <1>2, <1>1, MulMono
  <2> DEFINE x == c * d  y == c * k
  <2>2. x \in Int /\ y \in Int BY <1>1
  <2> HIDE DEF x, y
  <2> QED BY <2>1, <2>2, <1>1 DEF x, y
<1>3. CASE k < d
  <2>1. c * k + c <= c * d
    BY <1>3, <1>1, MulMono
  <2> QED BY <2>1, <1>1
<1>4. CASE d = k
  <2>1. m = r BY <1>4, <1>1
  <2> QED BY <2>1 DEF m
<1> QED BY <1>1, <1>2, <1>3, <1>4

\* Moving an index by at most one lap wraps it at most once.
LEMMA ModShift ==
    ASSUME NEW a \in Nat, NEW c \in Nat \ {0}, NEW j \in 0 .. c
    PROVE  (a + j) % c = IF (a % c) + j < c THEN (a % c) + j ELSE (a % c) + j - c
<1> DEFINE d == a \div c
           m == a % c
<1>1. m \in 0 .. c - 1 /\ d \in Int /\ a = c * d + m
  BY DivMod
<1> HIDE DEF d, m
<1>2. CASE m + j < c
  <2>1. a + j = c * d + (m + j) /\ m + j \in 0 .. c - 1
    BY <1>1, <1>2
  <2>2. (a + j) % c = m + j
    BY <2>1, <1>1, ModUnique
  <2> QED BY <2>2, <1>2 DEF m
<1>3. CASE ~(m + j < c)
  <2> DEFINE x == a + j
             k == d + 1
             r == m + j - c
  <2>1. x \in Int /\ k \in Int /\ x = c * k + r /\ r \in 0 .. c - 1
    BY <1>1, <1>3
  <2> HIDE DEF x, k, r
  <2>2. x % c = r
    BY <2>1, ModUnique
  <2> QED BY <2>2, <1>3 DEF m, x, r
<1> QED BY <1>2, <1>3

\* A multiple of b, reduced by a multiple of b, leaves room for another b: how
\* power-of-two batches lie in a power-of-two buffer.
LEMMA ModMultiple ==
    ASSUME NEW b \in Nat \ {0}, NEW n \in Nat \ {0}, NEW k \in Nat
    PROVE  \E r \in 0 .. n - 1 : (k * b) % (n * b) = r * b /\ r * b + b <= n * b
<1> DEFINE d == k \div n
           r == k % n
<1>1. r \in 0 .. n - 1 /\ d \in Int /\ k = n * d + r
  BY DivMod
<1> HIDE DEF d, r
<1>2. n * b \in Nat \ {0}
  BY SMT
<1>3. k * b = (n * b) * d + r * b
  BY <1>1
<1>4. b * r + b <= b * n
  BY <1>1, MulMono
<1>5. r * b + b <= n * b /\ r * b \in Nat
  BY <1>1, <1>4
<1>6. (k * b) % (n * b) = r * b
  <2> DEFINE x == k * b
             c == n * b
             s == r * b
  <2>1. x \in Int /\ c \in Nat \ {0} /\ s \in 0 .. c - 1 /\ x = c * d + s
    BY <1>1, <1>2, <1>3, <1>5
  <2> HIDE DEF x, c, s
  <2>2. x % c = s
    BY <1>1, <2>1, ModUnique
  <2> QED BY <2>2 DEF x, c, s
<1> QED BY <1>1, <1>5, <1>6

\* An offset is never smaller than its index.
LEMMA ModLe ==
    ASSUME NEW a \in Nat, NEW c \in Nat \ {0}
    PROVE  /\ a % c <= a
           /\ a < c => a % c = a
<1>1. CASE a < c
  <2>1. a = c * 0 + a /\ a \in 0 .. c - 1
    BY <1>1
  <2> QED BY <2>1, ModUnique
<1>2. CASE a >= c
  BY <1>2, DivMod
<1> QED BY <1>1, <1>2

\* Two offsets less than a lap apart have different indices.
LEMMA ModDistinct ==
    ASSUME NEW a \in Nat, NEW b \in Nat, NEW c \in Nat \ {0}, a < b, b < a + c
    PROVE  a % c # b % c
<1>1. PICK j \in 0 .. c : b = a + j /\ 0 < j /\ j < c
  <2>1. b - a \in 0 .. c /\ b = a + (b - a) /\ 0 < b - a /\ b - a < c
    OBVIOUS
  <2> QED BY <2>1
<1>2. b % c = IF (a % c) + j < c THEN (a % c) + j ELSE (a % c) + j - c
  BY <1>1, ModShift
<1>3. a % c \in 0 .. c - 1
  BY DivMod
<1> QED BY <1>1, <1>2, <1>3

\* Dividing a multiple gives the factor back.
LEMMA DivMultiple ==
    ASSUME NEW n \in Nat, NEW c \in Nat \ {0}
    PROVE  (n * c) \div c = n
<1> DEFINE a == n * c
           d == a \div c
<1>1. a \in Int /\ a = c * n + 0 /\ 0 \in 0 .. c - 1
  OBVIOUS
<1>2. a % c = 0
  <2> HIDE DEF a
  <2> QED BY <1>1, ModUnique
<1>3. d \in Int /\ a = c * d + (a % c)
  <2>1. (a \div c) \in Int /\ a = c * (a \div c) + (a % c)
    <3> HIDE DEF a
    <3> QED BY <1>1, DivMod, Zenon
  <2> QED BY <2>1, Zenon
<1>4. c * d = c * n
  BY <1>1, <1>2, <1>3
<1> HIDE DEF d
<1>5. ~(d < n) /\ ~(n < d)
  BY <1>3, <1>4, MulMono
<1>6. d = n
  BY <1>3, <1>5
<1> QED BY <1>6 DEF d

\* Dividing keeps the order of multiples.
LEMMA MulCancel ==
    ASSUME NEW c \in Nat \ {0}, NEW x \in Int, NEW y \in Int, x * c <= y * c
    PROVE  x <= y
<1> SUFFICES ASSUME y < x PROVE FALSE
  OBVIOUS
<1>1. c * y + c <= c * x
  BY MulMono
<1>2. c * x = x * c /\ c * y = y * c /\ c * x \in Int /\ c * y \in Int
  OBVIOUS
<1> QED BY <1>1, <1>2

\* The quotient is the largest factor whose multiple fits.
LEMMA DivLargest ==
    ASSUME NEW a \in Nat, NEW c \in Nat \ {0}
    PROVE  /\ a \div c \in Nat
           /\ \A i \in Nat : i * c <= a => i <= a \div c
<1> DEFINE q == a \div c
           r == a % c
<1>1. r \in 0 .. c - 1 /\ q \in Int /\ a = c * q + r
  BY DivMod
<1> HIDE DEF q, r
<1>2. ASSUME NEW i \in Int, q < i PROVE a < i * c
  <2>1. c * q + c <= c * i
    BY <1>1, <1>2, MulMono
  <2>2. c * i = i * c /\ c * i \in Int /\ c * q \in Int
    BY <1>1, <1>2
  <2> QED BY <1>1, <2>1, <2>2
<1>3. ~(q < 0)
  BY <1>2
<1>4. q \in Nat /\ \A i \in Nat : i * c <= a => i <= q
  BY <1>1, <1>2, <1>3
<1> QED BY <1>4 DEF q
============================================================================
