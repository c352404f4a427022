---------------------------- MODULE ArithmeticProofs --------------------------
(***************************************************************************)
(* The arithmetic of the host library is that of the integers, for numbers *)
(* of any width: the loops over words lose no carry, borrow or high word,  *)
(* the operations modulo P and N return the reduced result, and what       *)
(* invModP returns is an inverse.  And the blocks of words that are hashed *)
(* are the padded octets that they stand for.                              *)
(*                                                                         *)
(* What a loop computes is proved by induction on its rounds: a round that *)
(* goes wrong would be a first one (LeastElement).                         *)
(***************************************************************************)
EXTENDS ModField, ModInverse, KeyHashing, WellFoundedInduction, SequenceTheorems, TLAPS

-----------------------------------------------------------------------------
(* Arithmetic with a carry *)

\* A sum of two numbers below m: remainder and quotient by m.
LEMMA CarryOf ==
  ASSUME NEW m \in Nat \ {0}, NEW a \in 0 .. 2 * m - 1
  PROVE  /\ a < m  => a % m = a /\ a \div m = 0
         /\ a >= m => a % m = a - m /\ a \div m = 1
<1>1. a = m * (a \div m) + (a % m) /\ a % m \in 0 .. m - 1 /\ a \div m \in Int
  BY SMT
<1>2. CASE a < m
  <2>1. a \div m = 0
    BY <1>1, <1>2, SMT
  <2> QED BY <1>1, <1>2, <2>1, SMT
<1>3. CASE a >= m
  <2>1. a \div m = 1
    BY <1>1, <1>3, SMT
  <2> QED BY <1>1, <1>3, <2>1, SMT
<1> QED BY <1>2, <1>3, SMT

LEMMA CarryOfSum ==
  ASSUME NEW m \in Nat \ {0}, NEW a \in Int, NEW b \in Int, a + b \in 0 .. 2 * m - 1
  PROVE  /\ a + b < m  => (a + b) % m = a + b /\ (a + b) \div m = 0
         /\ a + b >= m => (a + b) % m = a + b - m /\ (a + b) \div m = 1
<1>1. PICK y \in Int : y = a + b
  OBVIOUS
<1>2. /\ y < m  => y % m = y /\ y \div m = 0
      /\ y >= m => y % m = y - m /\ y \div m = 1
  BY <1>1, CarryOf
<1> QED BY <1>1, <1>2

\* A difference of two numbers below m: its remainder by m.
LEMMA BorrowOf ==
  ASSUME NEW m \in Nat \ {0}, NEW a \in 0 .. m - 1, NEW b \in 0 .. m - 1
  PROVE  /\ (a - b) % m = a - b + Borrow(a, b) * m
         /\ (a - b) % m \in 0 .. m - 1
<1>1. a - b = m * ((a - b) \div m) + ((a - b) % m)
        /\ (a - b) % m \in 0 .. m - 1 /\ (a - b) \div m \in Int
  BY SMT
<1>2. CASE a < b
  <2>1. (a - b) \div m = -1
    BY <1>1, <1>2, SMT
  <2> QED BY <1>1, <1>2, <2>1, SMT DEF Borrow
<1>3. CASE ~(a < b)
  <2>1. (a - b) \div m = 0
    BY <1>1, <1>3, SMT
  <2> QED BY <1>1, <1>3, <2>1, SMT DEF Borrow
<1> QED BY <1>2, <1>3
-----------------------------------------------------------------------------
(* Halves *)

LEMMA HalvesOf ==
  ASSUME NEW a \in Int
  PROVE  /\ a = 2 * (a \div 2) + (a % 2) /\ a \div 2 \in Int
         /\ a % 2 \in {0, 1}
  BY SMT

LEMMA SumOfProducts ==
  ASSUME NEW a \in Int, NEW b \in Int, NEW c \in Int
  PROVE  (a + b) * c = a * c + b * c /\ (a - b) * c = a * c - b * c
         /\ c * (a + b) = c * a + c * b /\ c * (a - b) = c * a - c * b
  BY SMT

LEMMA ProductsGrow ==
  ASSUME NEW a \in Nat, NEW b \in Nat, NEW c \in Nat, a <= b
  PROVE  a * c <= b * c /\ c * a <= c * b /\ a * c \in Nat /\ c * a \in Nat
  BY SMT

\* A multiple of an odd number that is even is an even multiple.
LEMMA EvenMultiple ==
  ASSUME NEW p \in Int, p % 2 = 1, NEW z \in Int, NEW w \in Int, 2 * z = w * p
  PROVE  \E q \in Int : z = q * p
<1> DEFINE h == p \div 2
<1>1. p = 2 * h + 1 /\ h \in Int
  BY HalvesOf, SMT
<1>2. 2 * z = 2 * (w * h) + w
  BY <1>1, SMT
<1> DEFINE q == z - w * h
<1>3. q \in Int /\ w = 2 * q
  BY <1>1, <1>2, SMT
<1>4. z = q * p
  BY <1>3, <1>1, SMT
<1> QED BY <1>3, <1>4

\* A quotient and a remainder are the only ones.
LEMMA RemainderOf ==
  ASSUME NEW m \in Nat \ {0}, NEW a \in Int, NEW q \in Int, NEW r \in 0 .. m - 1,
         a = q * m + r
  PROVE  a % m = r /\ a \div m = q
<1>1. a = (a \div m) * m + (a % m) /\ a % m \in 0 .. m - 1 /\ a \div m \in Int
  BY SMT
<1>2. (q - (a \div m)) * m = (a % m) - r
  BY <1>1, SMT
<1>3. q = a \div m
  <2> DEFINE d == q - (a \div m)
  <2>1. d \in Int /\ d * m < m /\ d * m > -m
    BY <1>1, <1>2, SMT
  <2> HIDE DEF d
  <2>2. d < 1 /\ d > -1
    BY <2>1, SMT
  <2> QED BY <2>2, <2>1, <1>1, SMT DEF d
<1> QED BY <1>1, <1>2, <1>3, SMT

-----------------------------------------------------------------------------
(* Induction and recursion *)

LEMMA LeastElement ==
  ASSUME NEW S \in SUBSET Nat, S # {}
  PROVE  \E i \in S : \A j \in S : i <= j
<1>1. IsWellFoundedOn(OpToRel(<, Nat), Nat)
  BY NatLessThanWellFounded
<1>2. PICK i \in S : \A j \in S : <<j, i>> \notin OpToRel(<, Nat)
  BY <1>1, WFMin
<1>3. \A j \in S : ~(j < i)
  BY <1>2 DEF OpToRel
<1> QED BY <1>3

\* Induction over the numbers of which something holds, as a set.
LEMMA SetInduction ==
  ASSUME NEW S, 0 \in S, \A n \in Nat : n \in S => n + 1 \in S
  PROVE  Nat \subseteq S
<1> SUFFICES ASSUME Nat \ S # {}
             PROVE  FALSE
  OBVIOUS
<1>1. PICK i \in Nat \ S : \A j \in Nat \ S : i <= j
  BY LeastElement
<1>2. i # 0 /\ i - 1 \in Nat /\ ~(i <= i - 1)
  BY <1>1, SMT
<1>3. i - 1 \in S
  BY <1>1, <1>2
<1>4. (i - 1) + 1 = i
  BY <1>2, SMT
<1> QED BY <1>1, <1>2, <1>3, <1>4

\* The recursion of a loop: where it stops with a result, what it goes on with,
\* what it makes of the result of that, and what decreases on the way.
IsLoop(D, T, stop, result, next, step, measure) ==
  /\ stop \in SUBSET D /\ result \in [stop -> T]
  /\ next \in [D \ stop -> D] /\ step \in [D -> [T -> T]]
  /\ measure \in [D -> Nat]
  /\ \A x \in D \ stop : measure[next[x]] < measure[x]
RunsTo(f, D, T, stop, result, next, step) ==
  /\ f \in [D -> T]
  /\ \A x \in D : f[x] = IF x \in stop THEN result[x] ELSE step[x][f[next[x]]]

LEMMA Recursion ==
  ASSUME NEW D, NEW T, NEW stop, NEW result, NEW next, NEW step, NEW measure,
         IsLoop(D, T, stop, result, next, step, measure)
  PROVE  \E f : RunsTo(f, D, T, stop, result, next, step)
<1> USE DEF IsLoop
<1> DEFINE Below(n) == {x \in D : measure[x] < n}
           Solves(g, n) == /\ g \in [Below(n) -> T]
                           /\ \A x \in Below(n) :
                                g[x] = IF x \in stop THEN result[x] ELSE step[x][g[next[x]]]
           S == {n \in Nat : \E g : Solves(g, n)}
<1>1. \A x \in D : measure[x] \in Nat
  OBVIOUS
<1>2. \A n \in Nat : \A x \in Below(n + 1) : x \in stop \/ next[x] \in Below(n)
  BY <1>1, SMT
<1>3. 0 \in S
  <2>1. Below(0) = {}
    BY <1>1, SMT
  <2>2. Solves([x \in {} |-> 0], 0)
    BY <2>1
  <2> QED BY <2>2
<1>4. ASSUME NEW n \in Nat, n \in S
      PROVE  n + 1 \in S
  <2>1. PICK g : Solves(g, n)
    BY <1>4
  <2> DEFINE h == [x \in Below(n + 1) |->
                     IF x \in stop THEN result[x] ELSE step[x][g[next[x]]]]
  <2>2. \A x \in Below(n) : x \in Below(n + 1)
    BY <1>1, SMT
  <2>3. \A x \in Below(n) : h[x] = g[x]
    BY <2>1, <2>2
  <2>4. h \in [Below(n + 1) -> T]
    <3> SUFFICES ASSUME NEW x \in Below(n + 1), x \notin stop
                 PROVE  step[x][g[next[x]]] \in T
      OBVIOUS
    <3>1. next[x] \in Below(n) /\ step[x] \in [T -> T]
      BY <1>2
    <3>2. g[next[x]] \in T
      BY <2>1, <3>1
    <3> QED BY <3>1, <3>2
  <2>5. ASSUME NEW x \in Below(n + 1)
        PROVE  h[x] = IF x \in stop THEN result[x] ELSE step[x][h[next[x]]]
    <3>1. CASE x \in stop
      BY <3>1
    <3>2. CASE x \notin stop
      <4>1. next[x] \in Below(n)
        BY <1>2, <3>2
      <4>2. h[next[x]] = g[next[x]]
        BY <2>3, <4>1
      <4>3. h[x] = step[x][g[next[x]]]
        BY <3>2
      <4> HIDE DEF h
      <4> QED BY <3>2, <4>2, <4>3
    <3> QED BY <3>1, <3>2
  <2>6. Solves(h, n + 1)
    BY <2>4, <2>5
  <2> HIDE DEF Solves
  <2> QED BY <2>6
<1>5. \A n \in Nat : \E g : Solves(g, n)
  <2> HIDE DEF Solves
  <2>1. Nat \subseteq S
    <3> HIDE DEF S
    <3> QED BY <1>3, <1>4, SetInduction
  <2> QED BY <2>1
<1> DEFINE at == [n \in Nat |-> CHOOSE g : Solves(g, n)]
<1>6. \A n \in Nat : Solves(at[n], n)
  <2> HIDE DEF Solves
  <2> QED BY <1>5
<1> DEFINE Agree == {j \in Nat : \A x \in D : measure[x] < j =>
                       \A n, p \in Nat : measure[x] < n /\ measure[x] < p => at[n][x] = at[p][x]}
<1> HIDE DEF at
<1>7. Nat \subseteq Agree
  <2>1. 0 \in Agree
    BY <1>1, SMT
  <2>2. ASSUME NEW j \in Nat, j \in Agree
        PROVE  j + 1 \in Agree
    <3> SUFFICES ASSUME NEW x \in D, measure[x] < j + 1, NEW n \in Nat, NEW p \in Nat,
                        measure[x] < n, measure[x] < p
                 PROVE  at[n][x] = at[p][x]
      OBVIOUS
    <3>1. /\ at[n][x] = IF x \in stop THEN result[x] ELSE step[x][at[n][next[x]]]
          /\ at[p][x] = IF x \in stop THEN result[x] ELSE step[x][at[p][next[x]]]
      BY <1>6
    <3>2. x \notin stop => at[n][next[x]] = at[p][next[x]]
      <4> SUFFICES ASSUME x \notin stop
                   PROVE  at[n][next[x]] = at[p][next[x]]
        OBVIOUS
      <4>1. next[x] \in D /\ measure[next[x]] < measure[x]
        OBVIOUS
      <4>2. measure[next[x]] < j /\ measure[next[x]] < n /\ measure[next[x]] < p
        BY <1>1, <4>1, SMT
      <4> QED BY <2>2, <4>1, <4>2
    <3> QED BY <3>1, <3>2, Zenon
  <2> HIDE DEF Agree
  <2> QED BY <2>1, <2>2, SetInduction
<1> DEFINE f == [x \in D |-> at[measure[x] + 1][x]]
<1>8. ASSUME NEW x \in D
      PROVE  f[x] = IF x \in stop THEN result[x] ELSE step[x][f[next[x]]]
  <2> DEFINE n == measure[x] + 1
  <2>1. n \in Nat /\ measure[x] < n
    BY <1>1, SMT
  <2>2. at[n][x] = IF x \in stop THEN result[x] ELSE step[x][at[n][next[x]]]
    BY <1>6, <2>1
  <2>3. x \notin stop => f[next[x]] = at[n][next[x]]
    <3> SUFFICES ASSUME x \notin stop
                 PROVE  f[next[x]] = at[n][next[x]]
      OBVIOUS
    <3> DEFINE z == next[x]
               p == measure[z] + 1
    <3>1. z \in D /\ measure[z] < measure[x]
      OBVIOUS
    <3>2. p \in Nat /\ measure[z] < p /\ measure[z] < n /\ measure[z] < p /\ p \in Agree
      <4>1. p \in Nat /\ measure[z] < p /\ measure[z] < n /\ measure[z] < p
        BY <1>1, <3>1, SMT
      <4> QED BY <1>7, <4>1
    <3>3. at[p][z] = at[n][z]
      <4> HIDE DEF z, p, n
      <4> QED BY <2>1, <3>1, <3>2
    <3> QED BY <3>1, <3>3
  <2> HIDE DEF f
  <2>4. f[x] = at[n][x]
    BY DEF f
  <2> QED BY <2>2, <2>3, <2>4
<1>9. f \in [D -> T]
  <2> SUFFICES ASSUME NEW x \in D
               PROVE  at[measure[x] + 1][x] \in T
    OBVIOUS
  <2> DEFINE n == measure[x] + 1
  <2>1. n \in Nat /\ measure[x] < n
    BY <1>1, SMT
  <2>2. Solves(at[n], n)
    BY <1>6, <2>1
  <2>3. x \in Below(n)
    BY <2>1
  <2> HIDE DEF n
  <2> QED BY <2>2, <2>3 DEF n
<1> HIDE DEF f
<1> QED BY <1>8, <1>9 DEF RunsTo

\* The functions that count up: the value at i is made of the one at i - 1.
IsCount(D, T, first, step) ==
  /\ D \in SUBSET Nat /\ \A i \in D \ {0} : i - 1 \in D
  /\ first \in T /\ step \in [D -> [T -> T]]

LEMMA Iteration ==
  ASSUME NEW D, NEW T, NEW first, NEW step, IsCount(D, T, first, step)
  PROVE  \E f \in [D -> T] : \A i \in D : f[i] = IF i = 0 THEN first ELSE step[i][f[i - 1]]
<1> USE DEF IsCount
<1> DEFINE measure == [i \in D |-> i]
           stop    == D \cap {0}
           next    == [i \in D \ stop |-> i - 1]
           result  == [i \in stop |-> first]
<1>1. ASSUME NEW x \in D \ stop
      PROVE  measure[next[x]] < measure[x]
  <2>1. next[x] = x - 1 /\ x - 1 \in D /\ x \in Nat
    OBVIOUS
  <2> QED BY <2>1, SMT
<1>2. IsLoop(D, T, stop, result, next, step, measure)
  BY <1>1 DEF IsLoop
<1>3. \E f : RunsTo(f, D, T, stop, result, next, step)
  <2> HIDE DEF measure, stop, next, result
  <2> QED BY <1>2, Recursion
<1>4. PICK f : RunsTo(f, D, T, stop, result, next, step)
  BY <1>3
<1>5. f \in [D -> T] /\ \A i \in D : f[i] = IF i = 0 THEN first ELSE step[i][f[i - 1]]
  BY <1>4 DEF RunsTo
<1> QED BY <1>5

\* The type of such a function, from the type of one step.
IsCounted(f, D, T) ==
  /\ D \in SUBSET Nat /\ \A i \in D \ {0} : i - 1 \in D
  /\ f = [i \in D |-> f[i]] /\ (0 \in D => f[0] \in T)
  /\ \A i \in D \ {0} : f[i - 1] \in T => f[i] \in T

LEMMA IterationType ==
  ASSUME NEW f, NEW D, NEW T, IsCounted(f, D, T)
  PROVE  f \in [D -> T]
<1> USE DEF IsCounted
<1> DEFINE S == {n \in Nat : n \in D => f[n] \in T}
<1>1. 0 \in S
  OBVIOUS
<1>2. ASSUME NEW n \in Nat, n \in S
      PROVE  n + 1 \in S
  <2> SUFFICES ASSUME n + 1 \in D
               PROVE  f[n + 1] \in T
    OBVIOUS
  <2>1. n + 1 # 0 /\ (n + 1) - 1 = n
    BY SMT
  <2>2. n \in D
    BY <2>1
  <2> QED BY <1>2, <2>1, <2>2
<1>3. Nat \subseteq S
  <2> HIDE DEF S
  <2> QED BY <1>1, <1>2, SetInduction
<1> QED BY <1>3

-----------------------------------------------------------------------------
(* Powers of two *)

LEMMA WidthIs == /\ WordBits \in Nat \ {0} /\ NumWords \in Nat \ {0}
                 /\ Bits \in Nat \ {0} /\ Bits = WordBits * NumWords
<1>1. WordBits \in Nat \ {0} /\ NumWords \in Nat \ {0}
  BY WidthAssumption
<1> QED BY <1>1, SMT DEF Bits

LEMMA PowersOfTwo ==
  /\ TwoTo \in [0 .. 2 * Bits -> Nat]
  /\ TwoTo[0] = 1
  /\ \A n \in 0 .. 2 * Bits - 1 : TwoTo[n + 1] = 2 * TwoTo[n]
<1> DEFINE D == 0 .. 2 * Bits
           step == [i \in D |-> [y \in Nat |-> 2 * y]]
           power == CHOOSE f : f = [i \in D |-> IF i = 0 THEN 1 ELSE 2 * f[i - 1]]
<1>1. 0 \in D /\ D \in SUBSET Nat /\ \A i \in D \ {0} : i - 1 \in D
  BY WidthIs, SMT
<1>2. \E f \in [D -> Nat] : \A i \in D : f[i] = IF i = 0 THEN 1 ELSE step[i][f[i - 1]]
  <2>1. step \in [D -> [Nat -> Nat]] /\ 1 \in Nat
    BY SMT
  <2> HIDE DEF D, step
  <2>2. IsCount(D, Nat, 1, step)
    BY <1>1, <2>1 DEF IsCount
  <2> QED BY <2>2, Iteration
<1>3. PICK f \in [D -> Nat] : \A i \in D : f[i] = IF i = 0 THEN 1 ELSE step[i][f[i - 1]]
  BY <1>2
<1>4. \A i \in D : f[i] = IF i = 0 THEN 1 ELSE 2 * f[i - 1]
  <2> SUFFICES ASSUME NEW i \in D, i # 0
               PROVE  f[i] = 2 * f[i - 1]
    BY <1>3
  <2>1. f[i - 1] \in Nat /\ step[i] = [y \in Nat |-> 2 * y]
    BY <1>1, <1>3
  <2> QED BY <1>3, <2>1
<1>5. f = [i \in D |-> IF i = 0 THEN 1 ELSE 2 * f[i - 1]]
  <2> HIDE DEF D
  <2> QED BY <1>3, <1>4
<1>6. power = [i \in D |-> IF i = 0 THEN 1 ELSE 2 * power[i - 1]]
  <2> HIDE DEF D
  <2> QED BY <1>5, Zenon
<1>7. TwoTo = [n \in D |-> power[n]]
  BY DEF TwoTo
<1>8. TwoTo = power
  <2> HIDE DEF power, D
  <2> QED BY <1>6, <1>7
<1> HIDE DEF power
<1>9. /\ power[0] = 1
      /\ \A n \in 0 .. 2 * Bits - 1 : power[n + 1] = 2 * power[n]
  <2>1. power[0] = 1
    BY <1>1, <1>6
  <2>2. ASSUME NEW n \in 0 .. 2 * Bits - 1
        PROVE  power[n + 1] = 2 * power[n]
    <3>1. n + 1 \in D /\ n + 1 # 0 /\ (n + 1) - 1 = n
      BY WidthIs, SMT
    <3> QED BY <1>6, <3>1
  <2> QED BY <2>1, <2>2
<1>10. power \in [D -> Nat]
  <2> DEFINE S == {n \in Nat : n \in D => power[n] \in Nat}
  <2>1. 0 \in S
    BY <1>9
  <2>2. ASSUME NEW n \in Nat, n \in S
        PROVE  n + 1 \in S
    <3> SUFFICES ASSUME n + 1 \in D
                 PROVE  power[n + 1] \in Nat
      OBVIOUS
    <3>1. n \in D /\ n \in 0 .. 2 * Bits - 1
      BY WidthIs, SMT
    <3>2. power[n] \in Nat /\ power[n + 1] = 2 * power[n]
      BY <1>9, <2>2, <3>1
    <3> QED BY <3>2, SMT
  <2>3. Nat \subseteq S
    <3> HIDE DEF S
    <3> QED BY <2>1, <2>2, SetInduction
  <2>4. \A n \in D : power[n] \in Nat
    BY <1>1, <2>3
  <2> HIDE DEF D
  <2> QED BY <1>6, <2>4
<1> QED BY <1>8, <1>9, <1>10

LEMMA TwoToPositive == \A n \in 0 .. 2 * Bits : TwoTo[n] \in Nat \ {0}
<1> DEFINE S == {n \in Nat : n \in 0 .. 2 * Bits => TwoTo[n] \in Nat \ {0}}
<1>1. 0 \in S
  BY PowersOfTwo
<1>2. ASSUME NEW n \in Nat, n \in S
      PROVE  n + 1 \in S
  <2> SUFFICES ASSUME n + 1 \in 0 .. 2 * Bits
               PROVE  TwoTo[n + 1] \in Nat \ {0}
    OBVIOUS
  <2>1. n \in 0 .. 2 * Bits - 1 /\ n \in 0 .. 2 * Bits
    BY WidthIs, SMT
  <2>2. TwoTo[n] \in Nat \ {0} /\ TwoTo[n + 1] = 2 * TwoTo[n]
    BY <1>2, <2>1, PowersOfTwo
  <2> QED BY <2>2, SMT
<1>3. Nat \subseteq S
  <2> HIDE DEF S
  <2> QED BY <1>1, <1>2, SetInduction
<1> QED BY <1>3

LEMMA TwoToSum ==
  ASSUME NEW m \in Nat, NEW n \in Nat, m + n <= 2 * Bits
  PROVE  TwoTo[m + n] = TwoTo[m] * TwoTo[n]
<1> DEFINE S == {j \in Nat : m + j <= 2 * Bits => TwoTo[m + j] = TwoTo[m] * TwoTo[j]}
<1>1. 0 \in S
  <2> SUFFICES ASSUME m + 0 <= 2 * Bits
               PROVE  TwoTo[m + 0] = TwoTo[m] * TwoTo[0]
    OBVIOUS
  <2>1. m \in 0 .. 2 * Bits /\ m + 0 = m
    BY WidthIs, SMT
  <2>2. TwoTo[m] \in Nat /\ TwoTo[0] = 1
    BY <2>1, PowersOfTwo
  <2> QED BY <2>1, <2>2, SMT
<1>2. ASSUME NEW j \in Nat, j \in S
      PROVE  j + 1 \in S
  <2> SUFFICES ASSUME m + (j + 1) <= 2 * Bits
               PROVE  TwoTo[m + (j + 1)] = TwoTo[m] * TwoTo[j + 1]
    OBVIOUS
  <2>1. /\ j \in 0 .. 2 * Bits - 1 /\ m + j \in 0 .. 2 * Bits - 1 /\ m + j <= 2 * Bits
        /\ m + (j + 1) = (m + j) + 1 /\ j \in 0 .. 2 * Bits /\ m \in 0 .. 2 * Bits
    BY WidthIs, SMT
  <2>2. TwoTo[(m + j) + 1] = 2 * TwoTo[m + j] /\ TwoTo[j + 1] = 2 * TwoTo[j]
    BY <2>1, PowersOfTwo
  <2>3. TwoTo[m + j] = TwoTo[m] * TwoTo[j] /\ TwoTo[m] \in Nat /\ TwoTo[j] \in Nat
    BY <1>2, <2>1, PowersOfTwo
  <2>4. 2 * (TwoTo[m] * TwoTo[j]) = TwoTo[m] * (2 * TwoTo[j])
    BY <2>3, SMT
  <2> QED BY <2>1, <2>2, <2>3, <2>4
<1>3. Nat \subseteq S
  <2> HIDE DEF S
  <2> QED BY <1>1, <1>2, SetInduction
<1> QED BY <1>3

\* The indices of the powers of Base, in bits.
LEMMA BitOfWord ==
  ASSUME NEW n \in Nat, n <= 2 * NumWords
  PROVE  WordBits * n \in 0 .. 2 * Bits /\ WordBits * n \in Nat
<1> DEFINE w == NumWords
<1>1. WordBits * n <= WordBits * (2 * w) /\ WordBits * n \in Nat
  BY WidthIs, ProductsGrow, SMT
<1>2. WordBits * (2 * w) = 2 * Bits
  BY WidthIs, SMT
<1> QED BY <1>1, <1>2, WidthIs, SMT

LEMMA PowersOfBase ==
  /\ Base = TwoTo[WordBits] /\ Base \in Nat \ {0}
  /\ BaseTo(0) = 1
  /\ \A n \in Nat : n <= 2 * NumWords => BaseTo(n) \in Nat \ {0}
  /\ \A n \in Nat : n < 2 * NumWords => BaseTo(n + 1) = Base * BaseTo(n)
  /\ \A m, n \in Nat : m + n <= 2 * NumWords => BaseTo(m + n) = BaseTo(m) * BaseTo(n)
<1>1. Base = TwoTo[WordBits]
  <2>1. WordBits * 1 = WordBits
    BY WidthIs, SMT
  <2> QED BY <2>1, WidthAssumption DEF BaseTo
<1>2. ASSUME NEW n \in Nat, n <= 2 * NumWords
      PROVE  BaseTo(n) \in Nat \ {0}
  <2>1. WordBits * n \in 0 .. 2 * Bits
    BY <1>2, BitOfWord
  <2> QED BY <2>1, TwoToPositive DEF BaseTo
<1>3. ASSUME NEW m \in Nat, NEW n \in Nat, m + n <= 2 * NumWords
      PROVE  BaseTo(m + n) = BaseTo(m) * BaseTo(n)
  <2>1. m <= 2 * NumWords /\ n <= 2 * NumWords /\ m + n \in Nat
    BY <1>3, WidthIs, SMT
  <2>2. WordBits * (m + n) = WordBits * m + WordBits * n
    BY WidthIs, SMT
  <2>3. WordBits * m \in Nat /\ WordBits * n \in Nat /\ WordBits * (m + n) \in 0 .. 2 * Bits
    BY <1>3, <2>1, BitOfWord
  <2>4. WordBits * m + WordBits * n <= 2 * Bits
    BY <2>2, <2>3, SMT
  <2>5. TwoTo[WordBits * m + WordBits * n] = TwoTo[WordBits * m] * TwoTo[WordBits * n]
    BY <2>3, <2>4, TwoToSum
  <2> QED BY <2>2, <2>5 DEF BaseTo
<1>4. BaseTo(0) = 1
  <2>1. WordBits * 0 = 0
    BY WidthIs, SMT
  <2> QED BY <2>1, PowersOfTwo DEF BaseTo
<1>5. Base \in Nat \ {0}
  <2>1. 1 <= 2 * NumWords
    BY WidthIs, SMT
  <2> QED BY <1>2, <2>1, WidthAssumption
<1>6. ASSUME NEW n \in Nat, n < 2 * NumWords
      PROVE  BaseTo(n + 1) = Base * BaseTo(n)
  <2>1. 1 + n <= 2 * NumWords /\ 1 + n = n + 1
    BY <1>6, WidthIs, SMT
  <2>2. BaseTo(1 + n) = BaseTo(1) * BaseTo(n)
    BY <1>3, <2>1
  <2> QED BY <2>1, <2>2, WidthAssumption
<1> QED BY <1>1, <1>2, <1>3, <1>4, <1>5, <1>6

-----------------------------------------------------------------------------
(* The number of an array of words *)

LEMMA ValueNext ==
  ASSUME NEW len \in Nat, len <= 2 * NumWords, NEW a, \A i \in 0 .. len - 1 : a[i] \in Int
  PROVE  /\ Value(a, 0) = 0
         /\ \A n \in 0 .. len - 1 : Value(a, n + 1) = Value(a, n) + a[n] * BaseTo(n)
         /\ \A n \in 0 .. len : Value(a, n) \in Int
<1> DEFINE sums(l) == CHOOSE f : f = [i \in 0 .. l |->
                     IF i = 0 THEN 0 ELSE f[i - 1] + a[i - 1] * BaseTo(i - 1)]
<1>1. \A l : Value(a, l) = sums(l)[l]
  BY DEF Value
<1>2. ASSUME NEW l \in 0 .. len
      PROVE  sums(l) = [i \in 0 .. l |->
                       IF i = 0 THEN 0 ELSE sums(l)[i - 1] + a[i - 1] * BaseTo(i - 1)]
  <2> DEFINE D == 0 .. l
             step == [i \in D |-> [y \in Int |-> IF i = 0 THEN y ELSE y + a[i - 1] * BaseTo(i - 1)]]
  <2>1. ASSUME NEW i \in D, i # 0
        PROVE  i - 1 \in D /\ a[i - 1] * BaseTo(i - 1) \in Int
    <3>1. i - 1 \in D /\ i - 1 \in 0 .. len - 1 /\ i - 1 \in Nat /\ i - 1 <= 2 * NumWords
      BY <1>2, <2>1, WidthIs, SMT
    <3>2. a[i - 1] \in Int /\ BaseTo(i - 1) \in Nat \ {0}
      BY <3>1, PowersOfBase
    <3> QED BY <3>1, <3>2, SMT
  <2>2. step \in [D -> [Int -> Int]]
    <3>1. ASSUME NEW i \in D, NEW y \in Int
          PROVE  (IF i = 0 THEN y ELSE y + a[i - 1] * BaseTo(i - 1)) \in Int
      <4>1. CASE i = 0
        BY <4>1
      <4>2. CASE i # 0
        BY <2>1, <4>2, SMT
      <4> QED BY <4>1, <4>2
    <3> HIDE DEF D
    <3> QED BY <3>1
  <2>3. IsCount(D, Int, 0, step)
    BY <2>1, <2>2 DEF IsCount
  <2>4. PICK f \in [D -> Int] : \A i \in D : f[i] = IF i = 0 THEN 0 ELSE step[i][f[i - 1]]
    <3> HIDE DEF D, step
    <3> QED BY <2>3, Iteration
  <2>5. \A i \in D : f[i] = IF i = 0 THEN 0 ELSE f[i - 1] + a[i - 1] * BaseTo(i - 1)
    <3> SUFFICES ASSUME NEW i \in D, i # 0
                 PROVE  f[i] = f[i - 1] + a[i - 1] * BaseTo(i - 1)
      BY <2>4
    <3>1. f[i - 1] \in Int /\ step[i] = [y \in Int |-> y + a[i - 1] * BaseTo(i - 1)]
      BY <2>1, <2>4
    <3> QED BY <2>4, <3>1
  <2>6. f = [i \in D |-> IF i = 0 THEN 0 ELSE f[i - 1] + a[i - 1] * BaseTo(i - 1)]
    <3> HIDE DEF D
    <3> QED BY <2>4, <2>5
  <2> QED BY <2>6, Zenon
<1> HIDE DEF sums
<1>3. ASSUME NEW l \in 0 .. len
      PROVE  sums(l)[0] = 0 /\ \A i \in 0 .. l - 1 : sums(l)[i + 1] = sums(l)[i] + a[i] * BaseTo(i)
  <2>1. sums(l)[0] = 0
    BY <1>2
  <2>2. ASSUME NEW i \in 0 .. l - 1
        PROVE  sums(l)[i + 1] = sums(l)[i] + a[i] * BaseTo(i)
    <3>1. i + 1 \in 0 .. l /\ i + 1 # 0 /\ (i + 1) - 1 = i
      BY SMT
    <3> QED BY <1>2, <3>1
  <2> QED BY <2>1, <2>2
<1> DEFINE S == {i \in Nat : i <= len =>
                   /\ \A l \in i .. len : sums(l)[i] = Value(a, i)
                   /\ Value(a, i) \in Int
                   /\ i < len => Value(a, i + 1) = Value(a, i) + a[i] * BaseTo(i)}
<1>4. ASSUME NEW i \in Nat, i < len, \A l \in i .. len : sums(l)[i] = Value(a, i)
      PROVE  /\ Value(a, i + 1) = Value(a, i) + a[i] * BaseTo(i)
             /\ \A l \in i + 1 .. len : sums(l)[i + 1] = Value(a, i + 1)
  <2>1. ASSUME NEW l \in i + 1 .. len
        PROVE  sums(l)[i + 1] = Value(a, i) + a[i] * BaseTo(i)
    <3>1. l \in 0 .. len /\ i \in 0 .. l - 1 /\ l \in i .. len
      BY <1>4, SMT
    <3> QED BY <1>3, <1>4, <3>1
  <2>2. i + 1 \in i + 1 .. len
    BY <1>4, SMT
  <2>3. Value(a, i + 1) = Value(a, i) + a[i] * BaseTo(i)
    BY <1>1, <2>1, <2>2
  <2> QED BY <2>1, <2>3
<1>5. ASSUME NEW i \in Nat, i < len, Value(a, i) \in Int
      PROVE  Value(a, i) + a[i] * BaseTo(i) \in Int
  <2>1. a[i] \in Int /\ BaseTo(i) \in Nat
    <3>1. i \in 0 .. len - 1 /\ i <= 2 * NumWords
      BY <1>5, WidthIs, SMT
    <3> QED BY <3>1, PowersOfBase
  <2> QED BY <1>5, <2>1, SMT
<1>6. 0 \in S
  <2>1. \A l \in 0 .. len : sums(l)[0] = 0
    BY <1>3
  <2>2. Value(a, 0) = 0
    BY <1>1, <2>1
  <2> QED BY <1>4, <2>1, <2>2
<1>7. ASSUME NEW i \in Nat, i \in S
      PROVE  i + 1 \in S
  <2> SUFFICES ASSUME i + 1 <= len
               PROVE  /\ \A l \in i + 1 .. len : sums(l)[i + 1] = Value(a, i + 1)
                      /\ Value(a, i + 1) \in Int
                      /\ i + 1 < len =>
                           Value(a, (i + 1) + 1) = Value(a, i + 1) + a[i + 1] * BaseTo(i + 1)
    OBVIOUS
  <2>1. i < len /\ i <= len /\ i + 1 \in Nat
    BY SMT
  <2>2. /\ Value(a, i + 1) = Value(a, i) + a[i] * BaseTo(i)
        /\ \A l \in i + 1 .. len : sums(l)[i + 1] = Value(a, i + 1)
    BY <1>4, <1>7, <2>1
  <2>3. Value(a, i + 1) \in Int
    BY <1>5, <1>7, <2>1, <2>2
  <2> QED BY <1>4, <2>1, <2>2, <2>3
<1>8. Nat \subseteq S
  <2> HIDE DEF S
  <2> QED BY <1>6, <1>7, SetInduction
<1>9. \A n \in 0 .. len : n \in Nat /\ n <= len
  BY SMT
<1>10. \A n \in 0 .. len - 1 : n \in Nat /\ n <= len /\ n < len
  BY SMT
<1>11. Value(a, 0) = 0
  <2>1. 0 \in 0 .. len
    BY SMT
  <2> QED BY <1>1, <1>3, <2>1
<1> QED BY <1>8, <1>9, <1>10, <1>11

\* A quotient is divided again, a remainder has the digit of the quotient.
LEMMA DividedTwice ==
  ASSUME NEW n \in Nat, NEW d \in Nat \ {0}, NEW b \in Nat \ {0}
  PROVE  \E s \in Int, z \in 0 .. b * d - 1 :
           /\ n = s * (b * d) + z /\ s = (n \div d) \div b
           /\ z = (n % d) + ((n \div d) % b) * d
<1> DEFINE q == n \div d
           r == n % d
           s == q \div b
           t == q % b
           td == t * d
           bd == b * d
<1>1. n = d * q + r /\ q \in Int /\ r \in 0 .. d - 1
  BY SMT
<1>2. q \in Nat
  BY <1>1, SMT
<1> HIDE DEF q, r
<1>3. q = b * s + t /\ s \in Int /\ t \in 0 .. b - 1
  BY <1>2, SMT
<1> HIDE DEF s, t
<1>4. td <= bd - d /\ td \in Nat /\ bd \in Nat
  <2>1. t \in Nat /\ b - 1 \in Nat /\ t <= b - 1
    BY <1>3, SMT
  <2>2. t * d <= (b - 1) * d /\ t * d \in Nat
    BY <2>1, ProductsGrow, Zenon
  <2> QED BY <2>2, SMT
<1>5. n = s * bd + (r + td)
  <2>1. d * (b * s + t) = s * (b * d) + t * d /\ s * (b * d) \in Int
    BY <1>3, SMT
  <2> DEFINE sbd == s * bd
  <2>2. n = (sbd + td) + r /\ sbd \in Int
    BY <1>1, <1>3, <2>1
  <2> HIDE DEF sbd, td
  <2> QED BY <1>1, <1>4, <2>2, SMT DEF sbd
<1> HIDE DEF td, bd
<1>6. r + td \in 0 .. bd - 1
  BY <1>1, <1>4, SMT
<1>7. r + td \in 0 .. b * d - 1 /\ n = s * (b * d) + (r + td) /\ r + td = r + t * d
  BY <1>5, <1>6 DEF bd, td
<1> QED BY <1>3, <1>7 DEF q, r, s, t

LEMMA DivideTwice ==
  ASSUME NEW n \in Nat, NEW d \in Nat \ {0}, NEW b \in Nat \ {0}
  PROVE  n % (b * d) = (n % d) + ((n \div d) % b) * d
<1> DEFINE bd == b * d
<1>1. bd \in Nat \ {0}
  BY SMT
<1>2. \E s \in Int, z \in 0 .. b * d - 1 :
        /\ n = s * (b * d) + z /\ s = (n \div d) \div b
        /\ z = (n % d) + ((n \div d) % b) * d
  BY DividedTwice, Zenon
<1>3. n \in Int
  BY SMT
<1> HIDE DEF bd
<1>5. PICK s \in Int, z \in 0 .. bd - 1 :
        n = s * bd + z /\ z = (n % d) + ((n \div d) % b) * d
  BY <1>2 DEF bd
<1>4. n % bd = z
  BY <1>1, <1>3, <1>5, RemainderOf
<1> QED BY <1>4, <1>5 DEF bd

LEMMA QuotientTwice ==
  ASSUME NEW n \in Nat, NEW d \in Nat \ {0}, NEW b \in Nat \ {0}
  PROVE  n \div (b * d) = (n \div d) \div b
<1> DEFINE bd == b * d
<1>1. bd \in Nat \ {0}
  BY SMT
<1>2. \E s \in Int, z \in 0 .. b * d - 1 :
        /\ n = s * (b * d) + z /\ s = (n \div d) \div b
        /\ z = (n % d) + ((n \div d) % b) * d
  BY DividedTwice, Zenon
<1>3. n \in Int
  BY SMT
<1> HIDE DEF bd
<1>5. PICK s \in Int, z \in 0 .. bd - 1 : n = s * bd + z /\ s = (n \div d) \div b
  BY <1>2 DEF bd
<1>4. n \div bd = s
  BY <1>1, <1>3, <1>5, RemainderOf
<1> QED BY <1>4, <1>5 DEF bd

Digits(len) == [Words(len) -> 0 .. Base - 1]

LEMMA DigitsAreIntegers ==
  ASSUME NEW len \in Nat, NEW a \in Digits(len)
  PROVE  \A i \in 0 .. len - 1 : a[i] \in Int /\ a[i] \in Nat /\ a[i] < Base
<1>1. Base \in Nat
  BY PowersOfBase
<1> QED BY <1>1, SMT DEF Digits, Words

LEMMA ValueBelow ==
  ASSUME NEW len \in Nat, len <= 2 * NumWords, NEW a \in Digits(len)
  PROVE  \A n \in 0 .. len : Value(a, n) \in Nat /\ Value(a, n) < BaseTo(n)
<1> DEFINE S == {n \in Nat : n <= len => Value(a, n) \in Nat /\ Value(a, n) < BaseTo(n)}
<1>1. \A i \in 0 .. len - 1 : a[i] \in Int /\ a[i] \in Nat /\ a[i] < Base
  BY DigitsAreIntegers
<1>2. /\ Value(a, 0) = 0
      /\ \A n \in 0 .. len - 1 : Value(a, n + 1) = Value(a, n) + a[n] * BaseTo(n)
  BY <1>1, ValueNext
<1>3. 0 \in S
  BY <1>2, PowersOfBase
<1>4. ASSUME NEW n \in Nat, n \in S
      PROVE  n + 1 \in S
  <2> SUFFICES ASSUME n + 1 <= len
               PROVE  Value(a, n + 1) \in Nat /\ Value(a, n + 1) < BaseTo(n + 1)
    OBVIOUS
  <2>1. n \in 0 .. len - 1 /\ n <= len /\ n < 2 * NumWords /\ n <= 2 * NumWords
    BY WidthIs, SMT
  <2> DEFINE p == BaseTo(n)
             w == a[n]
             z == Value(a, n)
  <2>2. /\ p \in Nat \ {0} /\ w \in Nat /\ w < Base /\ Base \in Nat /\ z \in Nat /\ z < p
        /\ BaseTo(n + 1) = Base * p /\ Value(a, n + 1) = z + w * p
    BY <1>1, <1>2, <1>4, <2>1, PowersOfBase
  <2> HIDE DEF p, w, z
  <2>3. w * p <= (Base - 1) * p /\ w * p \in Nat /\ (Base - 1) * p = Base * p - p
    <3>1. w <= Base - 1 /\ Base - 1 \in Nat
      BY <2>2, SMT
    <3>2. w * p <= (Base - 1) * p /\ w * p \in Nat
      BY <2>2, <3>1, ProductsGrow, Zenon
    <3> QED BY <2>2, <3>2, SMT
  <2>4. z + w * p \in Nat /\ z + w * p < Base * p
    <3> DEFINE wp == w * p
               bp == Base * p
    <3>1. wp \in Nat /\ bp \in Int /\ wp <= bp - p
      BY <2>2, <2>3, SMT
    <3> HIDE DEF wp, bp
    <3>2. z + wp \in Nat /\ z + wp < bp
      BY <2>2, <3>1, SMT
    <3> QED BY <3>2 DEF wp, bp
  <2> QED BY <2>2, <2>4
<1>5. Nat \subseteq S
  <2> HIDE DEF S
  <2> QED BY <1>3, <1>4, SetInduction
<1>6. \A n \in 0 .. len : n \in Nat /\ n <= len
  BY SMT
<1> QED BY <1>5, <1>6

LEMMA ValueOfWords ==
  ASSUME NEW a \in Nat, NEW len \in Nat, len <= 2 * NumWords
  PROVE  /\ ToWords(a, len) \in Digits(len)
         /\ \A n \in 0 .. len : Value(ToWords(a, len), n) = a % BaseTo(n)
<1> DEFINE x == ToWords(a, len)
           S == {n \in Nat : n <= len => Value(x, n) = a % BaseTo(n)}
<1>1. x \in Digits(len)
  <2>1. ASSUME NEW i \in Words(len)
        PROVE  (a \div BaseTo(i)) % Base \in 0 .. Base - 1
    <3>1. i \in Nat /\ i <= 2 * NumWords
      BY WidthIs, SMT DEF Words
    <3>2. BaseTo(i) \in Nat \ {0} /\ Base \in Nat \ {0}
      BY <3>1, PowersOfBase
    <3>3. a \div BaseTo(i) \in Int
      BY <3>2, SMT
    <3> QED BY <3>2, <3>3, SMT
  <2> QED BY <2>1 DEF ToWords, Digits
<1>2. \A n \in 0 .. len - 1 : x[n] = (a \div BaseTo(n)) % Base
  BY DEF ToWords, Words
<1> HIDE DEF x
<1>3. /\ Value(x, 0) = 0
      /\ \A n \in 0 .. len - 1 : Value(x, n + 1) = Value(x, n) + x[n] * BaseTo(n)
  BY <1>1, DigitsAreIntegers, ValueNext
<1>4. 0 \in S
  <2>1. a % 1 = 0
    BY SMT
  <2> QED BY <1>3, <2>1, PowersOfBase
<1>5. ASSUME NEW n \in Nat, n \in S
      PROVE  n + 1 \in S
  <2> SUFFICES ASSUME n + 1 <= len
               PROVE  Value(x, n + 1) = a % BaseTo(n + 1)
    OBVIOUS
  <2>1. n \in 0 .. len - 1 /\ n <= len /\ n < 2 * NumWords /\ n <= 2 * NumWords
    BY WidthIs, SMT
  <2>2. BaseTo(n) \in Nat \ {0} /\ Base \in Nat \ {0} /\ BaseTo(n + 1) = Base * BaseTo(n)
    BY <2>1, PowersOfBase
  <2>3. a % (Base * BaseTo(n)) = (a % BaseTo(n)) + ((a \div BaseTo(n)) % Base) * BaseTo(n)
    BY <2>2, DivideTwice
  <2> QED BY <1>2, <1>3, <1>5, <2>1, <2>2, <2>3
<1>6. Nat \subseteq S
  <2> HIDE DEF S
  <2> QED BY <1>4, <1>5, SetInduction
<1>7. \A n \in 0 .. len : n \in Nat /\ n <= len
  BY SMT
<1> QED BY <1>1, <1>6, <1>7 DEF x

\* Only the words that are counted matter.
LEMMA ValueOfPrefix ==
  ASSUME NEW len \in Nat, len <= 2 * NumWords, NEW a, NEW b,
         \A i \in 0 .. len - 1 : a[i] \in Int /\ a[i] = b[i]
  PROVE  Value(a, len) = Value(b, len)
<1> DEFINE S == {n \in Nat : n <= len => Value(a, n) = Value(b, n)}
<1>1. /\ Value(a, 0) = 0
      /\ \A n \in 0 .. len - 1 : Value(a, n + 1) = Value(a, n) + a[n] * BaseTo(n)
  BY ValueNext
<1>2. /\ Value(b, 0) = 0
      /\ \A n \in 0 .. len - 1 : Value(b, n + 1) = Value(b, n) + b[n] * BaseTo(n)
  <2>1. \A i \in 0 .. len - 1 : b[i] \in Int
    OBVIOUS
  <2> QED BY <2>1, ValueNext
<1>3. 0 \in S
  BY <1>1, <1>2
<1>4. ASSUME NEW n \in Nat, n \in S
      PROVE  n + 1 \in S
  <2> SUFFICES ASSUME n + 1 <= len
               PROVE  Value(a, n + 1) = Value(b, n + 1)
    OBVIOUS
  <2>1. n \in 0 .. len - 1 /\ n <= len
    BY SMT
  <2> QED BY <1>1, <1>2, <1>4, <2>1
<1>5. Nat \subseteq S
  <2> HIDE DEF S
  <2> QED BY <1>3, <1>4, SetInduction
<1> QED BY <1>5

-----------------------------------------------------------------------------
(* Sums and differences of arrays *)

\* One word of a sum, one of a difference: the carry is the whole rest.
LEMMA WordOfSum ==
  \A x, y \in 0 .. Base - 1, c \in 0 .. 1 :
    /\ (x + y + c) % Base \in 0 .. Base - 1 /\ ((x + y + c) \div Base) % 2 \in 0 .. 1
    /\ ((x + y + c) % Base) + (((x + y + c) \div Base) % 2) * Base = x + y + c
<1> TAKE x, y \in 0 .. Base - 1, c \in 0 .. 1
<1> DEFINE b == Base
           s == x + y + c
           r == s % b
           e == (s \div b) % 2
<1>1. b \in Nat \ {0}
  BY PowersOfBase
<1> HIDE DEF b
<1>2. x \in 0 .. b - 1 /\ y \in 0 .. b - 1
  BY DEF b
<1>3. s \in 0 .. 2 * b - 1
  BY <1>1, <1>2, SMT
<1> HIDE DEF s
<1>4. /\ s < b  => s % b = s /\ s \div b = 0
      /\ s >= b => s % b = s - b /\ s \div b = 1
  BY <1>1, <1>3, CarryOf
<1>5. 0 % 2 = 0 /\ 1 % 2 = 1
  BY SMT
<1>6. IF s < b THEN r = s /\ e = 0 ELSE r = s - b /\ e = 1
  BY <1>1, <1>3, <1>4, <1>5, SMT
<1>7. r \in 0 .. b - 1 /\ e \in 0 .. 1 /\ r + e * b = s
  <2> HIDE DEF r, e
  <2> QED BY <1>1, <1>3, <1>6, SMT
<1> QED BY <1>7 DEF r, e, s, b

LEMMA WordOfDifference ==
  \A x, y \in 0 .. Base - 1, c \in 0 .. 1 :
    /\ (x - y - c) % Base \in 0 .. Base - 1 /\ ((x - y - c) \div Base) % 2 \in 0 .. 1
    /\ ((x - y - c) % Base) - (((x - y - c) \div Base) % 2) * Base = x - y - c
<1> TAKE x, y \in 0 .. Base - 1, c \in 0 .. 1
<1> DEFINE b == Base
           s == x - y - c
           r == s % b
           e == (s \div b) % 2
<1>1. b \in Nat \ {0}
  BY PowersOfBase
<1> HIDE DEF b
<1>2. x \in 0 .. b - 1 /\ y \in 0 .. b - 1
  BY DEF b
<1>3. s \in Int /\ -b <= s /\ s < b
  BY <1>1, <1>2, SMT
<1> HIDE DEF s
<1>4. s >= 0 => r = s /\ e = 0
  <2> SUFFICES ASSUME s >= 0
               PROVE  r = s /\ e = 0
    OBVIOUS
  <2>1. s \in 0 .. b - 1 /\ s = 0 * b + s /\ 0 % 2 = 0
    BY <1>1, <1>3, SMT
  <2>2. s % b = s /\ s \div b = 0
    BY <1>1, <1>3, <2>1, RemainderOf
  <2> QED BY <2>1, <2>2
<1>5. s < 0 => r = s + b /\ e = 1
  <2> SUFFICES ASSUME s < 0
               PROVE  r = s + b /\ e = 1
    OBVIOUS
  <2>1. s + b \in 0 .. b - 1 /\ s = (-1) * b + (s + b) /\ -1 \in Int
    BY <1>1, <1>3, SMT
  <2>2. s % b = s + b /\ s \div b = -1
    BY <1>1, <1>3, <2>1, RemainderOf
  <2>3. (-1) % 2 = 1
    <3>1. 2 \in Nat \ {0} /\ -1 \in Int /\ 1 \in 0 .. 2 - 1 /\ -1 = (-1) * 2 + 1
      BY SMT
    <3> QED BY <3>1, RemainderOf
  <2> QED BY <2>2, <2>3
<1>6. r \in 0 .. b - 1 /\ e \in 0 .. 1 /\ r - e * b = s
  <2> HIDE DEF r, e
  <2> QED BY <1>1, <1>3, <1>4, <1>5, SMT
<1> QED BY <1>6 DEF r, e, s, b

\* The carries of a sum, one word after the other.
LEMMA CarriesOfSum ==
  ASSUME NEW len \in Nat, NEW a \in Digits(len), NEW b \in Digits(len)
  PROVE  \E carry \in [0 .. len -> 0 .. 1] :
           /\ carry[0] = 0
           /\ \A i \in 0 .. len - 1 : carry[i + 1] = ((a[i] + b[i] + carry[i]) \div Base) % 2
           /\ AddWords(a, b, len) =
                [words |-> [i \in Words(len) |-> (a[i] + b[i] + carry[i]) % Base],
                 carry |-> carry[len]]
<1> DEFINE D == 0 .. len
           T == 0 .. 1
           step == [i \in D |-> [y \in T |-> IF i = 0 THEN y ELSE ((a[i - 1] + b[i - 1] + y) \div Base) % 2]]
           carry == CHOOSE f : f = [i \in D |->
                      IF i = 0 THEN 0 ELSE Addc(a[i - 1], b[i - 1], f[i - 1]).carry]
<1>1. ASSUME NEW i \in D, i # 0
      PROVE  i - 1 \in D /\ \A y \in T : ((a[i - 1] + b[i - 1] + y) \div Base) % 2 \in T
  <2>1. i - 1 \in D /\ i - 1 \in 0 .. len - 1
    BY <1>1, SMT
  <2>2. a[i - 1] \in 0 .. Base - 1 /\ b[i - 1] \in 0 .. Base - 1
    BY <2>1 DEF Digits, Words
  <2> QED BY <2>1, <2>2, WordOfSum
<1>2. IsCount(D, T, 0, step)
  <2>1. step \in [D -> [T -> T]]
    <3>1. ASSUME NEW i \in D, NEW y \in T
          PROVE  (IF i = 0 THEN y ELSE ((a[i - 1] + b[i - 1] + y) \div Base) % 2) \in T
      <4>1. CASE i = 0
        BY <4>1
      <4>2. CASE i # 0
        BY <1>1, <4>2
      <4> QED BY <4>1, <4>2
    <3> HIDE DEF D, T
    <3> QED BY <3>1
  <2> QED BY <1>1, <2>1 DEF IsCount
<1>3. PICK f \in [D -> T] : \A i \in D : f[i] = IF i = 0 THEN 0 ELSE step[i][f[i - 1]]
  <2> HIDE DEF D, T, step
  <2> QED BY <1>2, Iteration
<1>4. \A i \in D : f[i] = IF i = 0 THEN 0 ELSE Addc(a[i - 1], b[i - 1], f[i - 1]).carry
  <2> SUFFICES ASSUME NEW i \in D, i # 0
               PROVE  f[i] = ((a[i - 1] + b[i - 1] + f[i - 1]) \div Base) % 2
    BY <1>3 DEF Addc
  <2>1. f[i - 1] \in T
    BY <1>1, <1>3
  <2> QED BY <1>3, <2>1
<1>5. f = [i \in D |-> IF i = 0 THEN 0 ELSE Addc(a[i - 1], b[i - 1], f[i - 1]).carry]
  <2> HIDE DEF D
  <2> QED BY <1>3, <1>4
<1>6. carry = [i \in D |-> IF i = 0 THEN 0 ELSE Addc(a[i - 1], b[i - 1], carry[i - 1]).carry]
  <2> HIDE DEF D
  <2> QED BY <1>5, Zenon
<1>7. AddWords(a, b, len) =
        [words |-> [i \in Words(len) |-> Addc(a[i], b[i], carry[i]).sum], carry |-> carry[len]]
  BY DEF AddWords, Chain
<1> HIDE DEF carry
<1>8. /\ carry[0] = 0
      /\ \A i \in 0 .. len - 1 : carry[i + 1] = ((a[i] + b[i] + carry[i]) \div Base) % 2
  <2>1. carry[0] = 0
    BY <1>6
  <2>2. ASSUME NEW i \in 0 .. len - 1
        PROVE  carry[i + 1] = ((a[i] + b[i] + carry[i]) \div Base) % 2
    <3>1. i + 1 \in D /\ i + 1 # 0 /\ (i + 1) - 1 = i
      BY SMT
    <3> QED BY <1>6, <3>1 DEF Addc
  <2> QED BY <2>1, <2>2
<1>9. carry \in [D -> T]
  <2>1. ASSUME NEW i \in D \ {0}, carry[i - 1] \in T
        PROVE  carry[i] \in T
    <3>1. carry[i] = ((a[i - 1] + b[i - 1] + carry[i - 1]) \div Base) % 2
      BY <1>6 DEF Addc
    <3> QED BY <1>1, <2>1, <3>1
  <2>2. carry = [i \in D |-> carry[i]]
    BY <1>6
  <2>3. IsCounted(carry, D, T)
    <3>1. 0 \in T
      OBVIOUS
    <3> HIDE DEF D, T
    <3> QED BY <1>2, <1>8, <2>1, <2>2, <3>1 DEF IsCounted, IsCount
  <2> HIDE DEF D, T
  <2> QED BY <2>3, IterationType
<1>10. AddWords(a, b, len) =
        [words |-> [i \in Words(len) |-> (a[i] + b[i] + carry[i]) % Base], carry |-> carry[len]]
  BY <1>7 DEF Addc
<1> QED BY <1>8, <1>9, <1>10

\* The words of a sum and the last carry stand for the sum.
LEMMA SumOfWords ==
  ASSUME NEW len \in Nat, len <= 2 * NumWords, NEW a \in Digits(len), NEW b \in Digits(len)
  PROVE  LET s == AddWords(a, b, len)
         IN  /\ s.words \in Digits(len) /\ s.carry \in 0 .. 1
             /\ Value(s.words, len) + s.carry * BaseTo(len) = Value(a, len) + Value(b, len)
<1>1. PICK carry \in [0 .. len -> 0 .. 1] :
        /\ carry[0] = 0
        /\ \A i \in 0 .. len - 1 : carry[i + 1] = ((a[i] + b[i] + carry[i]) \div Base) % 2
        /\ AddWords(a, b, len) =
             [words |-> [i \in Words(len) |-> (a[i] + b[i] + carry[i]) % Base],
              carry |-> carry[len]]
  BY CarriesOfSum
<1> DEFINE w == [i \in Words(len) |-> (a[i] + b[i] + carry[i]) % Base]
           S == {n \in Nat : n <= len =>
                   Value(w, n) + carry[n] * BaseTo(n) = Value(a, n) + Value(b, n)}
<1>2. ASSUME NEW i \in 0 .. len - 1
      PROVE  /\ w[i] \in 0 .. Base - 1 /\ carry[i] \in 0 .. 1 /\ carry[i + 1] \in 0 .. 1
             /\ a[i] \in Int /\ b[i] \in Int
             /\ w[i] + carry[i + 1] * Base = a[i] + b[i] + carry[i]
  <2>1. i \in Words(len) /\ i \in 0 .. len /\ i + 1 \in 0 .. len
    BY SMT DEF Words
  <2>2. a[i] \in 0 .. Base - 1 /\ b[i] \in 0 .. Base - 1 /\ Base \in Nat \ {0} /\ carry[i] \in 0 .. 1
    BY <2>1, PowersOfBase DEF Digits
  <2>3. w[i] = (a[i] + b[i] + carry[i]) % Base
    BY <2>1
  <2>4. carry[i + 1] = ((a[i] + b[i] + carry[i]) \div Base) % 2
    BY <1>1
  <2> HIDE DEF w
  <2>5. a[i] \in Int /\ b[i] \in Int
    BY <2>2, SMT
  <2> DEFINE x == a[i]
             y == b[i]
             c == carry[i]
  <2>6. x \in 0 .. Base - 1 /\ y \in 0 .. Base - 1 /\ c \in 0 .. 1
    BY <2>2
  <2> HIDE DEF x, y, c
  <2>7. /\ (x + y + c) % Base \in 0 .. Base - 1 /\ ((x + y + c) \div Base) % 2 \in 0 .. 1
        /\ ((x + y + c) % Base) + (((x + y + c) \div Base) % 2) * Base = x + y + c
    BY <2>6, WordOfSum
  <2> QED BY <2>2, <2>3, <2>4, <2>5, <2>7 DEF x, y, c
<1>3. w \in Digits(len)
  <2>1. \A i \in Words(len) : w[i] \in 0 .. Base - 1
    BY <1>2 DEF Words
  <2>2. w = [i \in Words(len) |-> w[i]]
    OBVIOUS
  <2> HIDE DEF w
  <2> QED BY <2>1, <2>2 DEF Digits
<1> HIDE DEF w
<1>4. /\ Value(a, 0) = 0 /\ Value(b, 0) = 0 /\ Value(w, 0) = 0
      /\ \A n \in 0 .. len - 1 :
           /\ Value(a, n + 1) = Value(a, n) + a[n] * BaseTo(n)
           /\ Value(b, n + 1) = Value(b, n) + b[n] * BaseTo(n)
           /\ Value(w, n + 1) = Value(w, n) + w[n] * BaseTo(n)
      /\ \A n \in 0 .. len : Value(a, n) \in Int /\ Value(b, n) \in Int /\ Value(w, n) \in Int
  BY <1>3, DigitsAreIntegers, ValueNext
<1>5. 0 \in S
  <2>1. 0 + 0 * 1 = 0 + 0
    BY SMT
  <2> QED BY <1>1, <1>4, <2>1, PowersOfBase
<1>6. ASSUME NEW n \in Nat, n \in S
      PROVE  n + 1 \in S
  <2> SUFFICES ASSUME n + 1 <= len
               PROVE  Value(w, n + 1) + carry[n + 1] * BaseTo(n + 1)
                        = Value(a, n + 1) + Value(b, n + 1)
    OBVIOUS
  <2>1. n \in 0 .. len - 1 /\ n \in 0 .. len /\ n <= len /\ n < 2 * NumWords /\ n <= 2 * NumWords
    BY WidthIs, SMT
  <2> DEFINE p == BaseTo(n)
             va == Value(a, n)
             vb == Value(b, n)
             vw == Value(w, n)
             an == a[n]
             bn == b[n]
             wn == w[n]
             c  == carry[n]
             cn == carry[n + 1]
  <2>2. /\ p \in Nat \ {0} /\ Base \in Nat \ {0} /\ BaseTo(n + 1) = Base * p
        /\ va \in Int /\ vb \in Int /\ vw \in Int
        /\ Value(a, n + 1) = va + an * p /\ Value(b, n + 1) = vb + bn * p
        /\ Value(w, n + 1) = vw + wn * p
        /\ vw + c * p = va + vb
        /\ c \in 0 .. 1 /\ cn \in 0 .. 1 /\ an \in Int /\ bn \in Int /\ wn \in 0 .. Base - 1
        /\ wn + cn * Base = an + bn + c
    BY <1>2, <1>4, <1>6, <2>1, PowersOfBase
  <2> HIDE DEF p, va, vb, vw, an, bn, wn, c, cn
  <2>3. wn \in Int /\ c \in Int /\ cn \in Int
    BY <2>2, SMT
  <2>4. (wn + cn * Base) * p = (an + bn + c) * p
    BY <2>2
  <2>5. (wn + cn * Base) * p = wn * p + cn * (Base * p)
    BY <2>2, <2>3, SMT
  <2>6. (an + bn + c) * p = an * p + bn * p + c * p
    BY <2>2, <2>3, SMT
  <2>7. vw + wn * p + cn * (Base * p) = va + an * p + (vb + bn * p)
    <3> DEFINE e1 == wn * p
               e2 == cn * (Base * p)
               e3 == an * p
               e4 == bn * p
               e5 == c * p
    <3>1. e1 \in Int /\ e2 \in Int /\ e3 \in Int /\ e4 \in Int /\ e5 \in Int
      BY <2>2, <2>3, SMT
    <3>2. e1 + e2 = e3 + e4 + e5 /\ vw + e5 = va + vb
      BY <2>2, <2>4, <2>5, <2>6
    <3> HIDE DEF e1, e2, e3, e4, e5
    <3>3. vw + e1 + e2 = va + e3 + (vb + e4)
      BY <2>2, <3>1, <3>2, SMT
    <3> QED BY <3>3 DEF e1, e2, e3, e4
  <2> QED BY <2>2, <2>7 DEF cn
<1>7. Nat \subseteq S
  <2> HIDE DEF S
  <2> QED BY <1>5, <1>6, SetInduction
<1>8. /\ AddWords(a, b, len).words = w /\ AddWords(a, b, len).carry = carry[len]
      /\ carry[len] \in 0 .. 1
  <2>1. len \in 0 .. len
    BY SMT
  <2> QED BY <1>1, <2>1 DEF w
<1>9. len \in S /\ len <= len
  BY <1>7, SMT
<1> QED BY <1>3, <1>8, <1>9

\* The borrows of a difference, one word after the other.
LEMMA CarriesOfDifference ==
  ASSUME NEW len \in Nat, NEW a \in Digits(len), NEW b \in Digits(len)
  PROVE  \E carry \in [0 .. len -> 0 .. 1] :
           /\ carry[0] = 0
           /\ \A i \in 0 .. len - 1 : carry[i + 1] = ((a[i] - b[i] - carry[i]) \div Base) % 2
           /\ SubWords(a, b, len) =
                [words |-> [i \in Words(len) |-> (a[i] - b[i] - carry[i]) % Base],
                 carry |-> carry[len]]
<1> DEFINE D == 0 .. len
           T == 0 .. 1
           step == [i \in D |-> [y \in T |-> IF i = 0 THEN y ELSE ((a[i - 1] - b[i - 1] - y) \div Base) % 2]]
           carry == CHOOSE f : f = [i \in D |->
                      IF i = 0 THEN 0 ELSE Subc(a[i - 1], b[i - 1], f[i - 1]).carry]
<1>1. ASSUME NEW i \in D, i # 0
      PROVE  i - 1 \in D /\ \A y \in T : ((a[i - 1] - b[i - 1] - y) \div Base) % 2 \in T
  <2>1. i - 1 \in D /\ i - 1 \in 0 .. len - 1
    BY <1>1, SMT
  <2>2. a[i - 1] \in 0 .. Base - 1 /\ b[i - 1] \in 0 .. Base - 1
    BY <2>1 DEF Digits, Words
  <2> QED BY <2>1, <2>2, WordOfDifference
<1>2. IsCount(D, T, 0, step)
  <2>1. step \in [D -> [T -> T]]
    <3>1. ASSUME NEW i \in D, NEW y \in T
          PROVE  (IF i = 0 THEN y ELSE ((a[i - 1] - b[i - 1] - y) \div Base) % 2) \in T
      <4>1. CASE i = 0
        BY <4>1
      <4>2. CASE i # 0
        BY <1>1, <4>2
      <4> QED BY <4>1, <4>2
    <3> HIDE DEF D, T
    <3> QED BY <3>1
  <2> QED BY <1>1, <2>1 DEF IsCount
<1>3. PICK f \in [D -> T] : \A i \in D : f[i] = IF i = 0 THEN 0 ELSE step[i][f[i - 1]]
  <2> HIDE DEF D, T, step
  <2> QED BY <1>2, Iteration
<1>4. \A i \in D : f[i] = IF i = 0 THEN 0 ELSE Subc(a[i - 1], b[i - 1], f[i - 1]).carry
  <2> SUFFICES ASSUME NEW i \in D, i # 0
               PROVE  f[i] = ((a[i - 1] - b[i - 1] - f[i - 1]) \div Base) % 2
    BY <1>3 DEF Subc
  <2>1. f[i - 1] \in T
    BY <1>1, <1>3
  <2> QED BY <1>3, <2>1
<1>5. f = [i \in D |-> IF i = 0 THEN 0 ELSE Subc(a[i - 1], b[i - 1], f[i - 1]).carry]
  <2> HIDE DEF D
  <2> QED BY <1>3, <1>4
<1>6. carry = [i \in D |-> IF i = 0 THEN 0 ELSE Subc(a[i - 1], b[i - 1], carry[i - 1]).carry]
  <2> HIDE DEF D
  <2> QED BY <1>5, Zenon
<1>7. SubWords(a, b, len) =
        [words |-> [i \in Words(len) |-> Subc(a[i], b[i], carry[i]).sum], carry |-> carry[len]]
  BY DEF SubWords, Chain
<1> HIDE DEF carry
<1>8. /\ carry[0] = 0
      /\ \A i \in 0 .. len - 1 : carry[i + 1] = ((a[i] - b[i] - carry[i]) \div Base) % 2
  <2>1. carry[0] = 0
    BY <1>6
  <2>2. ASSUME NEW i \in 0 .. len - 1
        PROVE  carry[i + 1] = ((a[i] - b[i] - carry[i]) \div Base) % 2
    <3>1. i + 1 \in D /\ i + 1 # 0 /\ (i + 1) - 1 = i
      BY SMT
    <3> QED BY <1>6, <3>1 DEF Subc
  <2> QED BY <2>1, <2>2
<1>9. carry \in [D -> T]
  <2>1. ASSUME NEW i \in D \ {0}, carry[i - 1] \in T
        PROVE  carry[i] \in T
    <3>1. carry[i] = ((a[i - 1] - b[i - 1] - carry[i - 1]) \div Base) % 2
      BY <1>6 DEF Subc
    <3> QED BY <1>1, <2>1, <3>1
  <2>2. carry = [i \in D |-> carry[i]]
    BY <1>6
  <2>3. IsCounted(carry, D, T)
    <3>1. 0 \in T
      OBVIOUS
    <3> HIDE DEF D, T
    <3> QED BY <1>2, <1>8, <2>1, <2>2, <3>1 DEF IsCounted, IsCount
  <2> HIDE DEF D, T
  <2> QED BY <2>3, IterationType
<1>10. SubWords(a, b, len) =
        [words |-> [i \in Words(len) |-> (a[i] - b[i] - carry[i]) % Base], carry |-> carry[len]]
  BY <1>7 DEF Subc
<1> QED BY <1>8, <1>9, <1>10

\* The words of a difference and the last borrow stand for the difference.
LEMMA DifferenceOfWords ==
  ASSUME NEW len \in Nat, len <= 2 * NumWords, NEW a \in Digits(len), NEW b \in Digits(len)
  PROVE  LET s == SubWords(a, b, len)
         IN  /\ s.words \in Digits(len) /\ s.carry \in 0 .. 1
             /\ Value(s.words, len) - s.carry * BaseTo(len) = Value(a, len) - Value(b, len)
<1>1. PICK carry \in [0 .. len -> 0 .. 1] :
        /\ carry[0] = 0
        /\ \A i \in 0 .. len - 1 : carry[i + 1] = ((a[i] - b[i] - carry[i]) \div Base) % 2
        /\ SubWords(a, b, len) =
             [words |-> [i \in Words(len) |-> (a[i] - b[i] - carry[i]) % Base],
              carry |-> carry[len]]
  BY CarriesOfDifference
<1> DEFINE w == [i \in Words(len) |-> (a[i] - b[i] - carry[i]) % Base]
           S == {n \in Nat : n <= len =>
                   Value(w, n) - carry[n] * BaseTo(n) = Value(a, n) - Value(b, n)}
<1>2. ASSUME NEW i \in 0 .. len - 1
      PROVE  /\ w[i] \in 0 .. Base - 1 /\ carry[i] \in 0 .. 1 /\ carry[i + 1] \in 0 .. 1
             /\ a[i] \in Int /\ b[i] \in Int
             /\ w[i] - carry[i + 1] * Base = a[i] - b[i] - carry[i]
  <2>1. i \in Words(len) /\ i \in 0 .. len /\ i + 1 \in 0 .. len
    BY SMT DEF Words
  <2>2. a[i] \in 0 .. Base - 1 /\ b[i] \in 0 .. Base - 1 /\ Base \in Nat \ {0} /\ carry[i] \in 0 .. 1
    BY <2>1, PowersOfBase DEF Digits
  <2>3. w[i] = (a[i] - b[i] - carry[i]) % Base
    BY <2>1
  <2>4. carry[i + 1] = ((a[i] - b[i] - carry[i]) \div Base) % 2
    BY <1>1
  <2> HIDE DEF w
  <2>5. a[i] \in Int /\ b[i] \in Int
    BY <2>2, SMT
  <2> DEFINE x == a[i]
             y == b[i]
             c == carry[i]
  <2>6. x \in 0 .. Base - 1 /\ y \in 0 .. Base - 1 /\ c \in 0 .. 1
    BY <2>2
  <2> HIDE DEF x, y, c
  <2>7. /\ (x - y - c) % Base \in 0 .. Base - 1 /\ ((x - y - c) \div Base) % 2 \in 0 .. 1
        /\ ((x - y - c) % Base) - (((x - y - c) \div Base) % 2) * Base = x - y - c
    BY <2>6, WordOfDifference
  <2> QED BY <2>2, <2>3, <2>4, <2>5, <2>7 DEF x, y, c
<1>3. w \in Digits(len)
  <2>1. \A i \in Words(len) : w[i] \in 0 .. Base - 1
    BY <1>2 DEF Words
  <2>2. w = [i \in Words(len) |-> w[i]]
    OBVIOUS
  <2> HIDE DEF w
  <2> QED BY <2>1, <2>2 DEF Digits
<1> HIDE DEF w
<1>4. /\ Value(a, 0) = 0 /\ Value(b, 0) = 0 /\ Value(w, 0) = 0
      /\ \A n \in 0 .. len - 1 :
           /\ Value(a, n + 1) = Value(a, n) + a[n] * BaseTo(n)
           /\ Value(b, n + 1) = Value(b, n) + b[n] * BaseTo(n)
           /\ Value(w, n + 1) = Value(w, n) + w[n] * BaseTo(n)
      /\ \A n \in 0 .. len : Value(a, n) \in Int /\ Value(b, n) \in Int /\ Value(w, n) \in Int
  BY <1>3, DigitsAreIntegers, ValueNext
<1>5. 0 \in S
  <2>1. 0 - 0 * 1 = 0 - 0
    BY SMT
  <2> QED BY <1>1, <1>4, <2>1, PowersOfBase
<1>6. ASSUME NEW n \in Nat, n \in S
      PROVE  n + 1 \in S
  <2> SUFFICES ASSUME n + 1 <= len
               PROVE  Value(w, n + 1) - carry[n + 1] * BaseTo(n + 1)
                        = Value(a, n + 1) - Value(b, n + 1)
    OBVIOUS
  <2>1. n \in 0 .. len - 1 /\ n \in 0 .. len /\ n <= len /\ n < 2 * NumWords /\ n <= 2 * NumWords
    BY WidthIs, SMT
  <2> DEFINE p == BaseTo(n)
             va == Value(a, n)
             vb == Value(b, n)
             vw == Value(w, n)
             an == a[n]
             bn == b[n]
             wn == w[n]
             c  == carry[n]
             cn == carry[n + 1]
  <2>2. /\ p \in Nat \ {0} /\ Base \in Nat \ {0} /\ BaseTo(n + 1) = Base * p
        /\ va \in Int /\ vb \in Int /\ vw \in Int
        /\ Value(a, n + 1) = va + an * p /\ Value(b, n + 1) = vb + bn * p
        /\ Value(w, n + 1) = vw + wn * p
        /\ vw - c * p = va - vb
        /\ c \in 0 .. 1 /\ cn \in 0 .. 1 /\ an \in Int /\ bn \in Int /\ wn \in 0 .. Base - 1
        /\ wn - cn * Base = an - bn - c
    BY <1>2, <1>4, <1>6, <2>1, PowersOfBase
  <2> HIDE DEF p, va, vb, vw, an, bn, wn, c, cn
  <2>3. wn \in Int /\ c \in Int /\ cn \in Int
    BY <2>2, SMT
  <2>4. (wn - cn * Base) * p = (an - bn - c) * p
    BY <2>2
  <2>5. (wn - cn * Base) * p = wn * p - cn * (Base * p)
    BY <2>2, <2>3, SMT
  <2>6. (an - bn - c) * p = an * p - bn * p - c * p
    BY <2>2, <2>3, SMT
  <2>7. vw + wn * p - cn * (Base * p) = va + an * p - (vb + bn * p)
    <3> DEFINE e1 == wn * p
               e2 == cn * (Base * p)
               e3 == an * p
               e4 == bn * p
               e5 == c * p
    <3>1. e1 \in Int /\ e2 \in Int /\ e3 \in Int /\ e4 \in Int /\ e5 \in Int
      BY <2>2, <2>3, SMT
    <3>2. e1 - e2 = e3 - e4 - e5 /\ vw - e5 = va - vb
      BY <2>2, <2>4, <2>5, <2>6
    <3> HIDE DEF e1, e2, e3, e4, e5
    <3>3. vw + e1 - e2 = va + e3 - (vb + e4)
      BY <2>2, <3>1, <3>2, SMT
    <3> QED BY <3>3 DEF e1, e2, e3, e4
  <2> QED BY <2>2, <2>7 DEF cn
<1>7. Nat \subseteq S
  <2> HIDE DEF S
  <2> QED BY <1>5, <1>6, SetInduction
<1>8. /\ SubWords(a, b, len).words = w /\ SubWords(a, b, len).carry = carry[len]
      /\ carry[len] \in 0 .. 1
  <2>1. len \in 0 .. len
    BY SMT
  <2> QED BY <1>1, <2>1 DEF w
<1>9. len \in S /\ len <= len
  BY <1>7, SMT
<1> QED BY <1>3, <1>8, <1>9

-----------------------------------------------------------------------------
(* The numbers of NumWords words *)

LEMMA NumberIs ==
  /\ M = BaseTo(NumWords) /\ M \in Nat \ {0} /\ NumWords <= 2 * NumWords
  /\ M = Base * BaseTo(NumWords - 1) /\ BaseTo(NumWords - 1) \in Nat \ {0}
  /\ NumWords - 1 \in Nat /\ NumWords - 1 <= 2 * NumWords
  /\ \A a \in Numbers : a \in Nat /\ a < M /\ a % M = a
<1>1. /\ NumWords <= 2 * NumWords /\ NumWords - 1 \in Nat /\ NumWords - 1 < 2 * NumWords
      /\ NumWords - 1 <= 2 * NumWords /\ NumWords \in Nat /\ (NumWords - 1) + 1 = NumWords
  BY WidthIs, SMT
<1>2. M = BaseTo(NumWords)
  BY WidthAssumption
<1>3. M \in Nat \ {0}
  BY <1>1, <1>2, PowersOfBase
<1>4. BaseTo((NumWords - 1) + 1) = Base * BaseTo(NumWords - 1)
        /\ BaseTo(NumWords - 1) \in Nat \ {0}
  BY <1>1, PowersOfBase
<1>5. \A a \in Numbers : a \in Nat /\ a < M /\ a % M = a
  BY <1>3, SMT DEF Numbers
<1> QED BY <1>1, <1>2, <1>3, <1>4, <1>5

LEMMA NumbersAreWords ==
  ASSUME NEW a \in Numbers
  PROVE  /\ ToWords(a, NumWords) \in Digits(NumWords)
         /\ Value(ToWords(a, NumWords), NumWords) = a
<1>1. /\ a \in Nat /\ a % M = a /\ NumWords \in Nat /\ NumWords <= 2 * NumWords
      /\ NumWords \in 0 .. NumWords /\ M = BaseTo(NumWords)
  BY NumberIs, WidthIs, SMT
<1> QED BY <1>1, ValueOfWords

\* The halves of a word.
LEMMA HalfOfWord ==
  \A n \in 1 .. WordBits :
    /\ TwoTo[n] \in Nat \ {0} /\ TwoTo[WordBits - n] \in Nat \ {0}
    /\ Base = TwoTo[n] * TwoTo[WordBits - n]
    /\ TwoTo[1] = 2
<1> TAKE n \in 1 .. WordBits
<1>1. WordBits <= 2 * Bits
  <2>1. 1 * WordBits <= NumWords * WordBits
    BY WidthIs, ProductsGrow, SMT
  <2> QED BY <2>1, WidthIs, SMT
<1>2. /\ n \in 0 .. 2 * Bits /\ WordBits - n \in 0 .. 2 * Bits /\ n \in Nat /\ WordBits - n \in Nat
      /\ n + (WordBits - n) = WordBits /\ 0 \in 0 .. 2 * Bits - 1 /\ 0 + 1 = 1
  BY <1>1, WidthIs, SMT
<1>3. TwoTo[n + (WordBits - n)] = TwoTo[n] * TwoTo[WordBits - n]
  BY <1>1, <1>2, TwoToSum
<1>4. TwoTo[1] = 2
  <2>1. TwoTo[0 + 1] = 2 * 1
    BY <1>2, PowersOfTwo
  <2> QED BY <1>2, <2>1, SMT
<1> QED BY <1>2, <1>3, <1>4, TwoToPositive, PowersOfBase

LEMMA HalfOfBase ==
  /\ Base \div 2 \in Nat \ {0} /\ Base = 2 * (Base \div 2)
  /\ Base \div 2 = TwoTo[WordBits - 1]
<1>1. 1 \in 1 .. WordBits
  BY WidthIs, SMT
<1>2. TwoTo[WordBits - 1] \in Nat \ {0} /\ Base = 2 * TwoTo[WordBits - 1] /\ Base \in Nat
  BY <1>1, HalfOfWord, PowersOfBase
<1> QED BY <1>2, SMT

-----------------------------------------------------------------------------
(* The negative, and its sign *)

LEMMA ComplementOf ==
  ASSUME NEW len \in Nat, len <= 2 * NumWords, NEW x \in Digits(len), NEW y,
         y = [i \in Words(len) |-> Base - 1 - x[i]]
  PROVE  y \in Digits(len) /\ Value(y, len) = BaseTo(len) - 1 - Value(x, len)
<1> DEFINE S == {n \in Nat : n <= len => Value(y, n) = BaseTo(n) - 1 - Value(x, n)}
<1>1. y \in Digits(len) /\ \A i \in 0 .. len - 1 : y[i] = Base - 1 - x[i]
  <2>1. \A i \in Words(len) : Base - 1 - x[i] \in 0 .. Base - 1
    BY DigitsAreIntegers, PowersOfBase, SMT DEF Words
  <2> QED BY <2>1 DEF Digits, Words
<1>2. /\ Value(x, 0) = 0 /\ Value(y, 0) = 0
      /\ \A n \in 0 .. len - 1 : /\ Value(x, n + 1) = Value(x, n) + x[n] * BaseTo(n)
                                 /\ Value(y, n + 1) = Value(y, n) + y[n] * BaseTo(n)
      /\ \A n \in 0 .. len : Value(x, n) \in Int /\ Value(y, n) \in Int
  BY <1>1, DigitsAreIntegers, ValueNext
<1>3. 0 \in S
  <2>1. 1 - 1 - 0 = 0
    BY SMT
  <2> QED BY <1>2, <2>1, PowersOfBase
<1>4. ASSUME NEW n \in Nat, n \in S
      PROVE  n + 1 \in S
  <2> SUFFICES ASSUME n + 1 <= len
               PROVE  Value(y, n + 1) = BaseTo(n + 1) - 1 - Value(x, n + 1)
    OBVIOUS
  <2>1. n \in 0 .. len - 1 /\ n \in 0 .. len /\ n <= len /\ n < 2 * NumWords /\ n <= 2 * NumWords
    BY WidthIs, SMT
  <2> DEFINE p == BaseTo(n)
             b == Base
             w == x[n]
             vx == Value(x, n)
             vy == Value(y, n)
  <2>2. /\ p \in Nat \ {0} /\ b \in Nat /\ BaseTo(n + 1) = b * p /\ w \in Int
        /\ vx \in Int /\ vy \in Int /\ vy = p - 1 - vx
        /\ Value(y, n + 1) = vy + (b - 1 - w) * p /\ Value(x, n + 1) = vx + w * p
    BY <1>1, <1>2, <1>4, <2>1, PowersOfBase, DigitsAreIntegers
  <2> HIDE DEF p, b, w, vx, vy
  <2>3. (b - 1 - w) * p = b * p - p - w * p
    BY <2>2, SMT
  <2>4. b * p \in Int /\ w * p \in Int
    BY <2>2, SMT
  <2> QED BY <2>2, <2>3, <2>4, SMT
<1>5. Nat \subseteq S
  <2> HIDE DEF S
  <2> QED BY <1>3, <1>4, SetInduction
<1> QED BY <1>1, <1>5

LEMMA NegIs ==
  ASSUME NEW a \in Numbers
  PROVE  Value(Neg(ToWords(a, NumWords)), NumWords) = (-a) % M
<1> DEFINE L == NumWords
           x == ToWords(a, L)
           one == ToWords(1, L)
           y == [i \in Words(L) |-> Base - 1 - x[i]]
           s == AddWords(y, one, L)
<1>1. L \in Nat /\ L <= 2 * NumWords /\ M = BaseTo(L) /\ M \in Nat \ {0} /\ a \in Nat /\ a < M
        /\ L \in 0 .. L
  BY NumberIs, WidthIs, SMT
<1>2. x \in Digits(L) /\ Value(x, L) = a
  BY NumbersAreWords
<1>3. one \in Digits(L) /\ Value(one, L) = 1
  <2>1. 1 \in Numbers
    BY ModulusAssumption, SMT DEF Numbers
  <2> QED BY <2>1, NumbersAreWords
<1> HIDE DEF L, x, one
<1>4. y \in Digits(L) /\ Value(y, L) = M - 1 - a
  BY <1>1, <1>2, ComplementOf
<1> HIDE DEF y
<1>5. /\ s.words \in Digits(L) /\ s.carry \in 0 .. 1
      /\ Value(s.words, L) + s.carry * BaseTo(L) = Value(y, L) + Value(one, L)
  BY <1>1, <1>3, <1>4, SumOfWords
<1> HIDE DEF s
<1>6. Value(s.words, L) \in Nat /\ Value(s.words, L) < M
  BY <1>1, <1>5, ValueBelow
<1>7. Neg(ToWords(a, NumWords)) = s.words
  BY DEF Neg, s, y, one, x, L
<1> DEFINE z == Value(s.words, L)
           c == s.carry
<1>8. z \in 0 .. M - 1 /\ c \in 0 .. 1 /\ z + c * M = (M - 1 - a) + 1
  BY <1>1, <1>3, <1>4, <1>5, <1>6, SMT
<1> HIDE DEF z, c
<1>9. c - 1 \in Int /\ 1 - c \in Int /\ -a \in Int /\ -a = (c - 1) * M + z
  <2>1. c = 0 \/ c = 1
    BY <1>8, SMT
  <2>2. CASE c = 0
    BY <1>1, <1>8, <2>2, SMT
  <2>3. CASE c = 1
    BY <1>1, <1>8, <2>3, SMT
  <2> QED BY <2>1, <2>2, <2>3
<1>10. (-a) % M = z
  <2> DEFINE na == -a
             q  == c - 1
  <2>1. na \in Int /\ q \in Int /\ na = q * M + z
    BY <1>9
  <2> HIDE DEF na, q
  <2>2. na % M = z
    BY <1>1, <1>8, <2>1, RemainderOf
  <2> QED BY <2>2 DEF na
<1> QED BY <1>7, <1>10 DEF z, L

LEMMA IsNegIs ==
  ASSUME NEW a \in Numbers
  PROVE  IsNeg(ToWords(a, NumWords)) = (a >= M \div 2)
<1> DEFINE x == ToWords(a, NumWords)
           m == NumWords - 1
           w == x[m]
           z == Value(x, m)
           p == BaseTo(m)
           h == Base \div 2
<1>1. x \in Digits(NumWords) /\ Value(x, NumWords) = a
  BY NumbersAreWords
<1> HIDE DEF x
<1>2. /\ NumWords \in Nat /\ m \in Nat /\ m \in 0 .. NumWords - 1 /\ m \in 0 .. NumWords
      /\ m + 1 = NumWords
  BY WidthIs, SMT
<1> HIDE DEF m
<1>3. a = z + w * p /\ w \in Nat /\ w < Base /\ z \in Nat /\ z < p
  BY <1>1, <1>2, ValueNext, ValueBelow, DigitsAreIntegers, NumberIs
<1>4. p \in Nat \ {0} /\ M = Base * p /\ h \in Nat \ {0} /\ Base = 2 * h
  BY NumberIs, HalfOfBase DEF m
<1> HIDE DEF w, z, p, h
<1>5. M \div 2 = h * p
  <2>1. M = (h * p) * 2 + 0 /\ h * p \in Int /\ M \in Int /\ 0 \in 0 .. 2 - 1 /\ 2 \in Nat \ {0}
    BY <1>4, SMT
  <2> QED BY <2>1, RemainderOf
<1>6. w >= h => a >= h * p
  <2> SUFFICES ASSUME w >= h
               PROVE  a >= h * p
    OBVIOUS
  <2>1. h * p <= w * p /\ h * p \in Nat /\ w * p \in Nat
    BY <1>3, <1>4, ProductsGrow, SMT
  <2> QED BY <1>3, <2>1, SMT
<1>7. ~(w >= h) => ~(a >= h * p)
  <2> SUFFICES ASSUME ~(w >= h)
               PROVE  a < h * p
    <3>1. a \in Int /\ h * p \in Int
      BY <1>3, <1>4, SMT
    <3> QED BY <3>1, SMT
  <2>1. w <= h - 1 /\ h - 1 \in Nat
    BY <1>3, <1>4, SMT
  <2>2. w * p <= (h - 1) * p /\ w * p \in Nat
    BY <1>3, <1>4, <2>1, ProductsGrow
  <2>3. (h - 1) * p = h * p - p /\ h * p \in Int
    BY <1>4, SMT
  <2> QED BY <1>3, <1>4, <2>2, <2>3, SMT
<1>8. IsNeg(ToWords(a, NumWords)) = (w >= h)
  BY DEF IsNeg, w, h, x, m
<1> QED BY <1>5, <1>6, <1>7, <1>8

LEMMA BigEndianBack ==
  ASSUME NEW x \in Digits(NumWords)
  PROVE  FromBigEndian(ExportBigEndian(x, NumWords)) = x
<1>1. ASSUME NEW i \in Words(NumWords)
      PROVE  /\ NumWords - 1 - i \in Words(NumWords)
             /\ NumWords - (NumWords - 1 - i) - 1 = i
  BY WidthIs, SMT DEF Words
<1>2. \A i \in Words(NumWords) : ExportBigEndian(x, NumWords)[NumWords - 1 - i] = x[i]
  BY <1>1 DEF ExportBigEndian
<1> QED BY <1>2 DEF FromBigEndian, Digits

-----------------------------------------------------------------------------
(* Shifts *)

LEMMA RightShiftIs ==
  ASSUME NEW a \in Numbers, NEW count \in 1 .. WordBits
  PROVE  Value(RightShift(ToWords(a, NumWords), count), NumWords) = a \div TwoTo[count]
<1> DEFINE L == NumWords
           x == ToWords(a, L)
           y == RightShift(x, count)
           s == TwoTo[count]
           t == TwoTo[WordBits - count]
           r == [n \in 0 .. L |-> IF n < L THEN x[n] % s ELSE 0]
           S == {n \in Nat : n <= L =>
                   s * Value(y, n) = Value(x, n) - r[0] + r[n] * BaseTo(n)}
<1>1. L \in Nat \ {0} /\ L <= 2 * NumWords /\ M = BaseTo(L) /\ a \in Nat
  BY NumberIs, WidthIs
<1>2. x \in Digits(L) /\ Value(x, L) = a
  BY NumbersAreWords
<1>3. s \in Nat \ {0} /\ t \in Nat \ {0} /\ Base = s * t
  BY HalfOfWord
<1>4. \A n \in 0 .. L - 1 : x[n] \in Nat /\ x[n] \in Int /\ x[n] < Base
  BY <1>1, <1>2, DigitsAreIntegers
<1>5. ASSUME NEW n \in 0 .. L - 1
      PROVE  y[n] = x[n] \div s + (IF n < L - 1 THEN (x[n + 1] * t) % Base ELSE 0)
  <2>1. n \in Words(NumWords)
    BY <1>5 DEF Words
  <2> HIDE DEF x
  <2> QED BY <2>1 DEF RightShift
<1>6. y = [n \in Words(L) |-> y[n]]
  BY DEF RightShift
<1> HIDE DEF x, y, s, t
<1>7. /\ \A n \in 0 .. L : r[n] \in 0 .. s - 1 /\ r[n] \in Int
      /\ \A n \in 0 .. L - 1 : r[n] = x[n] % s
      /\ r[L] = 0
  <2>1. ASSUME NEW n \in 0 .. L - 1
        PROVE  r[n] = x[n] % s /\ x[n] % s \in 0 .. s - 1
    <3>1. n \in 0 .. L /\ n < L
      BY <1>1, SMT
    <3> QED BY <1>3, <1>4, <3>1, SMT
  <2>2. r[L] = 0 /\ 0 \in 0 .. s - 1 /\ L \in 0 .. L
    BY <1>1, <1>3, SMT
  <2>3. \A n \in 0 .. L : n = L \/ n \in 0 .. L - 1
    BY <1>1, SMT
  <2> HIDE DEF r
  <2>4. \A n \in 0 .. L : r[n] \in 0 .. s - 1
    BY <2>1, <2>2, <2>3
  <2> QED BY <1>3, <2>1, <2>2, <2>4, SMT
<1> HIDE DEF r
<1>8. ASSUME NEW n \in 0 .. L - 1
      PROVE  y[n] \in Int /\ s * y[n] = x[n] - r[n] + r[n + 1] * Base
  <2>1. x[n] \div s \in Int /\ s * (x[n] \div s) = x[n] - r[n] /\ r[n] \in Int
    BY <1>3, <1>4, <1>7, SMT
  <2>2. CASE n < L - 1
    <3>1. n + 1 \in 0 .. L - 1
      BY <1>1, <2>2, SMT
    <3> DEFINE w == x[n + 1]
    <3>2. w \in Nat /\ r[n + 1] = w % s /\ w % s \in Int
      BY <1>3, <1>4, <1>7, <3>1, SMT
    <3> HIDE DEF w
    <3>3. (w * t) % (s * t) = ((w * t) % t) + (((w * t) \div t) % s) * t
      <4>1. w * t \in Nat
        BY <1>3, <3>2, SMT
      <4> DEFINE z == w * t
      <4> HIDE DEF z
      <4>2. z \in Nat => z % (s * t) = (z % t) + ((z \div t) % s) * t
        BY <1>3, DivideTwice
      <4> QED BY <4>1, <4>2 DEF z
    <3>4. (w * t) % t = 0 /\ (w * t) \div t = w
      <4>1. w * t = w * t + 0 /\ w * t \in Int /\ w \in Int /\ 0 \in 0 .. t - 1
        BY <1>3, <3>2, SMT
      <4> QED BY <1>3, <4>1, RemainderOf
    <3>5. (w * t) % Base = (w % s) * t
      <4>1. (w % s) * t = 0 + (w % s) * t
        BY <1>3, <3>2, SMT
      <4> QED BY <1>3, <3>3, <3>4, <4>1
    <3>6. y[n] = x[n] \div s + r[n + 1] * t
      BY <1>5, <2>2, <3>2, <3>5 DEF w
    <3>7. s * (x[n] \div s + r[n + 1] * t) = s * (x[n] \div s) + r[n + 1] * (s * t)
      BY <1>3, <2>1, <3>2, SMT
    <3>8. y[n] \in Int
      BY <1>3, <2>1, <3>2, <3>6, SMT
    <3> QED BY <1>3, <2>1, <3>6, <3>7, <3>8
  <2>3. CASE ~(n < L - 1)
    <3>1. n + 1 = L
      BY <2>3, <1>1, SMT
    <3>2. y[n] = x[n] \div s + 0 /\ r[n + 1] = 0
      BY <1>5, <1>7, <2>3, <3>1
    <3>3. y[n] = x[n] \div s
      BY <2>1, <3>2, SMT
    <3>4. r[n + 1] * Base = 0 /\ x[n] \in Int
      BY <1>4, <3>2, PowersOfBase, SMT
    <3>5. (x[n] - r[n]) + 0 = x[n] - r[n]
      BY <2>1, <3>4, SMT
    <3> QED BY <2>1, <3>3, <3>4, <3>5
  <2> QED BY <2>2, <2>3
<1>9. /\ Value(x, 0) = 0 /\ Value(y, 0) = 0
      /\ \A n \in 0 .. L - 1 : /\ Value(x, n + 1) = Value(x, n) + x[n] * BaseTo(n)
                               /\ Value(y, n + 1) = Value(y, n) + y[n] * BaseTo(n)
      /\ \A n \in 0 .. L : Value(x, n) \in Int /\ Value(y, n) \in Int
  BY <1>1, <1>4, <1>8, ValueNext
<1>10. 0 \in S
  <2>1. r[0] \in Int
    <3>1. 0 \in 0 .. L
      BY <1>1, SMT
    <3> QED BY <1>7, <3>1
  <2>2. s * 0 = 0 - r[0] + r[0] * 1
    BY <1>3, <2>1, SMT
  <2> QED BY <1>9, <2>2, PowersOfBase
<1>11. ASSUME NEW n \in Nat, n \in S
      PROVE  n + 1 \in S
  <2> SUFFICES ASSUME n + 1 <= L
               PROVE  s * Value(y, n + 1) = Value(x, n + 1) - r[0] + r[n + 1] * BaseTo(n + 1)
    OBVIOUS
  <2>1. /\ n \in 0 .. L - 1 /\ n \in 0 .. L /\ n + 1 \in 0 .. L /\ 0 \in 0 .. L /\ n <= L
        /\ n < 2 * NumWords /\ n <= 2 * NumWords
    BY <1>1, WidthIs, SMT
  <2> DEFINE p == BaseTo(n)
             b == Base
             vx == Value(x, n)
             vy == Value(y, n)
             w == x[n]
             z == y[n]
             r0 == r[0]
             rn == r[n]
             rm == r[n + 1]
  <2>2. /\ p \in Nat \ {0} /\ b \in Nat \ {0} /\ BaseTo(n + 1) = b * p
        /\ vx \in Int /\ vy \in Int /\ w \in Int /\ z \in Int /\ r0 \in Int /\ rn \in Int /\ rm \in Int
        /\ Value(x, n + 1) = vx + w * p /\ Value(y, n + 1) = vy + z * p
        /\ s * vy = vx - r0 + rn * p /\ s * z = w - rn + rm * b
    BY <1>4, <1>7, <1>8, <1>9, <1>11, <2>1, PowersOfBase
  <2> HIDE DEF p, b, vx, vy, w, z, r0, rn, rm
  <2>3. s * (vy + z * p) = s * vy + (s * z) * p
    BY <1>3, <2>2, SMT
  <2>4. (w - rn + rm * b) * p = w * p - rn * p + rm * (b * p)
    BY <2>2, SMT
  <2>5. w * p \in Int /\ rn * p \in Int /\ rm * (b * p) \in Int
    BY <2>2, SMT
  <2>6. s * (vy + z * p) = (vx - r0 + rn * p) + (w * p - rn * p + rm * (b * p))
    BY <2>2, <2>3, <2>4
  <2>7. (vx - r0 + rn * p) + (w * p - rn * p + rm * (b * p)) = (vx + w * p) - r0 + rm * (b * p)
    <3> DEFINE e1 == w * p
               e2 == rn * p
               e3 == rm * (b * p)
    <3>1. e1 \in Int /\ e2 \in Int /\ e3 \in Int
      BY <2>5
    <3> HIDE DEF e1, e2, e3
    <3>2. (vx - r0 + e2) + (e1 - e2 + e3) = (vx + e1) - r0 + e3
      BY <2>2, <3>1, SMT
    <3> QED BY <3>2 DEF e1, e2, e3
  <2> QED BY <2>2, <2>6, <2>7 DEF r0, rm
<1>12. Nat \subseteq S
  <2> HIDE DEF S
  <2> QED BY <1>10, <1>11, SetInduction
<1>13. s * Value(y, L) = a - r[0] + r[L] * M
  BY <1>1, <1>2, <1>12
<1>14. a \div s = Value(y, L)
  <2> DEFINE z == Value(y, L)
             r0 == r[0]
  <2>1. z \in Int /\ r0 \in 0 .. s - 1 /\ r[L] = 0 /\ a \in Int
    <3>1. 0 \in 0 .. L /\ L \in 0 .. L
      BY <1>1, SMT
    <3> QED BY <1>1, <1>7, <1>9, <3>1, SMT
  <2>2. s * z = a - r0 + 0 * M
    BY <1>13, <2>1
  <2> HIDE DEF z, r0
  <2>3. a = z * s + r0
    BY <1>3, <2>1, <2>2, ModulusAssumption, SMT
  <2>4. a \div s = z
    BY <1>3, <2>1, <2>3, RemainderOf
  <2> QED BY <2>4 DEF z
<1> QED BY <1>14 DEF y, x, s, L

LEMMA DivBy2Is ==
  ASSUME NEW a \in Numbers
  PROVE  Value(DivBy2(ToWords(a, NumWords)), NumWords) = a \div 2
<1>1. 1 \in 1 .. WordBits
  BY WidthIs, SMT
<1>2. TwoTo[1] = 2
  BY <1>1, HalfOfWord
<1> QED BY <1>1, <1>2, RightShiftIs DEF DivBy2

\* Quotient and remainder of a natural number.
LEMMA QuotientOf ==
  ASSUME NEW n \in Nat, NEW d \in Nat \ {0}
  PROVE  n = d * (n \div d) + (n % d) /\ n \div d \in Nat /\ n % d \in 0 .. d - 1
<1> DEFINE q == n \div d
           r == n % d
<1>1. n = d * q + r /\ q \in Int /\ r \in 0 .. d - 1
  BY SMT
<1> HIDE DEF q, r
<1>2. ~(q <= -1)
  <2> SUFFICES ASSUME q <= -1
               PROVE  FALSE
    OBVIOUS
  <2>1. d * q <= d * (-1)
    BY <1>1, SMT
  <2> QED BY <1>1, <2>1, SMT
<1>3. q \in Nat
  BY <1>1, <1>2, SMT
<1> QED BY <1>1, <1>3, Zenon DEF q, r

-----------------------------------------------------------------------------
(* Bits *)

\* Bit k of a number is a bit of its word k div WordBits.
LEMMA BitIndex ==
  ASSUME NEW k \in 0 .. Bits - 1
  PROVE  /\ k \div WordBits \in 0 .. NumWords - 1 /\ k % WordBits \in 0 .. WordBits - 1
         /\ k \in 0 .. 2 * Bits
         /\ TwoTo[k] = TwoTo[k % WordBits] * BaseTo(k \div WordBits)
         /\ TwoTo[k % WordBits] \in Nat \ {0} /\ TwoTo[k % WordBits] < Base
         /\ \E h \in Nat \ {0} : Base = TwoTo[k % WordBits] * (2 * h)
<1> DEFINE W == WordBits
           q == k \div W
           r == k % W
<1>1. W \in Nat \ {0} /\ NumWords \in Nat \ {0} /\ k \in Nat /\ k < W * NumWords /\ k <= 2 * Bits
        /\ k \in 0 .. 2 * Bits
  BY WidthIs, SMT
<1>2. k = W * q + r /\ q \in Int /\ r \in 0 .. W - 1
  BY <1>1, SMT
<1> HIDE DEF W, q, r
<1>3. q \in Nat
  <2> SUFFICES ASSUME q <= -1
               PROVE  FALSE
    BY <1>2, SMT
  <2>1. W * q <= W * (-1)
    BY <1>1, <1>2, SMT
  <2> QED BY <1>1, <1>2, <2>1, SMT
<1>4. q < NumWords
  <2> SUFFICES ASSUME NumWords <= q
               PROVE  FALSE
    BY <1>1, <1>3, SMT
  <2>1. W * NumWords <= W * q /\ W * q \in Nat
    BY <1>1, <1>3, ProductsGrow, SMT
  <2> QED BY <1>1, <1>2, <2>1, SMT
<1>5. q \in 0 .. NumWords - 1 /\ q <= 2 * NumWords
  BY <1>1, <1>3, <1>4, SMT
<1>6. TwoTo[k] = TwoTo[r] * BaseTo(q)
  <2>1. W * q \in Nat /\ r \in Nat /\ r + W * q = k
    BY <1>1, <1>2, <1>3, SMT
  <2>2. TwoTo[r + W * q] = TwoTo[r] * TwoTo[W * q]
    BY <1>1, <2>1, TwoToSum
  <2> QED BY <2>1, <2>2 DEF BaseTo, W
<1>7. /\ r + 1 \in 1 .. WordBits /\ r \in 0 .. 2 * Bits - 1 /\ r \in 0 .. 2 * Bits
  <2>1. 1 * W <= W * NumWords
    BY <1>1, ProductsGrow, SMT
  <2> QED BY <1>1, <1>2, <2>1, WidthIs, SMT DEF W
<1> DEFINE h == TwoTo[WordBits - (r + 1)]
           t == TwoTo[r]
<1>8. /\ t \in Nat \ {0} /\ h \in Nat \ {0} /\ Base = TwoTo[r + 1] * h /\ TwoTo[r + 1] = 2 * t
  BY <1>7, HalfOfWord, TwoToPositive, PowersOfTwo
<1> HIDE DEF h, t
<1>9. Base = t * (2 * h)
  BY <1>8, SMT
<1>10. t < t * (2 * h)
  <2>1. t * 2 <= t * (2 * h)
    <3>1. 2 * h \in Nat /\ 2 <= 2 * h
      BY <1>8, SMT
    <3> QED BY <1>8, <3>1, ProductsGrow
  <2> QED BY <1>8, <2>1, SMT
<1> QED BY <1>1, <1>2, <1>5, <1>6, <1>8, <1>9, <1>10 DEF t, r, q, W

LEMMA IndexOfBit ==
  ASSUME NEW n \in Nat
  PROVE  n % Bits \in 0 .. Bits - 1 /\ (n < Bits => n % Bits = n)
BY WidthIs, SMT

LEMMA FillBitsIs ==
  ASSUME NEW n \in Nat
  PROVE  Value(FillBits(n), NumWords) = TwoTo[n % Bits] - 1
<1> DEFINE L == NumWords
           k == n % Bits
           q == k \div WordBits
           t == TwoTo[k % WordBits]
           y == FillBits(n)
           S == {j \in Nat : j <= L => Value(y, j) = IF j <= q THEN BaseTo(j) - 1
                                                     ELSE t * BaseTo(q) - 1}
<1>1. k \in 0 .. Bits - 1
  BY IndexOfBit
<1>2. q \in 0 .. L - 1 /\ t \in Nat \ {0} /\ TwoTo[k] = t * BaseTo(q)
  BY <1>1, BitIndex
<1>3. \A i \in 0 .. L - 1 : y[i] = IF i < q THEN Base - 1 ELSE IF i = q THEN t - 1 ELSE 0
  BY DEF FillBits, Words
<1> HIDE DEF y, q, t, k
<1>4. L \in Nat \ {0} /\ L <= 2 * NumWords /\ Base \in Nat \ {0} /\ q \in Nat /\ q <= 2 * NumWords
  BY <1>2, WidthIs, PowersOfBase, SMT
<1>5. \A i \in 0 .. L - 1 : y[i] \in Int
  BY <1>2, <1>3, <1>4, SMT
<1>6. /\ Value(y, 0) = 0
      /\ \A j \in 0 .. L - 1 : Value(y, j + 1) = Value(y, j) + y[j] * BaseTo(j)
  BY <1>4, <1>5, ValueNext
<1>7. 0 \in S
  <2>1. 0 <= q /\ 1 - 1 = 0
    BY <1>4, SMT
  <2> QED BY <1>6, <2>1, PowersOfBase
<1>8. ASSUME NEW j \in Nat, j \in S
      PROVE  j + 1 \in S
  <2> SUFFICES ASSUME j + 1 <= L
               PROVE  Value(y, j + 1) = IF j + 1 <= q THEN BaseTo(j + 1) - 1 ELSE t * BaseTo(q) - 1
    OBVIOUS
  <2>1. j \in 0 .. L - 1 /\ j <= L /\ j < 2 * NumWords /\ j <= 2 * NumWords
    BY <1>4, WidthIs, SMT
  <2> DEFINE p == BaseTo(j)
             b == Base
             value == Value(y, j)
  <2>2. p \in Nat \ {0} /\ b \in Nat \ {0} /\ BaseTo(j + 1) = b * p /\ BaseTo(q) \in Nat \ {0}
    BY <1>4, <2>1, PowersOfBase
  <2>3. Value(y, j + 1) = value + y[j] * p
    BY <1>6, <2>1
  <2>4. value = IF j <= q THEN p - 1 ELSE t * BaseTo(q) - 1
    BY <1>8, <2>1
  <2>5. CASE j < q
    <3>1. j <= q /\ j + 1 <= q /\ y[j] = b - 1
      BY <1>3, <1>4, <2>1, <2>5, SMT
    <3>2. (p - 1) + (b - 1) * p = b * p - 1
      BY <2>2, SMT
    <3> QED BY <2>2, <2>3, <2>4, <3>1, <3>2
  <2>6. CASE j = q
    <3>1. j <= q /\ ~(j + 1 <= q) /\ y[j] = t - 1 /\ p = BaseTo(q)
      BY <1>3, <1>4, <2>1, <2>6, SMT
    <3>2. (p - 1) + (t - 1) * p = t * p - 1
      BY <1>2, <2>2, SMT
    <3> QED BY <2>2, <2>3, <2>4, <3>1, <3>2
  <2>7. CASE j > q
    <3>1. ~(j <= q) /\ ~(j + 1 <= q) /\ y[j] = 0
      BY <1>3, <1>4, <2>1, <2>7, SMT
    <3>2. (t * BaseTo(q) - 1) + 0 * p = t * BaseTo(q) - 1
      BY <1>2, <2>2, SMT
    <3> QED BY <2>2, <2>3, <2>4, <3>1, <3>2
  <2> QED BY <1>4, <2>5, <2>6, <2>7, SMT
<1>9. Nat \subseteq S
  <2> HIDE DEF S
  <2> QED BY <1>7, <1>8, SetInduction
<1>10. Value(y, L) = t * BaseTo(q) - 1
  <2>1. ~(L <= q) /\ L <= L
    BY <1>2, <1>4, SMT
  <2> QED BY <1>4, <1>9, <2>1
<1> QED BY <1>2, <1>10 DEF y, k

\* A quotient's parity is that of a remainder by an even multiple.
LEMMA ParityOfQuotient ==
  ASSUME NEW n \in Nat, NEW t \in Nat \ {0}, NEW h \in Nat \ {0}
  PROVE  ((n % (t * (2 * h))) \div t) % 2 = (n \div t) % 2
<1> DEFINE e == 2 * h
           b == t * e
           q == n \div b
           r == n % b
           s == r \div t
           z == r % t
<1>1. e \in Nat \ {0} /\ b \in Nat \ {0}
  BY SMT
<1> HIDE DEF b
<1>2. n = b * q + r /\ q \in Int /\ r \in 0 .. b - 1
  BY <1>1, SMT
<1> HIDE DEF q, r
<1>3. r = t * s + z /\ s \in Int /\ z \in 0 .. t - 1
  BY <1>1, <1>2, SMT
<1> HIDE DEF s, z
<1>4. n = (e * q + s) * t + z /\ e * q + s \in Int
  <2>1. (t * e) * q = (e * q) * t /\ e * q \in Int
    BY <1>1, <1>2, SMT
  <2>2. (e * q + s) * t = (e * q) * t + s * t /\ s * t = t * s /\ (e * q) * t \in Int /\ t * s \in Int
    BY <1>3, <2>1, SMT
  <2> DEFINE f == (e * q) * t
             g == t * s
  <2>3. f \in Int /\ g \in Int /\ n = f + (g + z) /\ (e * q + s) * t = f + g
    BY <1>2, <1>3, <2>1, <2>2 DEF b
  <2>4. e * q + s \in Int
    BY <1>3, <2>1, SMT
  <2> HIDE DEF f, g
  <2> QED BY <1>3, <2>3, <2>4, SMT
<1>5. n \div t = e * q + s
  <2> DEFINE f == e * q + s
  <2>1. f \in Int /\ n = f * t + z
    BY <1>4
  <2> HIDE DEF f
  <2>2. n \div t = f
    BY <1>3, <2>1, RemainderOf
  <2> QED BY <2>2 DEF f
<1>6. (e * q + s) % 2 = s % 2
  <2>1. s = 2 * (s \div 2) + (s % 2) /\ s \div 2 \in Int /\ s % 2 \in {0, 1}
    <3>1. s \in Int
      BY <1>3
    <3> QED BY <3>1, HalvesOf, Zenon
  <2> DEFINE f == h * q + s \div 2
             g == s % 2
             j == e * q + s
  <2>2. h * q \in Int /\ e * q = 2 * (h * q)
    BY <1>2, SMT
  <2>3. f \in Int /\ g \in 0 .. 2 - 1 /\ j \in Int /\ j = f * 2 + g /\ 2 \in Nat \ {0}
    BY <1>3, <2>1, <2>2, SMT
  <2> HIDE DEF f, g, j
  <2>4. j % 2 = g
    BY <2>3, RemainderOf
  <2> QED BY <2>4 DEF g, j
<1> QED BY <1>5, <1>6 DEF s, r, b, e

LEMMA BitIs ==
  ASSUME NEW a \in Numbers, NEW n \in 0 .. Bits - 1
  PROVE  Bit(ToWords(a, NumWords), n) = ((a \div TwoTo[n]) % 2 = 1)
<1> DEFINE q == n \div WordBits
           t == TwoTo[n % WordBits]
           p == BaseTo(q)
<1>1. n % Bits = n /\ n \in Nat
  BY WidthIs, IndexOfBit, SMT
<1>2. q \in 0 .. NumWords - 1 /\ t \in Nat \ {0} /\ TwoTo[n] = t * p
  BY BitIndex
<1>3. PICK h \in Nat \ {0} : Base = t * (2 * h)
  BY BitIndex
<1>4. Bit(ToWords(a, NumWords), n) = ((((a \div p) % Base) \div t) % 2 = 1)
  <2>1. ToWords(a, NumWords)[q] = (a \div p) % Base
    BY <1>2 DEF ToWords, Words
  <2> QED BY <1>1, <2>1 DEF Bit
<1>5. p \in Nat \ {0} /\ a \in Nat
  <2>1. q \in Nat /\ q <= 2 * NumWords
    BY <1>2, WidthIs, SMT
  <2> QED BY <2>1, PowersOfBase, NumberIs
<1> HIDE DEF q, t, p
<1>6. a \div p \in Nat
  BY <1>5, QuotientOf
<1>7. (((a \div p) % Base) \div t) % 2 = ((a \div p) \div t) % 2
  <2> DEFINE z == a \div p
  <2>1. z \in Nat
    BY <1>6
  <2> HIDE DEF z
  <2>2. ((z % (t * (2 * h))) \div t) % 2 = (z \div t) % 2
    BY <1>2, <2>1, ParityOfQuotient
  <2> QED BY <1>3, <2>2 DEF z
<1>8. a \div (t * p) = (a \div p) \div t
  <2>1. t \in Nat \ {0} /\ p \in Nat \ {0} /\ a \in Nat
    BY <1>2, <1>5
  <2> QED BY <2>1, QuotientTwice
<1> QED BY <1>2, <1>4, <1>7, <1>8

LEMMA SetBitIs ==
  ASSUME NEW x \in Digits(NumWords), NEW n \in 0 .. Bits - 1, NEW b \in BOOLEAN
  PROVE  Bit(SetBit(x, n, b), n) = b
<1> DEFINE q == n \div WordBits
           t == TwoTo[n % WordBits]
           w == x[q]
           y == SetBit(x, n, b)
<1>1. n % Bits = n
  BY WidthIs, IndexOfBit, SMT
<1>2. q \in 0 .. NumWords - 1 /\ t \in Nat \ {0} /\ q \in DOMAIN x
  BY BitIndex DEF Digits, Words
<1>3. Bit(x, n) = ((w \div t) % 2 = 1) /\ Bit(y, n) = ((y[q] \div t) % 2 = 1)
  BY <1>1 DEF Bit
<1>4. y[q] = IF Bit(x, n) = b THEN w ELSE IF b THEN w + t ELSE w - t
  <2> HIDE DEF q, t
  <2>1. y = [x EXCEPT ![q] = IF Bit(x, n) = b THEN w ELSE IF b THEN w + t ELSE w - t]
    BY DEF SetBit, q, t
  <2> HIDE DEF y, w
  <2> QED BY <1>2, <2>1
<1>5. w \in Nat
  BY <1>2, WidthIs, DigitsAreIntegers
<1> HIDE DEF q, t, w, y
<1> DEFINE s == w \div t
           z == w % t
<1>6. w = s * t + z /\ s \in Int /\ z \in 0 .. t - 1
  BY <1>2, <1>5, SMT
<1> HIDE DEF z
<1>7. (w + t) \div t = s + 1 /\ (w - t) \div t = s - 1
  <2> HIDE DEF s
  <2>1. w + t = (s + 1) * t + z /\ w - t = (s - 1) * t + z
    BY <1>2, <1>6, SMT
  <2> DEFINE wp == w + t
             wm == w - t
             sp == s + 1
             sm == s - 1
  <2>2. /\ wp \in Int /\ wm \in Int /\ sp \in Int /\ sm \in Int
        /\ wp = sp * t + z /\ wm = sm * t + z
    BY <1>2, <1>5, <1>6, <2>1, SMT
  <2> HIDE DEF wp, wm, sp, sm
  <2>3. wp \div t = sp /\ wm \div t = sm
    BY <1>2, <1>6, <2>2, RemainderOf
  <2> QED BY <2>3 DEF wp, wm, sp, sm
<1>8. /\ s % 2 # 1 => (s + 1) % 2 = 1
      /\ s % 2 = 1 => (s - 1) % 2 # 1
  <2> HIDE DEF s
  <2> QED BY <1>6, SMT
<1>9. CASE Bit(x, n) = b
  BY <1>3, <1>4, <1>9 DEF y
<1>10. CASE ~(Bit(x, n) = b) /\ b
  <2>1. y[q] = w + t /\ s % 2 # 1
    BY <1>3, <1>4, <1>10
  <2> QED BY <1>3, <1>7, <1>8, <1>10, <2>1 DEF y
<1>11. CASE ~(Bit(x, n) = b) /\ ~b
  <2>1. y[q] = w - t /\ b = FALSE /\ Bit(x, n) \in BOOLEAN
    BY <1>3, <1>4, <1>11
  <2>2. s % 2 = 1
    BY <1>3, <1>11, <2>1
  <2> QED BY <1>3, <1>7, <1>8, <2>1, <2>2 DEF y
<1> QED BY <1>9, <1>10, <1>11

-----------------------------------------------------------------------------
(* Comparison *)

\* A set of numbers that has a bound has a maximum.
LEMMA MaxIs ==
  ASSUME NEW n \in Nat, NEW S \in SUBSET (0 .. n), S # {}
  PROVE  Max(S) \in S /\ \A i \in S : i <= Max(S)
<1> DEFINE T == {j \in Nat : n - j \in S}
<1>1. T \in SUBSET Nat /\ T # {}
  <2>1. PICK i \in S : TRUE
    OBVIOUS
  <2>2. i \in 0 .. n /\ n - i \in Nat /\ n - (n - i) = i
    BY <2>1, SMT
  <2> QED BY <2>1, <2>2
<1>2. PICK j \in T : \A l \in T : j <= l
  <2> HIDE DEF T
  <2> QED BY <1>1, LeastElement
<1>3. ASSUME NEW i \in S
      PROVE  i <= n - j
  <2>1. i \in 0 .. n /\ n - i \in Nat /\ n - (n - i) = i
    BY SMT
  <2>2. n - i \in T
    BY <2>1
  <2>3. j <= n - i /\ j \in Nat
    BY <1>2, <2>2
  <2> QED BY <2>1, <2>3, SMT
<1>4. n - j \in S /\ \A i \in S : n - j >= i
  <2>1. n - j \in S /\ n - j \in Int
    BY <1>2
  <2>2. \A i \in S : i \in Int
    BY SMT
  <2> QED BY <1>3, <2>1, <2>2, SMT
<1>5. Max(S) \in S /\ \A i \in S : Max(S) >= i
  BY <1>4 DEF Max
<1>6. \A i \in S : i \in Int
  BY SMT
<1>7. \A z \in S : (\A i \in S : z >= i) => \A i \in S : i <= z
  BY <1>6, SMT
<1> QED BY <1>5, <1>7

\* The number with the larger word is larger when the words above agree.
LEMMA LargerWord ==
  ASSUME NEW len \in Nat, len <= 2 * NumWords, NEW a \in Digits(len), NEW b \in Digits(len),
         NEW m \in 0 .. len - 1, a[m] < b[m], \A i \in m + 1 .. len - 1 : a[i] = b[i]
  PROVE  Value(a, len) < Value(b, len)
<1> DEFINE S == {n \in Nat : m + 1 + n <= len => Value(a, m + 1 + n) < Value(b, m + 1 + n)}
<1>1. /\ \A n \in 0 .. len - 1 : /\ Value(a, n + 1) = Value(a, n) + a[n] * BaseTo(n)
                                 /\ Value(b, n + 1) = Value(b, n) + b[n] * BaseTo(n)
      /\ \A n \in 0 .. len : Value(a, n) \in Nat /\ Value(b, n) \in Nat /\ Value(a, n) < BaseTo(n)
      /\ \A n \in 0 .. len - 1 : a[n] \in Nat /\ b[n] \in Nat
  BY DigitsAreIntegers, ValueNext, ValueBelow
<1>2. Value(a, m + 1) < Value(b, m + 1)
  <2> DEFINE p == BaseTo(m)
             x == a[m]
             y == b[m]
             va == Value(a, m)
             vb == Value(b, m)
  <2>1. m \in 0 .. len /\ m \in Nat /\ m <= 2 * NumWords
    BY WidthIs, SMT
  <2>2. /\ p \in Nat \ {0} /\ x \in Nat /\ y \in Nat /\ va \in Nat /\ vb \in Nat /\ x < y /\ va < p
        /\ Value(a, m + 1) = va + x * p /\ Value(b, m + 1) = vb + y * p
    BY <1>1, <2>1, PowersOfBase
  <2> HIDE DEF p, x, y, va, vb
  <2>3. (x + 1) * p <= y * p /\ (x + 1) * p = x * p + p /\ x * p \in Nat /\ y * p \in Nat
    <3>1. x + 1 \in Nat /\ x + 1 <= y /\ p \in Nat
      BY <2>2, SMT
    <3>2. (x + 1) * p <= y * p /\ y * p \in Nat
      BY <2>2, <3>1, ProductsGrow, SMT
    <3> QED BY <2>2, <3>2, SMT
  <2> QED BY <2>2, <2>3, SMT
<1>3. 0 \in S
  <2>1. m + 1 + 0 = m + 1
    BY SMT
  <2> QED BY <1>2, <2>1
<1>4. ASSUME NEW n \in Nat, n \in S
      PROVE  n + 1 \in S
  <2> SUFFICES ASSUME m + 1 + (n + 1) <= len
               PROVE  Value(a, m + 1 + (n + 1)) < Value(b, m + 1 + (n + 1))
    OBVIOUS
  <2> DEFINE j == m + 1 + n
  <2>1. /\ j \in 0 .. len - 1 /\ j \in 0 .. len /\ j <= len /\ j \in m + 1 .. len - 1
        /\ m + 1 + (n + 1) = j + 1 /\ j \in Nat /\ j <= 2 * NumWords
    BY WidthIs, SMT
  <2>2. Value(a, j) < Value(b, j)
    BY <1>4, <2>1
  <2> HIDE DEF j
  <2>3. /\ Value(a, j + 1) = Value(a, j) + a[j] * BaseTo(j)
        /\ Value(b, j + 1) = Value(b, j) + a[j] * BaseTo(j)
    BY <1>1, <2>1
  <2> DEFINE va == Value(a, j)
             vb == Value(b, j)
             w  == a[j] * BaseTo(j)
  <2>4. va \in Nat /\ vb \in Nat /\ w \in Int
    BY <1>1, <2>1, PowersOfBase, SMT
  <2>5. va < vb /\ Value(a, j + 1) = va + w /\ Value(b, j + 1) = vb + w
    BY <2>2, <2>3
  <2> HIDE DEF va, vb, w
  <2> QED BY <2>1, <2>4, <2>5, SMT
<1>5. Nat \subseteq S
  <2> HIDE DEF S
  <2> QED BY <1>3, <1>4, SetInduction
<1>6. PICK n \in Nat : m + 1 + n = len
  <2>1. len - m - 1 \in Nat /\ m + 1 + (len - m - 1) = len
    BY SMT
  <2> QED BY <2>1
<1>7. m + 1 + n <= len
  BY <1>6, SMT
<1>8. Value(a, m + 1 + n) < Value(b, m + 1 + n)
  BY <1>5, <1>7
<1> QED BY <1>6, <1>8

LEMMA CompareIs ==
  ASSUME NEW a \in Numbers, NEW b \in Numbers
  PROVE  LET x == ToWords(a, NumWords)
             y == ToWords(b, NumWords)
         IN  /\ GreaterThanEqualTo(x, y, NumWords) = (a >= b)
             /\ LessThanEqualTo(x, y, NumWords) = (a <= b)
<1> DEFINE L == NumWords
           x == ToWords(a, L)
           y == ToWords(b, L)
           differ == {i \in Words(L) : x[i] # y[i]}
           c == Compare(x, y, L)
           m == Max(differ)
<1>1. x \in Digits(L) /\ Value(x, L) = a /\ y \in Digits(L) /\ Value(y, L) = b
  BY NumbersAreWords
<1>2. L \in Nat /\ L <= 2 * NumWords /\ L - 1 \in Nat /\ a \in Nat /\ b \in Nat
  BY NumberIs, WidthIs
<1> HIDE DEF x, y, L
<1>3. c = IF differ = {} THEN 0 ELSE IF x[m] < y[m] THEN -1 ELSE 1
  BY DEF Compare
<1>4. CASE differ = {}
  <2>1. \A i \in Words(L) : x[i] = y[i]
    BY <1>4
  <2>2. x = y
    BY <1>1, <2>1 DEF Digits
  <2>3. c = 0 /\ a = b
    BY <1>1, <1>3, <1>4, <2>2
  <2>4. (c >= 0) = TRUE /\ (c <= 0) = TRUE /\ (a >= b) = TRUE /\ (a <= b) = TRUE
    BY <1>2, <2>3, SMT
  <2> QED BY <2>4 DEF GreaterThanEqualTo, LessThanEqualTo, x, y, L
<1>5. CASE differ # {}
  <2>1. m \in differ /\ \A i \in differ : i <= m
    <3>1. differ \in SUBSET (0 .. L - 1)
      BY DEF Words
    <3> HIDE DEF differ
    <3> QED BY <1>2, <1>5, <3>1, MaxIs
  <2>2. m \in 0 .. L - 1 /\ x[m] # y[m]
    BY <2>1 DEF Words
  <2>3. \A i \in m + 1 .. L - 1 : x[i] = y[i]
    <3> SUFFICES ASSUME NEW i \in m + 1 .. L - 1, x[i] # y[i]
                 PROVE  FALSE
      OBVIOUS
    <3> HIDE DEF m
    <3>1. i \in 0 .. L - 1 /\ ~(i <= m)
      BY <2>2, SMT
    <3>2. i \in differ
      BY <3>1 DEF Words
    <3> QED BY <2>1, <3>1, <3>2
  <2>4. x[m] \in Nat /\ y[m] \in Nat
    BY <1>1, <1>2, <2>2, DigitsAreIntegers
  <2> HIDE DEF m, c, differ
  <2>5. CASE x[m] < y[m]
    <3>1. c = -1
      BY <1>3, <1>5, <2>5
    <3>2. Value(x, L) < Value(y, L)
      BY <1>1, <1>2, <2>2, <2>3, <2>5, LargerWord
    <3>3. (c >= 0) = FALSE /\ (c <= 0) = TRUE /\ (a >= b) = FALSE /\ (a <= b) = TRUE
      BY <1>1, <1>2, <3>1, <3>2, SMT
    <3> QED BY <3>3 DEF GreaterThanEqualTo, LessThanEqualTo, x, y, L, c
  <2>6. CASE ~(x[m] < y[m])
    <3>1. c = 1
      BY <1>3, <1>5, <2>6
    <3>2. y[m] < x[m]
      BY <2>2, <2>4, <2>6, SMT
    <3>3. \A i \in m + 1 .. L - 1 : y[i] = x[i]
      BY <2>3
    <3>4. Value(y, L) < Value(x, L)
      BY <1>1, <1>2, <2>2, <3>2, <3>3, LargerWord
    <3>5. (c >= 0) = TRUE /\ (c <= 0) = FALSE /\ (a >= b) = TRUE /\ (a <= b) = FALSE
      BY <1>1, <1>2, <3>1, <3>4, SMT
    <3> QED BY <3>5 DEF GreaterThanEqualTo, LessThanEqualTo, x, y, L, c
  <2> QED BY <2>5, <2>6
<1> QED BY <1>4, <1>5

-----------------------------------------------------------------------------
(* Powers *)

LEMMA RemainderOfMultiple ==
  ASSUME NEW z \in Nat, NEW q \in Nat
  PROVE  (z + q * M) % M = z % M
<1> DEFINE e == z \div M
           r == z % M
           y == z + q * M
           f == e + q
<1>1. M \in Nat \ {0}
  BY NumberIs
<1>2. z = M * e + r /\ e \in Nat /\ r \in 0 .. M - 1
  BY <1>1, QuotientOf
<1> HIDE DEF e, r
<1>3. y \in Int /\ f \in Int /\ y = f * M + r
  BY <1>1, <1>2, SMT
<1> HIDE DEF y, f
<1>4. y % M = r
  BY <1>1, <1>2, <1>3, RemainderOf
<1> QED BY <1>4 DEF y, r

LEMMA RemainderTimes ==
  \A a, b \in Nat : /\ ((a % M) * b) % M = (a * b) % M
                    /\ (b * (a % M)) % M = (b * a) % M
<1> TAKE a, b \in Nat
<1> DEFINE q == a \div M
           r == a % M
<1>1. M \in Nat \ {0}
  BY NumberIs
<1>2. a = M * q + r /\ q \in Nat /\ r \in Nat
  <2>1. a = M * q + r /\ q \in Nat /\ r \in 0 .. M - 1
    BY <1>1, QuotientOf
  <2> HIDE DEF q, r
  <2> QED BY <1>1, <2>1, SMT
<1> HIDE DEF q, r
<1>3. a * b = r * b + (q * b) * M /\ r * b \in Nat /\ q * b \in Nat /\ b * r = r * b /\ b * a = a * b
  BY <1>1, <1>2, SMT
<1> DEFINE rb == r * b
           qb == q * b
<1>4. rb \in Nat /\ qb \in Nat
  BY <1>3
<1> HIDE DEF rb, qb
<1>5. (rb + qb * M) % M = rb % M
  BY <1>4, RemainderOfMultiple
<1>6. (r * b) % M = (a * b) % M
  BY <1>3, <1>5 DEF rb, qb
<1> QED BY <1>3, <1>6 DEF r

LEMMA MulIs ==
  \A x, y \in Nat : Mul(x, y) \in Nat /\ Mul(x, y) \in Numbers
<1> TAKE x, y \in Nat
<1>1. x * y \in Int /\ M \in Nat \ {0}
  BY NumberIs, SMT
<1>2. (x * y) % M \in 0 .. M - 1
  <2> DEFINE z == x * y
  <2> HIDE DEF z
  <2>1. z \in Int => z % M \in 0 .. M - 1
    BY <1>1, SMT
  <2> QED BY <1>1, <2>1 DEF z
<1> QED BY <1>2, NumberIs, SMT DEF Mul, Numbers

\* The loop of pow: the function that it computes from its locals.
IsPower(power) ==
  /\ power \in [PowLocals -> Nat]
  /\ \A n, square, product \in Nat :
       power[[n |-> n, square |-> square, product |-> product]] =
         IF n = 0 THEN product
         ELSE power[[n |-> n \div 2, square |-> Mul(square, square),
                     product |-> IF n % 2 = 1 THEN Mul(product, square) ELSE product]]

LEMMA PowLoops ==
  \E power : IsPower(power)
               /\ \A x, n : Pow(x, n) = power[[n |-> n, square |-> x, product |-> 1]]
<1> DEFINE D == PowLocals
           After(w) == [n |-> w.n \div 2, square |-> Mul(w.square, w.square),
                        product |-> IF w.n % 2 = 1 THEN Mul(w.product, w.square) ELSE w.product]
           stop == {w \in D : w.n = 0}
           result == [w \in stop |-> w.product]
           next == [w \in D \ stop |-> After(w)]
           step == [w \in D |-> [y \in Nat |-> y]]
           measure == [w \in D |-> w.n]
           power == CHOOSE f : f = [w \in D |-> IF w.n = 0 THEN w.product ELSE f[After(w)]]
<1>1. ASSUME NEW w \in D
      PROVE  w.n \in Nat /\ w.square \in Nat /\ w.product \in Nat
  BY DEF PowLocals
<1>2. ASSUME NEW w \in D
      PROVE  After(w) \in D /\ After(w).n = w.n \div 2
  <2> DEFINE n == w.n
  <2>1. n \in Nat
    BY <1>1
  <2> HIDE DEF n
  <2>2. n \div 2 \in Nat
    BY <2>1, SMT
  <2>3. w.n \div 2 \in Nat
    BY <2>2 DEF n
  <2>4. Mul(w.square, w.square) \in Nat /\ Mul(w.product, w.square) \in Nat
    BY <1>1, MulIs
  <2> QED BY <1>1, <2>3, <2>4 DEF PowLocals
<1>3. ASSUME NEW w \in D \ stop
      PROVE  next[w] = After(w) /\ next[w] \in D /\ measure[next[w]] < measure[w]
  <2>1. next[w] = After(w) /\ After(w) \in D /\ After(w).n = w.n \div 2 /\ w \in D /\ w.n # 0
    BY <1>2
  <2> DEFINE n == w.n
  <2>2. n \in Nat /\ n # 0
    BY <1>1, <2>1
  <2> HIDE DEF n
  <2>3. n \div 2 < n
    BY <2>2, SMT
  <2>4. measure[After(w)] = n \div 2 /\ measure[w] = n
    BY <2>1 DEF n
  <2> HIDE DEF measure, next
  <2> QED BY <2>1, <2>3, <2>4
<1>4. IsLoop(D, Nat, stop, result, next, step, measure)
  <2>1. stop \in SUBSET D /\ result \in [stop -> Nat] /\ measure \in [D -> Nat]
    BY <1>1
  <2>2. next \in [D \ stop -> D]
    BY <1>3
  <2>3. step \in [D -> [Nat -> Nat]]
    OBVIOUS
  <2> HIDE DEF D, stop, result, next, step, measure
  <2> QED BY <1>3, <2>1, <2>2, <2>3 DEF IsLoop
<1>5. PICK f : RunsTo(f, D, Nat, stop, result, next, step)
  <2> HIDE DEF D, stop, result, next, step, measure
  <2> QED BY <1>4, Recursion
<1>6. f \in [D -> Nat] /\ \A w \in D : f[w] = IF w.n = 0 THEN w.product ELSE f[After(w)]
  <2>1. f \in [D -> Nat]
    BY <1>5 DEF RunsTo
  <2>2. ASSUME NEW w \in D, w.n = 0
        PROVE  f[w] = w.product
    BY <1>5, <2>2 DEF RunsTo
  <2>3. ASSUME NEW w \in D, w.n # 0
        PROVE  f[w] = f[After(w)]
    <3>1. w \in D \ stop /\ next[w] = After(w) /\ f[After(w)] \in Nat
      BY <1>3, <2>1, <2>3
    <3>2. f[w] = step[w][f[next[w]]]
      BY <1>5, <3>1 DEF RunsTo
    <3> HIDE DEF next, stop
    <3> QED BY <3>1, <3>2
  <2> HIDE DEF D, After
  <2> QED BY <2>1, <2>2, <2>3
<1>7. f = [w \in D |-> IF w.n = 0 THEN w.product ELSE f[After(w)]]
  <2> HIDE DEF D, After
  <2> QED BY <1>6
<1>8. power = [w \in D |-> IF w.n = 0 THEN w.product ELSE power[After(w)]]
  <2> HIDE DEF D, After
  <2> QED BY <1>7, Zenon
<1>9. \A x, n : Pow(x, n) = power[[n |-> n, square |-> x, product |-> 1]]
  BY DEF Pow
<1> HIDE DEF power
<1>10. \A w \in D : power[w] \in Nat
  <2> DEFINE S == {j \in Nat : \A w \in D : w.n < j => power[w] \in Nat}
  <2>1. 0 \in S
    <3>1. \A n \in Nat : ~(n < 0)
      BY SMT
    <3> QED BY <1>1, <3>1
  <2>2. ASSUME NEW j \in Nat, j \in S
        PROVE  j + 1 \in S
    <3> SUFFICES ASSUME NEW w \in D, w.n < j + 1
                 PROVE  power[w] \in Nat
      OBVIOUS
    <3>1. CASE w.n = 0
      BY <1>1, <1>8, <3>1
    <3>2. CASE w.n # 0
      <4>1. After(w) \in D /\ After(w).n = w.n \div 2
        BY <1>2
      <4> DEFINE n == w.n
      <4>2. n \in Nat /\ n # 0 /\ n < j + 1
        BY <1>1, <3>2
      <4> HIDE DEF n
      <4>3. n \div 2 < j
        BY <4>2, SMT
      <4>4. After(w).n < j
        BY <4>1, <4>3 DEF n
      <4> HIDE DEF D, After
      <4>5. power[After(w)] \in Nat
        BY <2>2, <4>1, <4>4
      <4> QED BY <1>8, <3>2, <4>5
    <3> QED BY <3>1, <3>2
  <2>3. Nat \subseteq S
    <3> HIDE DEF S
    <3> QED BY <2>1, <2>2, SetInduction
  <2> SUFFICES ASSUME NEW w \in D
               PROVE  power[w] \in Nat
    OBVIOUS
  <2>4. w.n \in Nat
    BY <1>1
  <2>5. w.n + 1 \in Nat /\ w.n < w.n + 1
    BY <2>4, SMT
  <2>6. w.n + 1 \in S
    <3> HIDE DEF S
    <3> QED BY <2>3, <2>5
  <2> QED BY <2>5, <2>6
<1>11. IsPower(power)
  <2>1. power \in [D -> Nat]
    <3> HIDE DEF D, After
    <3> QED BY <1>8, <1>10
  <2>2. ASSUME NEW n \in Nat, NEW square \in Nat, NEW product \in Nat
        PROVE  power[[n |-> n, square |-> square, product |-> product]] =
                 IF n = 0 THEN product
                 ELSE power[[n |-> n \div 2, square |-> Mul(square, square),
                     product |-> IF n % 2 = 1 THEN Mul(product, square) ELSE product]]
    <3> DEFINE w == [n |-> n, square |-> square, product |-> product]
    <3>1. w \in D /\ w.n = n /\ w.square = square /\ w.product = product
      BY DEF PowLocals
    <3>2. power[w] = IF w.n = 0 THEN w.product ELSE power[After(w)]
      <4> HIDE DEF w, D, After
      <4> QED BY <1>8, <3>1
    <3> QED BY <3>2, Zenon
  <2> QED BY <2>1, <2>2 DEF IsPower
<1> QED BY <1>9, <1>11

\* The first powers, each from the one before.
LEMMA PowNext ==
  ASSUME NEW a \in Numbers, NEW n \in 0 .. 2
  PROVE  Pow(a, n + 1) = (a * Pow(a, n)) % M
<1>1. PICK power : /\ IsPower(power)
                   /\ \A x, j : Pow(x, j) = power[[n |-> j, square |-> x, product |-> 1]]
  BY PowLoops
<1>2. a \in Nat /\ a % M = a /\ M \in Nat \ {0}
  BY NumberIs
<1>3. /\ 1 \div 2 = 0 /\ 2 \div 2 = 1 /\ 3 \div 2 = 1 /\ 1 % 2 = 1 /\ 2 % 2 = 0 /\ 3 % 2 = 1
      /\ 0 \in Nat /\ 1 \in Nat /\ 2 \in Nat /\ 3 \in Nat /\ 1 # 0 /\ 2 # 0 /\ 3 # 0
  BY SMT
<1> DEFINE At(j, s, p) == power[[n |-> j, square |-> s, product |-> p]]
           aa == Mul(a, a)
<1>4. \A s, p \in Nat :
        /\ At(0, s, p) = p
        /\ At(1, s, p) = At(0, Mul(s, s), Mul(p, s))
        /\ At(2, s, p) = At(1, Mul(s, s), p)
        /\ At(3, s, p) = At(1, Mul(s, s), Mul(p, s))
  <2> TAKE s, p \in Nat
  <2>1. \A j \in Nat : At(j, s, p) = IF j = 0 THEN p
                        ELSE At(j \div 2, Mul(s, s), IF j % 2 = 1 THEN Mul(p, s) ELSE p)
    BY <1>1 DEF IsPower
  <2> HIDE DEF At
  <2>2. At(0, s, p) = p /\ At(1, s, p) = At(1 \div 2, Mul(s, s), IF 1 % 2 = 1 THEN Mul(p, s) ELSE p)
    BY <1>3, <2>1
  <2>3. At(2, s, p) = At(2 \div 2, Mul(s, s), IF 2 % 2 = 1 THEN Mul(p, s) ELSE p)
    BY <1>3, <2>1
  <2>4. At(3, s, p) = At(3 \div 2, Mul(s, s), IF 3 % 2 = 1 THEN Mul(p, s) ELSE p)
    BY <1>3, <2>1
  <2> QED BY <1>3, <2>2, <2>3, <2>4
<1> HIDE DEF At
<1>5. \A s, p \in Nat : At(1, s, p) = Mul(p, s)
  BY <1>4, MulIs
<1>6. aa \in Nat /\ Mul(1, a) = a /\ 1 * a = a /\ a * 1 = a
  BY <1>2, MulIs, SMT DEF Mul
<1>7. Pow(a, 0) = 1 /\ Pow(a, 1) = a /\ Pow(a, 2) = Mul(1, aa) /\ Pow(a, 3) = Mul(a, aa)
  <2>1. \A j : Pow(a, j) = At(j, a, 1)
    BY <1>1 DEF At
  <2> QED BY <1>2, <1>3, <1>4, <1>5, <1>6, <2>1
<1>8. Mul(1, aa) = aa
  <2>1. 1 * aa = aa
    BY <1>6, SMT
  <2>2. aa % M = aa
    BY <1>2, MulIs, NumberIs
  <2> QED BY <2>1, <2>2 DEF Mul
<1>9. CASE n = 0
  BY <1>2, <1>6, <1>7, <1>9
<1>10. CASE n = 1
  <2>1. 1 + 1 = 2
    BY SMT
  <2> QED BY <1>7, <1>8, <1>10, <2>1 DEF Mul
<1>11. CASE n = 2
  <2>1. 2 + 1 = 3
    BY SMT
  <2> QED BY <1>7, <1>8, <1>11, <2>1 DEF Mul
<1> QED BY <1>9, <1>10, <1>11, SMT

\* The powers of two that fit.
LEMMA TwoToBelow ==
  \A n \in 0 .. Bits - 1 : TwoTo[n] \in Nat \ {0} /\ TwoTo[n] < M /\ TwoTo[n] % M = TwoTo[n]
<1> TAKE n \in 0 .. Bits - 1
<1> DEFINE m == Bits - n
<1>1. /\ n \in Nat /\ n \in 0 .. 2 * Bits /\ n + m = Bits /\ n + m <= 2 * Bits
      /\ m \in Nat /\ m - 1 \in 0 .. 2 * Bits - 1 /\ m - 1 \in 0 .. 2 * Bits /\ (m - 1) + 1 = m
  BY WidthIs, SMT
<1>2. M = TwoTo[Bits]
  BY WidthAssumption DEF BaseTo, Bits
<1> HIDE DEF m
<1>3. TwoTo[n + m] = TwoTo[n] * TwoTo[m]
  BY <1>1, TwoToSum
<1> DEFINE s == TwoTo[n]
           t == TwoTo[m - 1]
<1>4. s \in Nat \ {0} /\ t \in Nat \ {0} /\ TwoTo[m] = 2 * t
  <2>1. TwoTo[(m - 1) + 1] = 2 * TwoTo[m - 1]
    BY <1>1, PowersOfTwo
  <2> QED BY <1>1, <2>1, TwoToPositive
<1>5. M = s * (2 * t)
  BY <1>1, <1>2, <1>3, <1>4
<1> HIDE DEF s, t
<1>6. s * 1 <= s * t /\ s * t \in Nat /\ s * (2 * t) = 2 * (s * t)
  <2>1. 1 \in Nat /\ 1 <= t
    BY <1>4, SMT
  <2>2. s * 1 <= s * t /\ s * t \in Nat
    BY <1>4, <2>1, ProductsGrow
  <2> QED BY <1>4, <2>2, SMT
<1>7. s < M /\ s \in 0 .. M - 1 /\ s \in Int /\ 0 \in Int /\ M \in Nat \ {0} /\ s = 0 * M + s
  BY <1>4, <1>5, <1>6, NumberIs, SMT
<1>8. s % M = s
  BY <1>7, RemainderOf
<1> QED BY <1>4, <1>7, <1>8 DEF s

LEMMA PowerOfTwo ==
  ASSUME NEW power, IsPower(power)
  PROVE  \A n \in Nat \ {0}, m \in Nat, p \in Numbers : m * n <= Bits =>
           power[[n |-> n, square |-> TwoTo[m] % M, product |-> p]] = (p * TwoTo[m * n]) % M
<1> DEFINE At(j, s, p) == power[[n |-> j, square |-> s, product |-> p]]
           S == {j \in Nat : \A n \in Nat \ {0}, m \in Nat, p \in Numbers : n < j /\ m * n <= Bits =>
                   At(n, TwoTo[m] % M, p) = (p * TwoTo[m * n]) % M}
<1>1. \A n, s, p \in Nat :
        At(n, s, p) = IF n = 0 THEN p ELSE At(n \div 2, Mul(s, s), IF n % 2 = 1 THEN Mul(p, s) ELSE p)
  BY DEF IsPower
<1> HIDE DEF At
<1>2. ASSUME NEW j \in Nat, j \in S
      PROVE  j + 1 \in S
  <2> SUFFICES ASSUME NEW n \in Nat \ {0}, NEW m \in Nat, NEW p \in Numbers, n < j + 1, m * n <= Bits
               PROVE  At(n, TwoTo[m] % M, p) = (p * TwoTo[m * n]) % M
    OBVIOUS
  <2> DEFINE h == n \div 2
             T == TwoTo[m]
             t == T % M
  <2>1. h \in Nat /\ h < j /\ n = 2 * h + (n % 2) /\ (n % 2 = 0 \/ n % 2 = 1)
    BY SMT
  <2>2. m \in 0 .. 2 * Bits /\ m <= Bits /\ m * n \in Nat
    <3>1. m * 1 <= m * n /\ m * n \in Nat
      <4>1. 1 <= n /\ 1 \in Nat /\ n \in Nat
        BY SMT
      <4> QED BY <4>1, ProductsGrow
    <3> QED BY <3>1, WidthIs, SMT
  <2>3. T \in Nat /\ t \in Nat /\ p \in Nat /\ p % M = p
    <3>1. T \in Nat
      BY <2>2, PowersOfTwo
    <3> HIDE DEF T
    <3>2. T % M \in Nat
      BY <3>1, NumberIs, SMT
    <3> QED BY <3>1, <3>2, NumberIs
  <2>4. Mul(t, t) = TwoTo[m + m] % M
    <3>1. m + m <= 2 * Bits
      BY <2>2, WidthIs, SMT
    <3>2. TwoTo[m + m] = T * T
      BY <3>1, TwoToSum
    <3> HIDE DEF T
    <3>3. (t * t) % M = (T * t) % M
      BY <2>3, RemainderTimes
    <3>4. (T * t) % M = (T * T) % M
      BY <2>3, RemainderTimes
    <3> QED BY <3>2, <3>3, <3>4 DEF Mul
  <2>5. At(n, t, p) = At(h, Mul(t, t), IF n % 2 = 1 THEN Mul(p, t) ELSE p)
    <3> HIDE DEF h, t
    <3> QED BY <1>1, <2>3 DEF h
  <2>6. Mul(p, t) \in Numbers /\ Mul(p, t) = (p * T) % M
    <3> HIDE DEF T
    <3> QED BY <2>3, MulIs, RemainderTimes DEF Mul
  <2> HIDE DEF h, t
  <2>7. CASE h = 0
    <3>1. n = 1 /\ n % 2 = 1 /\ m * n = m
      BY <2>1, <2>7, SMT
    <3>2. Mul(t, t) \in Nat /\ Mul(p, t) \in Nat
      BY <2>3, MulIs
    <3>3. At(h, Mul(t, t), Mul(p, t)) = Mul(p, t)
      BY <1>1, <2>1, <2>7, <3>2
    <3> QED BY <2>5, <2>6, <3>1, <3>3 DEF t
  <2>8. CASE h # 0
    <3> DEFINE mm == m + m
               U == TwoTo[mm * h]
               q == IF n % 2 = 1 THEN Mul(p, t) ELSE p
    <3>1. /\ mm \in Nat /\ mm * h \in Nat /\ mm * h <= Bits /\ mm * h \in 0 .. 2 * Bits
          /\ (n % 2 = 0 => m * n = mm * h) /\ (n % 2 = 1 => m * n = m + mm * h)
      <4>1. m * n = mm * h + m * (n % 2) /\ mm * h \in Nat /\ m * (n % 2) \in Nat
        <5> DEFINE e == n % 2
        <5>1. n = 2 * h + e /\ e \in Nat
          BY <2>1, SMT
        <5> HIDE DEF e
        <5>2. m * (2 * h + e) = mm * h + m * e /\ mm * h \in Nat /\ m * e \in Nat
          BY <2>1, <5>1, SMT
        <5> QED BY <5>1, <5>2 DEF e
      <4> DEFINE z == mm * h
                 y == m * (n % 2)
      <4>2. z \in Nat /\ y \in Nat /\ m * n = z + y /\ (n % 2 = 0 => y = 0) /\ (n % 2 = 1 => y = m)
        BY <4>1, SMT
      <4> HIDE DEF z, y
      <4> QED BY <2>2, <4>2, WidthIs, SMT DEF z
    <3>2. q \in Numbers /\ h \in Nat \ {0}
      BY <2>1, <2>6, <2>8
    <3>3. At(h, TwoTo[mm] % M, q) = (q * U) % M
      <4> HIDE DEF mm, q
      <4> QED BY <1>2, <2>1, <3>1, <3>2
    <3>4. At(n, t, p) = (q * U) % M
      BY <2>4, <2>5, <3>3
    <3>5. U \in Nat
      BY <3>1, PowersOfTwo
    <3>6. CASE n % 2 = 0
      <4>1. q = p /\ m * n = mm * h
        BY <3>1, <3>6, SMT
      <4> HIDE DEF q
      <4> QED BY <3>4, <4>1 DEF t
    <3>7. CASE n % 2 = 1
      <4>1. q = (p * T) % M /\ m * n = m + mm * h
        BY <2>6, <3>1, <3>7
      <4>2. TwoTo[m + mm * h] = T * U
        <5>1. m + mm * h <= 2 * Bits
          BY <3>1, <4>1, WidthIs, SMT
        <5> QED BY <3>1, <5>1, TwoToSum
      <4> HIDE DEF q, U, T
      <4>3. p * T \in Nat /\ (p * T) * U = p * (T * U)
        BY <2>3, <3>5, SMT
      <4>4. (((p * T) % M) * U) % M = ((p * T) * U) % M
        BY <3>5, <4>3, RemainderTimes
      <4> QED BY <3>4, <4>1, <4>2, <4>3, <4>4 DEF t, T
    <3> QED BY <2>1, <3>6, <3>7
  <2> QED BY <2>7, <2>8
<1>3. 0 \in S
  BY SMT
<1>4. Nat \subseteq S
  <2> HIDE DEF S
  <2> QED BY <1>2, <1>3, SetInduction
<1>5. ASSUME NEW n \in Nat \ {0}, NEW m \in Nat, NEW p \in Numbers, m * n <= Bits
      PROVE  At(n, TwoTo[m] % M, p) = (p * TwoTo[m * n]) % M
  <2>1. n + 1 \in Nat /\ n < n + 1
    BY SMT
  <2>2. n + 1 \in S
    BY <1>4, <2>1
  <2> QED BY <1>5, <2>1, <2>2
<1> QED BY <1>5 DEF At

LEMMA PowOfTwo == \A n \in 0 .. Bits - 1 : Pow(2, n) = TwoTo[n]
<1> TAKE n \in 0 .. Bits - 1
<1>1. PICK power : /\ IsPower(power)
                   /\ \A x, j : Pow(x, j) = power[[n |-> j, square |-> x, product |-> 1]]
  BY PowLoops
<1>2. CASE n = 0
  <2>1. 0 \in Nat /\ 1 \in Nat /\ 2 \in Nat
    BY SMT
  <2>2. power[[n |-> 0, square |-> 2, product |-> 1]] = 1
    BY <1>1, <2>1 DEF IsPower
  <2> QED BY <1>1, <1>2, <2>2, PowersOfTwo
<1>3. CASE n # 0
  <2>1. /\ n \in Nat \ {0} /\ 1 \in Nat /\ 1 * n = n /\ n <= Bits /\ 1 \in 0 .. Bits - 1
        /\ 1 \in 1 .. WordBits
    BY <1>3, WidthIs, SMT
  <2>2. TwoTo[1] = 2 /\ 2 % M = 2
    BY <2>1, HalfOfWord, TwoToBelow
  <2>3. 1 \in Numbers
    BY ModulusAssumption, SMT DEF Numbers
  <2>4. power[[n |-> n, square |-> TwoTo[1] % M, product |-> 1]] = (1 * TwoTo[1 * n]) % M
    BY <1>1, <2>1, <2>3, PowerOfTwo
  <2>5. 1 * TwoTo[n] = TwoTo[n] /\ TwoTo[n] % M = TwoTo[n]
    <3> DEFINE t == TwoTo[n]
    <3>1. t \in Nat /\ t % M = t
      BY TwoToBelow
    <3> HIDE DEF t
    <3>2. 1 * t = t
      BY <3>1, SMT
    <3> QED BY <3>1, <3>2 DEF t
  <2> QED BY <1>1, <2>1, <2>2, <2>4, <2>5
<1> QED BY <1>2, <1>3

-----------------------------------------------------------------------------
(* Long division by one word *)

\* A divisor of one word can be shifted until its first bit is a word's first.
LEMMA LeadExists ==
  ASSUME NEW val \in 1 .. Base - 1
  PROVE  \E s \in 0 .. WordBits - 1 : val * TwoTo[s] \in Base \div 2 .. Base - 1
<1> DEFINE h == Base \div 2
           S == {s \in Nat : s <= WordBits - 1 /\ val * TwoTo[s] >= h}
<1>1. h \in Nat \ {0} /\ Base = 2 * h /\ h = TwoTo[WordBits - 1] /\ val \in Nat /\ val <= Base - 1
        /\ 1 <= val /\ WordBits - 1 \in Nat
  BY HalfOfBase, PowersOfBase, WidthIs, SMT
<1> HIDE DEF h
<1>2. WordBits - 1 \in S
  <2>1. 1 * h <= val * h /\ val * h \in Nat /\ 1 * h = h
    BY <1>1, ProductsGrow, SMT
  <2>2. val * h >= h
    BY <1>1, <2>1, SMT
  <2> QED BY <1>1, <2>2, SMT
<1>3. PICK s \in S : \A j \in S : s <= j
  <2>1. S \in SUBSET Nat /\ S # {}
    BY <1>2
  <2> HIDE DEF S
  <2> QED BY <2>1, LeastElement
<1> DEFINE k == val * TwoTo[s]
<1>4. s \in 0 .. WordBits - 1 /\ k >= h
  BY <1>1, <1>3, SMT
<1>5. \A j \in 0 .. WordBits - 1 : j \in 0 .. 2 * Bits /\ TwoTo[j] \in Nat \ {0}
  <2>1. WordBits * 1 = WordBits /\ 1 \in Nat /\ 1 <= 2 * NumWords
    BY WidthIs, SMT
  <2>2. WordBits \in 0 .. 2 * Bits
    BY <2>1, BitOfWord
  <2>3. \A j \in 0 .. WordBits - 1 : j \in 0 .. 2 * Bits
    BY <2>2, WidthIs, SMT
  <2> QED BY <2>3, TwoToPositive
<1>6. k <= Base - 1
  <2>1. CASE s = 0
    <3>1. k = val
      BY <1>1, <2>1, PowersOfTwo, SMT
    <3> QED BY <1>1, <3>1
  <2>2. CASE s # 0
    <3> DEFINE j == s - 1
               t == TwoTo[j]
    <3>1. j \in Nat /\ j \in 0 .. WordBits - 1 /\ j + 1 = s /\ j <= WordBits - 1 /\ ~(s <= j)
      BY <1>1, <1>4, <2>2, SMT
    <3> HIDE DEF j
    <3>2. j \notin S
      BY <1>3, <3>1
    <3>3. ~(val * t >= h)
      BY <3>1, <3>2
    <3>4. t \in Nat \ {0} /\ TwoTo[j + 1] = 2 * t
      <4>1. j + 1 \in 0 .. 2 * Bits /\ j \in 0 .. 2 * Bits
        BY <1>4, <1>5, <3>1
      <4>2. j \in 0 .. 2 * Bits - 1
        BY <4>1, <3>1, WidthIs, SMT
      <4> QED BY <1>5, <3>1, <4>2, PowersOfTwo
    <3> HIDE DEF t
    <3>5. val * (2 * t) = 2 * (val * t) /\ val * t \in Nat
      BY <1>1, <3>4, SMT
    <3>6. k = 2 * (val * t)
      BY <3>1, <3>4, <3>5
    <3> HIDE DEF k
    <3>7. val * t <= h - 1
      BY <1>1, <3>3, <3>5, SMT
    <3> DEFINE y == val * t
    <3>8. y \in Nat /\ y <= h - 1 /\ k = 2 * y
      BY <3>5, <3>6, <3>7
    <3> HIDE DEF y
    <3> QED BY <1>1, <3>8, SMT
  <2> QED BY <2>1, <2>2
<1>7. k \in h .. Base - 1
  <2>1. k \in Int
    BY <1>1, <1>4, <1>5, SMT
  <2> HIDE DEF k
  <2> QED BY <1>1, <1>4, <1>6, <2>1, SMT
<1> QED BY <1>4, <1>7 DEF h

\* What is left of t after 2^s times val, and the quotient so far.
LEMMA QuotientLeft ==
  ASSUME NEW t \in Nat, NEW val \in Nat \ {0}, NEW T \in Nat \ {0}, ~(t < val * T)
  PROVE  /\ t - val * T \in Nat /\ t - val * T < t
         /\ T <= t \div val /\ (t - val * T) \div val = (t \div val) - T
<1> DEFINE q == t \div val
           r == t % val
           k == val * T
<1>1. t = val * q + r /\ q \in Nat /\ r \in 0 .. val - 1
  BY QuotientOf
<1> HIDE DEF q, r
<1>2. k \in Nat \ {0} /\ k <= t
  BY SMT
<1>3. T <= q
  <2> SUFFICES ASSUME q + 1 <= T
               PROVE  FALSE
    BY <1>1, SMT
  <2>1. q + 1 \in Nat /\ T \in Nat /\ val \in Nat
    BY <1>1, SMT
  <2>2. val * (q + 1) <= val * T /\ val * (q + 1) \in Nat
    BY <2>1, ProductsGrow
  <2>3. val * (q + 1) = val * q + val /\ val * q \in Nat
    BY <1>1, SMT
  <2> HIDE DEF k
  <2>4. val * q + val <= k
    BY <2>2, <2>3 DEF k
  <2> QED BY <1>1, <1>2, <2>3, <2>4, SMT
<1> DEFINE z == t - k
           f == q - T
<1>4. z \in Int /\ f \in Int /\ z = f * val + r
  <2>1. f * val = val * q - val * T /\ val * q \in Nat
    BY <1>1, SMT
  <2> DEFINE y == val * q
  <2>2. f * val = y - k /\ y \in Nat /\ t = y + r
    BY <1>1, <2>1
  <2>3. f \in Int
    BY <1>1, SMT
  <2> HIDE DEF y, k, f
  <2> QED BY <1>1, <1>2, <2>2, <2>3, SMT
<1>5. z \in Nat /\ z < t
  <2> HIDE DEF k
  <2> QED BY <1>2, SMT
<1> HIDE DEF z, f, k
<1>6. z \div val = f
  BY <1>1, <1>4, RemainderOf
<1> QED BY <1>3, <1>5, <1>6 DEF z, f, k, q

\* The loop of div: the function that it computes from its locals.
IsQuotient(left, val) ==
  \A w \in DivLocals :
    left[w] = IF w.t < val THEN w.quotient
              ELSE IF w.t < val * TwoTo[w.shift] THEN left[[w EXCEPT !.shift = @ - 1]]
              ELSE left[[w EXCEPT !.t = @ - val * TwoTo[w.shift],
                                  !.quotient = Add(@, Pow(2, w.shift))]]

\* A turn of the loop shifts back or subtracts.
LEMMA DivTurn ==
  ASSUME NEW val \in 1 .. Base - 1, NEW w \in DivLocals, ~(w.t < val)
  PROVE  /\ w.t \in Nat /\ w.shift \in 0 .. Bits - 1 /\ w.quotient \in Nat
         /\ val \in Nat \ {0} /\ TwoTo[w.shift] \in Nat \ {0} /\ Pow(2, w.shift) = TwoTo[w.shift]
         /\ w.t < val * TwoTo[w.shift] =>
              /\ [w EXCEPT !.shift = @ - 1] \in DivLocals
              /\ [w EXCEPT !.shift = @ - 1].t + [w EXCEPT !.shift = @ - 1].shift < w.t + w.shift
         /\ ~(w.t < val * TwoTo[w.shift]) =>
              LET z == [w EXCEPT !.t = @ - val * TwoTo[w.shift],
                                 !.quotient = Add(@, Pow(2, w.shift))]
              IN  z \in DivLocals /\ z.t + z.shift < w.t + w.shift
<1> DEFINE t == w.t
           s == w.shift
           T == TwoTo[s]
           p == Pow(2, s)
<1>1. t \in Nat /\ s \in 0 .. Bits - 1 /\ w.quotient \in Nat
  BY DEF DivLocals
<1>2. val \in Nat \ {0}
  BY PowersOfBase, SMT
<1>3. T \in Nat \ {0} /\ p = T
  BY <1>1, TwoToBelow, PowOfTwo
<1>4. ASSUME t < val * T
      PROVE  /\ [w EXCEPT !.shift = @ - 1] \in DivLocals
             /\ [w EXCEPT !.shift = @ - 1].t + [w EXCEPT !.shift = @ - 1].shift < t + s
  <2>1. s # 0
    <3> SUFFICES ASSUME s = 0
                 PROVE  FALSE
      OBVIOUS
    <3>1. val * TwoTo[0] = val
      BY <1>2, PowersOfTwo, SMT
    <3> QED BY <1>4, <3>1
  <2>2. s - 1 \in 0 .. Bits - 1 /\ t + (s - 1) < t + s
    <3> HIDE DEF t, s
    <3> QED BY <1>1, <2>1, WidthIs, SMT
  <2> DEFINE z == [w EXCEPT !.shift = @ - 1]
  <2>3. z \in DivLocals /\ z.t = t /\ z.shift = s - 1
    BY <1>1, <2>2 DEF DivLocals
  <2> HIDE DEF z, t, s
  <2>4. z.t + z.shift < t + s
    BY <2>2, <2>3
  <2> QED BY <2>3, <2>4 DEF z, t, s
<1>5. ASSUME ~(t < val * T)
      PROVE  LET z == [w EXCEPT !.t = @ - val * TwoTo[w.shift],
                                 !.quotient = Add(@, Pow(2, w.shift))]
             IN  z \in DivLocals /\ z.t + z.shift < t + s
  <2> DEFINE z == [w EXCEPT !.t = @ - val * TwoTo[w.shift],
                            !.quotient = Add(@, Pow(2, w.shift))]
             a == t - val * T
  <2>1. a \in Nat /\ a < t
    <3> HIDE DEF t, T
    <3> QED BY <1>1, <1>2, <1>3, <1>5, QuotientLeft
  <2>2. Add(w.quotient, p) \in Nat
    <3> DEFINE y == w.quotient
    <3>1. y \in Nat /\ p \in Nat
      BY <1>1, <1>3
    <3> HIDE DEF y, p
    <3>2. y + p \in Int
      BY <3>1, SMT
    <3>3. (y + p) % M \in Nat
      <4> DEFINE e == y + p
      <4> HIDE DEF e
      <4>1. e \in Int => e % M \in Nat
        BY NumberIs, SMT
      <4> QED BY <3>2, <4>1 DEF e
    <3> QED BY <3>3 DEF Add, y
  <2>3. z \in DivLocals /\ z.t = a /\ z.shift = s
    <3> DEFINE b == Add(w.quotient, p)
    <3>1. b \in Nat
      BY <2>2
    <3>2. z = [w EXCEPT !.t = a, !.quotient = b]
      BY Zenon
    <3> HIDE DEF a, b, z
    <3> QED BY <1>1, <2>1, <3>1, <3>2 DEF DivLocals
  <2> HIDE DEF z, a, t, s
  <2>4. z.t + z.shift < t + s
    BY <1>1, <2>1, <2>3, WidthIs, SMT
  <2> QED BY <2>3, <2>4 DEF z
<1> QED BY <1>1, <1>2, <1>3, <1>4, <1>5, Zenon

LEMMA DivLoops ==
  ASSUME NEW val \in 1 .. Base - 1
  PROVE  \E left : /\ IsQuotient(left, val)
                   /\ \A x : \E s \in 0 .. Bits - 1 :
                        Div(x, val) = left[[t |-> x, shift |-> s, quotient |-> 0]]
<1> DEFINE D == DivLocals
           After(w) == LET k == val * TwoTo[w.shift]
                       IN  IF w.t < k THEN [w EXCEPT !.shift = @ - 1]
                           ELSE [w EXCEPT !.t = @ - k, !.quotient = Add(@, Pow(2, w.shift))]
           lead == CHOOSE s \in 0 .. WordBits - 1 : val * TwoTo[s] \in Base \div 2 .. Base - 1
           stop == {w \in D : w.t < val}
           result == [w \in stop |-> w.quotient]
           next == [w \in D \ stop |-> After(w)]
           step == [w \in D |-> [y \in Nat |-> y]]
           measure == [w \in D |-> w.t + w.shift]
           left == CHOOSE f : f = [w \in D |->
                     LET k == val * TwoTo[w.shift]
                     IN  IF w.t < val THEN w.quotient
                         ELSE IF w.t < k THEN f[[w EXCEPT !.shift = @ - 1]]
                         ELSE f[[w EXCEPT !.t = @ - k, !.quotient = Add(@, Pow(2, w.shift))]]]
<1>1. ASSUME NEW w \in D
      PROVE  w.t \in Nat /\ w.shift \in Nat /\ w.quotient \in Nat /\ w.t + w.shift \in Nat
  BY WidthIs, SMT DEF DivLocals
<1>2. ASSUME NEW w \in D, ~(w.t < val)
      PROVE  After(w) \in D /\ After(w).t + After(w).shift < w.t + w.shift
  <2>1. CASE w.t < val * TwoTo[w.shift]
    <3>1. After(w) = [w EXCEPT !.shift = @ - 1]
      BY <2>1
    <3> HIDE DEF After
    <3> QED BY <1>2, <2>1, <3>1, DivTurn
  <2>2. CASE ~(w.t < val * TwoTo[w.shift])
    <3>1. After(w) = [w EXCEPT !.t = @ - val * TwoTo[w.shift], !.quotient = Add(@, Pow(2, w.shift))]
      BY <2>2
    <3> HIDE DEF After
    <3> QED BY <1>2, <2>2, <3>1, DivTurn
  <2> QED BY <2>1, <2>2
<1>3. ASSUME NEW w \in D \ stop
      PROVE  next[w] = After(w) /\ next[w] \in D /\ measure[next[w]] < measure[w]
  <2>1. w \in D /\ ~(w.t < val) /\ next[w] = After(w)
    OBVIOUS
  <2>2. After(w) \in D /\ After(w).t + After(w).shift < w.t + w.shift
    BY <1>2, <2>1
  <2> HIDE DEF After, next
  <2> QED BY <2>1, <2>2
<1>4. IsLoop(D, Nat, stop, result, next, step, measure)
  <2>1. stop \in SUBSET D /\ result \in [stop -> Nat] /\ measure \in [D -> Nat]
    BY <1>1
  <2>2. next \in [D \ stop -> D]
    BY <1>3
  <2>3. step \in [D -> [Nat -> Nat]]
    OBVIOUS
  <2> HIDE DEF D, stop, result, next, step, measure
  <2> QED BY <1>3, <2>1, <2>2, <2>3 DEF IsLoop
<1>5. PICK f : RunsTo(f, D, Nat, stop, result, next, step)
  <2> HIDE DEF D, stop, result, next, step, measure
  <2> QED BY <1>4, Recursion
<1>6. f \in [D -> Nat] /\ \A w \in D : f[w] = IF w.t < val THEN w.quotient ELSE f[After(w)]
  <2>1. f \in [D -> Nat]
    BY <1>5 DEF RunsTo
  <2>2. ASSUME NEW w \in D, w.t < val
        PROVE  f[w] = w.quotient
    BY <1>5, <2>2 DEF RunsTo
  <2>3. ASSUME NEW w \in D, ~(w.t < val)
        PROVE  f[w] = f[After(w)]
    <3>1. w \in D \ stop
      BY <2>3
    <3>2. next[w] = After(w) /\ f[After(w)] \in Nat
      <4>1. next[w] = After(w) /\ next[w] \in D
        BY <1>3, <3>1
      <4> HIDE DEF next, After
      <4> QED BY <2>1, <4>1
    <3>3. f[w] = step[w][f[next[w]]]
      <4> HIDE DEF next, After, result, step, measure
      <4> QED BY <1>5, <3>1 DEF RunsTo
    <3> HIDE DEF next, stop, After
    <3> QED BY <3>1, <3>2, <3>3
  <2> HIDE DEF D, After
  <2> QED BY <2>1, <2>2, <2>3
<1>7. f = [w \in D |->
             LET k == val * TwoTo[w.shift]
             IN  IF w.t < val THEN w.quotient
                 ELSE IF w.t < k THEN f[[w EXCEPT !.shift = @ - 1]]
                 ELSE f[[w EXCEPT !.t = @ - k, !.quotient = Add(@, Pow(2, w.shift))]]]
  <2>1. \A w \in D : f[After(w)] = IF w.t < val * TwoTo[w.shift] THEN f[[w EXCEPT !.shift = @ - 1]]
                 ELSE f[[w EXCEPT !.t = @ - val * TwoTo[w.shift], !.quotient = Add(@, Pow(2, w.shift))]]
    <3> HIDE DEF D
    <3> QED BY Zenon
  <2> HIDE DEF D, After
  <2> QED BY <1>6, <2>1
<1>8. left = [w \in D |->
             LET k == val * TwoTo[w.shift]
             IN  IF w.t < val THEN w.quotient
                 ELSE IF w.t < k THEN left[[w EXCEPT !.shift = @ - 1]]
                 ELSE left[[w EXCEPT !.t = @ - k, !.quotient = Add(@, Pow(2, w.shift))]]]
  <2> HIDE DEF D
  <2> QED BY <1>7, Zenon
<1>9. \A x : Div(x, val) = left[[t |-> x, shift |-> (NumWords - 1) * WordBits + lead, quotient |-> 0]]
  BY DEF Div
<1> HIDE DEF left
<1>10. IsQuotient(left, val)
  <2> HIDE DEF D
  <2> QED BY <1>8 DEF IsQuotient, D
<1>11. (NumWords - 1) * WordBits + lead \in 0 .. Bits - 1
  <2>1. lead \in 0 .. WordBits - 1
    BY LeadExists
  <2> HIDE DEF lead
  <2>2. (NumWords - 1) * WordBits = Bits - WordBits /\ 1 * WordBits <= NumWords * WordBits
    <3>1. 1 <= NumWords /\ 1 \in Nat /\ NumWords \in Nat /\ WordBits \in Nat
      BY WidthIs, SMT
    <3>2. 1 * WordBits <= NumWords * WordBits
      BY <3>1, ProductsGrow
    <3>3. (NumWords - 1) * WordBits = Bits - WordBits
      BY WidthIs, SMT
    <3> QED BY <3>2, <3>3
  <2>3. NumWords * WordBits = Bits /\ 1 * WordBits = WordBits
    BY WidthIs, SMT
  <2> QED BY <2>1, <2>2, <2>3, WidthIs, SMT
<1> HIDE DEF lead
<1> QED BY <1>9, <1>10, <1>11

LEMMA DivModIs ==
  ASSUME NEW a \in Numbers, NEW val \in 1 .. Base - 1
  PROVE  Div(a, val) = a \div val /\ Mod(a, val) = a % val
<1>1. PICK left : /\ IsQuotient(left, val)
                  /\ \A x : \E s \in 0 .. Bits - 1 :
                       Div(x, val) = left[[t |-> x, shift |-> s, quotient |-> 0]]
  BY DivLoops
<1>2. a \in Nat /\ a < M /\ M \in Nat \ {0} /\ val \in Nat \ {0}
  BY NumberIs, PowersOfBase, SMT
<1> DEFINE S == {j \in Nat : \A w \in DivLocals :
                   w.t + w.shift < j /\ w.quotient + (w.t \div val) < M =>
                     left[w] = w.quotient + (w.t \div val)}
<1>3. 0 \in S
  <2>1. \A w \in DivLocals : ~(w.t + w.shift < 0)
    BY WidthIs, SMT DEF DivLocals
  <2> QED BY <2>1
<1>4. ASSUME NEW j \in Nat, j \in S
      PROVE  j + 1 \in S
  <2> SUFFICES ASSUME NEW w \in DivLocals, w.t + w.shift < j + 1, w.quotient + (w.t \div val) < M
               PROVE  left[w] = w.quotient + (w.t \div val)
    OBVIOUS
  <2> DEFINE t == w.t
             s == w.shift
             q == w.quotient
             T == TwoTo[s]
             e == t \div val
             y1 == [w EXCEPT !.shift = @ - 1]
             y2 == [w EXCEPT !.t = @ - val * TwoTo[w.shift], !.quotient = Add(@, Pow(2, w.shift))]
  <2>1. t \in Nat /\ s \in Nat /\ q \in Nat
    BY WidthIs, SMT DEF DivLocals
  <2>2. left[w] = IF t < val THEN q ELSE IF t < val * T THEN left[y1] ELSE left[y2]
    BY <1>1 DEF IsQuotient
  <2>3. e \in Nat /\ t + s < j + 1 /\ q + e < M
    <3> HIDE DEF t
    <3> QED BY <1>2, <2>1, QuotientOf DEF t
  <2>4. CASE t < val
    <3>1. t \in 0 .. val - 1 /\ t \in Int /\ 0 \in Int /\ t = 0 * val + t
      <4> HIDE DEF t
      <4> QED BY <1>2, <2>1, <2>4, SMT
    <3> HIDE DEF t, q
    <3>2. e = 0
      BY <1>2, <3>1, RemainderOf
    <3>3. q + 0 = q
      BY <2>1, SMT
    <3> QED BY <2>2, <2>4, <3>2, <3>3 DEF q, t
  <2>5. CASE ~(t < val) /\ t < val * T
    <3>1. y1 \in DivLocals /\ y1.t + y1.shift < t + s
      BY <2>5, DivTurn
    <3>2. y1.t = t /\ y1.quotient = q
      BY DEF DivLocals
    <3>3. y1.t + y1.shift < j
      <4> DEFINE z == y1.t + y1.shift
      <4>1. z \in Int
        <5>1. y1.t \in Int /\ y1.shift \in Int
          BY <3>1, WidthIs, SMT DEF DivLocals
        <5> HIDE DEF y1
        <5> QED BY <5>1, SMT
      <4>2. z < t + s
        BY <3>1
      <4> HIDE DEF z, t, s
      <4>3. z < j
        BY <2>1, <2>3, <4>1, <4>2, SMT
      <4> QED BY <4>3 DEF z
    <3> HIDE DEF y1
    <3>4. left[y1] = y1.quotient + (y1.t \div val)
      BY <1>4, <2>3, <3>1, <3>2, <3>3
    <3> QED BY <2>2, <2>5, <3>2, <3>4
  <2>6. CASE ~(t < val) /\ ~(t < val * T)
    <3>1. y2 \in DivLocals /\ y2.t + y2.shift < t + s /\ T \in Nat \ {0} /\ Pow(2, s) = T
      BY <2>6, DivTurn
    <3>2. y2.t = t - val * T /\ y2.quotient = Add(q, T)
      <4>1. y2 = [w EXCEPT !.t = t - val * T, !.quotient = Add(q, T)]
        BY <3>1
      <4> DEFINE z1 == t - val * T
                 z2 == Add(q, T)
      <4> HIDE DEF y2, z1, z2
      <4>2. y2 = [w EXCEPT !.t = z1, !.quotient = z2]
        BY <4>1 DEF z1, z2
      <4>3. y2.t = z1 /\ y2.quotient = z2
        BY <4>2 DEF DivLocals
      <4> QED BY <4>3 DEF z1, z2
    <3>3. y2.t + y2.shift < j
      <4> DEFINE z == y2.t + y2.shift
      <4>1. z \in Int
        <5>1. y2.t \in Int /\ y2.shift \in Int
          <6> HIDE DEF y2
          <6> QED BY <3>1, WidthIs, SMT DEF DivLocals
        <5> HIDE DEF y2
        <5> QED BY <5>1, SMT
      <4>2. z < t + s
        BY <3>1
      <4> HIDE DEF z, t, s
      <4>3. z < j
        BY <2>1, <2>3, <4>1, <4>2, SMT
      <4> QED BY <4>3 DEF z
    <3> HIDE DEF y2, t, T, s, q
    <3>4. T <= e /\ (t - val * T) \div val = e - T
      <4>1. t \in Nat /\ T \in Nat \ {0} /\ ~(t < val * T)
        BY <2>1, <2>6, <3>1
      <4> QED BY <1>2, <4>1, QuotientLeft
    <3> HIDE DEF e
    <3>5. Add(q, T) = q + T
      <4>1. q + T \in 0 .. M - 1 /\ q + T \in Int
        BY <1>2, <2>1, <2>3, <3>1, <3>4, SMT
      <4> DEFINE z == q + T
      <4> HIDE DEF z
      <4>2. z \in 0 .. M - 1 => z % M = z
        BY NumberIs DEF Numbers
      <4> QED BY <4>1, <4>2 DEF z, Add
    <3>6. (q + T) + (e - T) = q + e
      BY <2>1, <2>3, <3>1, SMT
    <3>7. y2.quotient + (y2.t \div val) = q + e
      BY <3>2, <3>4, <3>5, <3>6
    <3>8. left[y2] = y2.quotient + (y2.t \div val)
      BY <1>4, <2>3, <3>1, <3>3, <3>7
    <3> QED BY <2>2, <2>6, <3>7, <3>8 DEF q, t, e
  <2> QED BY <2>4, <2>5, <2>6
<1>5. Nat \subseteq S
  <2> HIDE DEF S
  <2> QED BY <1>3, <1>4, SetInduction
<1> DEFINE q == a \div val
           r == a % val
<1>6. a = val * q + r /\ q \in Nat /\ r \in 0 .. val - 1
  BY <1>2, QuotientOf
<1> HIDE DEF q, r
<1>7. q <= a /\ q < M /\ val * q \in 0 .. M - 1 /\ r \in Nat
  <2>1. 1 \in Nat /\ 1 <= val /\ val \in Nat
    BY <1>2, SMT
  <2>2. 1 * q <= val * q /\ val * q \in Nat
    BY <1>6, <2>1, ProductsGrow
  <2> DEFINE k == val * q
  <2>3. k \in Nat /\ q <= k /\ a = k + r
    BY <1>6, <2>2, SMT
  <2> HIDE DEF k
  <2>4. q <= a /\ q < M /\ k \in 0 .. M - 1 /\ r \in Nat
    BY <1>2, <1>6, <2>3, SMT
  <2> QED BY <2>4 DEF k
<1>8. Div(a, val) = q
  <2>1. PICK s \in 0 .. Bits - 1 : Div(a, val) = left[[t |-> a, shift |-> s, quotient |-> 0]]
    BY <1>1
  <2> DEFINE w == [t |-> a, shift |-> s, quotient |-> 0]
             j == a + s + 1
  <2>2. w \in DivLocals /\ w.t = a /\ w.shift = s /\ w.quotient = 0
    BY <1>2 DEF DivLocals
  <2>3. j \in Nat /\ a + s < j /\ 0 + q = q
    BY <1>2, <1>6, WidthIs, SMT
  <2> HIDE DEF w, j, S
  <2>4. j \in S
    BY <1>5, <2>3
  <2>5. w.t + w.shift < j /\ w.quotient + (w.t \div val) = q
    BY <2>2, <2>3 DEF q
  <2>6. left[w] = w.quotient + (w.t \div val)
    BY <1>7, <2>2, <2>4, <2>5 DEF S
  <2> QED BY <2>1, <2>5, <2>6 DEF w
<1>9. Mod(a, val) = r
  <2> DEFINE k == val * q
             z == a - k
  <2>1. k \in 0 .. M - 1 /\ q * val = k /\ k \in Nat
    BY <1>2, <1>6, <1>7, SMT
  <2>2. z = r /\ z \in 0 .. M - 1
    <3>1. a = k + r
      BY <1>6
    <3> HIDE DEF k
    <3> QED BY <1>2, <1>6, <1>7, <2>1, <3>1, SMT
  <2>3. Mul(q, val) = k
    <3> HIDE DEF k
    <3> QED BY <2>1, NumberIs DEF Mul, Numbers
  <2> HIDE DEF k
  <2>4. z % M = z
    <3> HIDE DEF z
    <3> QED BY <2>2, NumberIs DEF Numbers
  <2> QED BY <1>8, <2>2, <2>3, <2>4 DEF Mod, Sub
<1> QED BY <1>8, <1>9 DEF q, r

-----------------------------------------------------------------------------
(* Products of arrays *)

\* One word of a product: the high word takes all that is left.
LEMMA WordOfProduct ==
  \A x, y, z, c \in 0 .. Base - 1 :
    /\ (x * y + z + c) % Base \in 0 .. Base - 1
    /\ (x * y + z + c) \div Base \in 0 .. Base - 1
    /\ ((x * y + z + c) % Base) + ((x * y + z + c) \div Base) * Base = x * y + z + c
<1> TAKE x, y, z, c \in 0 .. Base - 1
<1> DEFINE b == Base
           s == x * y + z + c
           r == s % b
           q == s \div b
<1>1. b \in Nat \ {0}
  BY PowersOfBase
<1> HIDE DEF b
<1>2. x \in 0 .. b - 1 /\ y \in 0 .. b - 1 /\ z \in 0 .. b - 1 /\ c \in 0 .. b - 1
  BY DEF b
<1>3. s \in Nat /\ s <= b * b - 1
  <2>1. x \in Nat /\ y \in Nat /\ b - 1 \in Nat /\ x <= b - 1 /\ y <= b - 1
    BY <1>1, <1>2, SMT
  <2>2. x * y <= (b - 1) * y /\ x * y \in Nat
    BY <2>1, ProductsGrow
  <2>3. (b - 1) * y <= (b - 1) * (b - 1) /\ (b - 1) * y \in Nat
    BY <2>1, ProductsGrow
  <2>4. (b - 1) * (b - 1) = b * b - b - b + 1 /\ b * b \in Nat
    BY <1>1, SMT
  <2> DEFINE xy == x * y
             ky == (b - 1) * y
             bb == b * b
  <2>5. xy \in Nat /\ ky \in Nat /\ bb \in Nat /\ xy <= ky /\ ky <= bb - b - b + 1
    BY <2>2, <2>3, <2>4
  <2> HIDE DEF xy, ky, bb
  <2>6. xy + z + c \in Nat /\ xy + z + c <= bb - 1
    BY <1>1, <1>2, <2>5, SMT
  <2> QED BY <2>6 DEF xy, bb
<1> HIDE DEF s
<1>4. s = b * q + r /\ q \in Nat /\ r \in 0 .. b - 1
  BY <1>1, <1>3, QuotientOf
<1> HIDE DEF q, r
<1>5. q <= b - 1
  <2> SUFFICES ASSUME b <= q
               PROVE  FALSE
    BY <1>1, <1>4, SMT
  <2>1. b * b <= b * q /\ b * b \in Nat /\ b * q \in Nat
    BY <1>1, <1>4, ProductsGrow
  <2> DEFINE bb == b * b
             bq == b * q
  <2>2. bb \in Nat /\ bq \in Nat /\ bb <= bq /\ s <= bb - 1 /\ s = bq + r
    BY <1>3, <1>4, <2>1
  <2> HIDE DEF bb, bq
  <2> QED BY <1>1, <1>3, <1>4, <2>2, SMT
<1>6. r \in 0 .. b - 1 /\ q \in 0 .. b - 1 /\ r + q * b = s
  <2>1. q * b = b * q /\ b * q \in Nat
    BY <1>1, <1>4, SMT
  <2>2. r + q * b = s
    <3> DEFINE bq == b * q
    <3>1. bq \in Nat /\ s = bq + r /\ q * b = bq
      BY <1>4, <2>1
    <3> HIDE DEF bq
    <3>2. r + bq = s
      BY <1>1, <1>4, <3>1, SMT
    <3> QED BY <3>1, <3>2
  <2> QED BY <1>1, <1>4, <1>5, <2>2, SMT
<1> QED BY <1>6 DEF r, q, s, b

\* The high words of a row, from its first word on.
IsRow(r, high, xi, i, y, yLen, z, len) ==
  /\ high \in [0 .. yLen -> 0 .. Base - 1] /\ high[0] = 0
  /\ \A j \in 0 .. yLen - 1 : high[j + 1] = (xi * y[j] + z[i + j] + high[j]) \div Base
  /\ r = [k \in Words(len) |-> IF k \in i .. i + yLen - 1
                               THEN (xi * y[k - i] + z[k] + high[k - i]) % Base
                               ELSE IF k = i + yLen THEN high[yLen] ELSE z[k]]

LEMMA RowHas ==
  ASSUME NEW len \in Nat, NEW i \in Nat, NEW yLen \in Nat, i + yLen < len,
         NEW xi \in 0 .. Base - 1, NEW y \in Digits(yLen), NEW z \in Digits(len)
  PROVE  \E high : IsRow(MultiplyRow(xi, i, y, yLen, z), high, xi, i, y, yLen, z, len)
<1> DEFINE D == 0 .. yLen
           T == 0 .. Base - 1
           step == [j \in D |-> [c \in T |-> IF j = 0 THEN c
                                             ELSE (xi * y[j - 1] + z[i + j - 1] + c) \div Base]]
           high == CHOOSE f : f = [j \in D |->
                     IF j = 0 THEN 0 ELSE (xi * y[j - 1] + z[i + j - 1] + f[j - 1]) \div Base]
<1>0. 0 \in T
  BY PowersOfBase, SMT
<1>1. ASSUME NEW j \in D, j # 0
      PROVE  j - 1 \in D /\ \A c \in T : (xi * y[j - 1] + z[i + j - 1] + c) \div Base \in T
  <2>1. j - 1 \in D /\ j - 1 \in 0 .. yLen - 1 /\ i + j - 1 \in 0 .. len - 1
    BY <1>1, SMT
  <2>2. y[j - 1] \in 0 .. Base - 1 /\ z[i + j - 1] \in 0 .. Base - 1
    BY <2>1 DEF Digits, Words
  <2> QED BY <2>1, <2>2, WordOfProduct
<1>2. IsCount(D, T, 0, step)
  <2>1. step \in [D -> [T -> T]]
    <3>1. ASSUME NEW j \in D, NEW c \in T
          PROVE  (IF j = 0 THEN c ELSE (xi * y[j - 1] + z[i + j - 1] + c) \div Base) \in T
      <4>1. CASE j = 0
        BY <4>1
      <4>2. CASE j # 0
        BY <1>1, <4>2
      <4> QED BY <4>1, <4>2
    <3> HIDE DEF D, T
    <3> QED BY <3>1
  <2> HIDE DEF T
  <2> QED BY <1>0, <1>1, <2>1 DEF IsCount
<1>3. PICK f \in [D -> T] : \A j \in D : f[j] = IF j = 0 THEN 0 ELSE step[j][f[j - 1]]
  <2> HIDE DEF D, T, step
  <2> QED BY <1>2, Iteration
<1>4. \A j \in D : f[j] = IF j = 0 THEN 0 ELSE (xi * y[j - 1] + z[i + j - 1] + f[j - 1]) \div Base
  <2> SUFFICES ASSUME NEW j \in D, j # 0
               PROVE  f[j] = (xi * y[j - 1] + z[i + j - 1] + f[j - 1]) \div Base
    BY <1>3
  <2>1. f[j - 1] \in T
    BY <1>1, <1>3
  <2> QED BY <1>3, <2>1
<1>5. f = [j \in D |-> IF j = 0 THEN 0 ELSE (xi * y[j - 1] + z[i + j - 1] + f[j - 1]) \div Base]
  <2> HIDE DEF D
  <2> QED BY <1>3, <1>4
<1>6. high = [j \in D |-> IF j = 0 THEN 0 ELSE (xi * y[j - 1] + z[i + j - 1] + high[j - 1]) \div Base]
  <2> HIDE DEF D
  <2> QED BY <1>5, Zenon
<1>7. MultiplyRow(xi, i, y, yLen, z) =
        [k \in DOMAIN z |-> IF k \in i .. i + yLen - 1
                            THEN (xi * y[k - i] + z[k] + high[k - i]) % Base
                            ELSE IF k = i + yLen THEN high[yLen] ELSE z[k]]
  BY DEF MultiplyRow
<1>8. DOMAIN z = Words(len)
  BY DEF Digits
<1> HIDE DEF high
<1>9. /\ high[0] = 0
      /\ \A j \in 0 .. yLen - 1 : high[j + 1] = (xi * y[j] + z[i + j] + high[j]) \div Base
  <2>1. high[0] = 0
    BY <1>6
  <2>2. ASSUME NEW j \in 0 .. yLen - 1
        PROVE  high[j + 1] = (xi * y[j] + z[i + j] + high[j]) \div Base
    <3>1. j + 1 \in D /\ j + 1 # 0 /\ (j + 1) - 1 = j /\ i + (j + 1) - 1 = i + j
      BY SMT
    <3> QED BY <1>6, <3>1
  <2> QED BY <2>1, <2>2
<1>10. high \in [D -> T]
  <2>1. ASSUME NEW j \in D \ {0}, high[j - 1] \in T
        PROVE  high[j] \in T
    <3>1. high[j] = (xi * y[j - 1] + z[i + j - 1] + high[j - 1]) \div Base
      BY <1>6
    <3> QED BY <1>1, <2>1, <3>1
  <2>2. high = [j \in D |-> high[j]]
    BY <1>6
  <2>3. IsCounted(high, D, T)
    <3> HIDE DEF D, T
    <3> QED BY <1>0, <1>2, <1>9, <2>1, <2>2 DEF IsCounted, IsCount
  <2> HIDE DEF D, T
  <2> QED BY <2>3, IterationType
<1>11. MultiplyRow(xi, i, y, yLen, z) =
        [k \in Words(len) |-> IF k \in i .. i + yLen - 1
                              THEN (xi * y[k - i] + z[k] + high[k - i]) % Base
                              ELSE IF k = i + yLen THEN high[yLen] ELSE z[k]]
  BY <1>7, <1>8
<1> QED BY <1>9, <1>10, <1>11 DEF IsRow

\* The words of a row; nothing is above its last high word.
LEMMA RowWords ==
  ASSUME NEW len \in Nat, NEW i \in Nat, NEW yLen \in Nat, i + yLen < len,
         NEW xi \in 0 .. Base - 1, NEW y \in Digits(yLen), NEW z \in Digits(len),
         NEW r, NEW high, IsRow(r, high, xi, i, y, yLen, z, len)
  PROVE  /\ r \in Digits(len)
         /\ \A k \in 0 .. len - 1 : k \in i .. i + yLen - 1 =>
              /\ k - i \in 0 .. yLen - 1 /\ high[k - i] \in 0 .. Base - 1
              /\ high[k - i + 1] \in 0 .. Base - 1 /\ y[k - i] \in 0 .. Base - 1
              /\ r[k] + high[k - i + 1] * Base = xi * y[k - i] + z[k] + high[k - i]
         /\ \A k \in 0 .. len - 1 : k \notin i .. i + yLen => r[k] = z[k]
         /\ r[i + yLen] = high[yLen] /\ high[yLen] \in 0 .. Base - 1
<1>1. /\ high \in [0 .. yLen -> 0 .. Base - 1] /\ high[0] = 0
      /\ \A j \in 0 .. yLen - 1 : high[j + 1] = (xi * y[j] + z[i + j] + high[j]) \div Base
      /\ r = [k \in Words(len) |-> IF k \in i .. i + yLen - 1
                               THEN (xi * y[k - i] + z[k] + high[k - i]) % Base
                               ELSE IF k = i + yLen THEN high[yLen] ELSE z[k]]
  BY DEF IsRow
<1>2. high[yLen] \in 0 .. Base - 1
  <2>1. yLen \in 0 .. yLen
    BY SMT
  <2> QED BY <1>1, <2>1
<1>3. ASSUME NEW k \in 0 .. len - 1, k \in i .. i + yLen - 1
      PROVE  /\ k - i \in 0 .. yLen - 1 /\ high[k - i] \in 0 .. Base - 1
             /\ high[k - i + 1] \in 0 .. Base - 1 /\ y[k - i] \in 0 .. Base - 1
             /\ r[k] \in 0 .. Base - 1
             /\ r[k] + high[k - i + 1] * Base = xi * y[k - i] + z[k] + high[k - i]
  <2> DEFINE j == k - i
  <2>1. j \in 0 .. yLen - 1 /\ j \in 0 .. yLen /\ j + 1 \in 0 .. yLen /\ i + j = k
    BY <1>3, SMT
  <2>2. y[j] \in 0 .. Base - 1 /\ z[k] \in 0 .. Base - 1 /\ high[j] \in 0 .. Base - 1
          /\ high[j + 1] \in 0 .. Base - 1
    BY <1>1, <2>1 DEF Digits, Words
  <2>3. r[k] = (xi * y[j] + z[k] + high[j]) % Base
    BY <1>1, <1>3 DEF Words
  <2>4. high[j + 1] = (xi * y[j] + z[k] + high[j]) \div Base
    BY <1>1, <2>1
  <2> DEFINE yj == y[j]
             zk == z[k]
             c == high[j]
  <2>5. yj \in 0 .. Base - 1 /\ zk \in 0 .. Base - 1 /\ c \in 0 .. Base - 1
    BY <2>2
  <2> HIDE DEF yj, zk, c, j
  <2>6. /\ (xi * yj + zk + c) % Base \in 0 .. Base - 1
        /\ ((xi * yj + zk + c) % Base) + ((xi * yj + zk + c) \div Base) * Base = xi * yj + zk + c
    BY <2>5, WordOfProduct
  <2> QED BY <2>1, <2>2, <2>3, <2>4, <2>6 DEF yj, zk, c, j
<1>4. ASSUME NEW k \in 0 .. len - 1, k \notin i .. i + yLen
      PROVE  r[k] = z[k]
  <2>1. k \notin i .. i + yLen - 1 /\ k # i + yLen
    BY <1>4, SMT
  <2> QED BY <1>1, <2>1 DEF Words
<1>5. r[i + yLen] = high[yLen]
  <2>1. i + yLen \in 0 .. len - 1 /\ i + yLen \notin i .. i + yLen - 1
    BY SMT
  <2> QED BY <1>1, <2>1 DEF Words
<1>6. r \in Digits(len)
  <2>1. ASSUME NEW k \in 0 .. len - 1
        PROVE  r[k] \in 0 .. Base - 1
    <3>1. CASE k \in i .. i + yLen - 1
      BY <1>3, <3>1
    <3>2. CASE k = i + yLen
      BY <1>2, <1>5, <3>2
    <3>3. CASE k \notin i .. i + yLen
      BY <1>4, <3>3 DEF Digits, Words
    <3> QED BY <3>1, <3>2, <3>3, SMT
  <2>2. r = [k \in Words(len) |-> r[k]]
    BY <1>1
  <2> QED BY <2>1, <2>2 DEF Digits, Words
<1> QED BY <1>2, <1>3, <1>4, <1>5, <1>6

\* One step of the sum of a row, in integers: words, carries and the partial
\* sums before and after it.
LEMMA RowStep ==
  ASSUME NEW p \in Int, NEW b \in Int, NEW vr \in Int, NEW vz \in Int, NEW g \in Int,
         NEW rn \in Int, NEW zn \in Int, NEW c \in Int, NEW cn \in Int,
         NEW xi \in Int, NEW dn \in Int,
         vr + c * p = vz + xi * g,
         rn + cn * b = xi * dn + zn + c
  PROVE  (vr + rn * p) + cn * (b * p) = (vz + zn * p) + xi * (g + dn * p)
<1>1. (rn + cn * b) * p = (xi * dn + zn + c) * p
  OBVIOUS
<1>2. (rn + cn * b) * p = rn * p + cn * (b * p)
  BY SMT
<1>3. (xi * dn + zn + c) * p = xi * (dn * p) + zn * p + c * p
  BY SMT
<1>4. xi * (g + dn * p) = xi * g + xi * (dn * p)
  BY SMT
<1> DEFINE e1 == rn * p
           e2 == cn * (b * p)
           e3 == xi * (dn * p)
           e4 == zn * p
           e5 == c * p
           e6 == xi * g
<1>5. e1 \in Int /\ e2 \in Int /\ e3 \in Int /\ e4 \in Int /\ e5 \in Int /\ e6 \in Int
  BY SMT
<1>6. e1 + e2 = e3 + e4 + e5 /\ vr + e5 = vz + e6
  BY <1>1, <1>2, <1>3
<1> HIDE DEF e1, e2, e3, e4, e5, e6
<1>7. (vr + e1) + e2 = (vz + e4) + (e6 + e3)
  BY <1>5, <1>6, SMT
<1> QED BY <1>4, <1>7 DEF e1, e2, e3, e4, e6

\* A row adds x[i] times y, i words up.
LEMMA RowIs ==
  ASSUME NEW len \in Nat, len <= 2 * NumWords, NEW i \in Nat, NEW yLen \in Nat, i + yLen < len,
         NEW xi \in 0 .. Base - 1, NEW y \in Digits(yLen), NEW z \in Digits(len),
         z[i + yLen] = 0,
         NEW r, NEW high, IsRow(r, high, xi, i, y, yLen, z, len)
  PROVE  Value(r, len) = Value(z, len) + xi * (BaseTo(i) * Value(y, yLen))
<1> DEFINE w(j) == IF j < 0 THEN 0 ELSE IF j < yLen THEN Value(y, j) ELSE Value(y, yLen)
           c(n) == IF n \in i .. i + yLen THEN high[n - i] ELSE 0
           d(n) == IF n \in i .. i + yLen - 1 THEN y[n - i] ELSE 0
           g(n) == BaseTo(i) * w(n - i)
           S == {n \in Nat : n <= len =>
                   Value(r, n) + c(n) * BaseTo(n) = Value(z, n) + xi * g(n)}
<1>1. /\ r \in Digits(len)
      /\ \A k \in 0 .. len - 1 : k \in i .. i + yLen - 1 =>
           /\ k - i \in 0 .. yLen - 1 /\ high[k - i] \in 0 .. Base - 1
           /\ high[k - i + 1] \in 0 .. Base - 1 /\ y[k - i] \in 0 .. Base - 1
           /\ r[k] + high[k - i + 1] * Base = xi * y[k - i] + z[k] + high[k - i]
      /\ \A k \in 0 .. len - 1 : k \notin i .. i + yLen => r[k] = z[k]
      /\ r[i + yLen] = high[yLen] /\ high[yLen] \in 0 .. Base - 1
  BY RowWords, Zenon
<1>2. high \in [0 .. yLen -> 0 .. Base - 1] /\ high[0] = 0
  BY DEF IsRow
<1>3. yLen <= 2 * NumWords /\ i < 2 * NumWords /\ i <= 2 * NumWords
  BY WidthIs, SMT
<1>4. /\ Value(r, 0) = 0 /\ Value(z, 0) = 0 /\ Value(y, 0) = 0
      /\ \A n \in 0 .. len - 1 : /\ Value(r, n + 1) = Value(r, n) + r[n] * BaseTo(n)
                                 /\ Value(z, n + 1) = Value(z, n) + z[n] * BaseTo(n)
                                 /\ r[n] \in Int /\ z[n] \in Int
      /\ \A n \in 0 .. len : Value(r, n) \in Int /\ Value(z, n) \in Int
      /\ \A n \in 0 .. yLen - 1 : Value(y, n + 1) = Value(y, n) + y[n] * BaseTo(n)
      /\ \A n \in 0 .. yLen : Value(y, n) \in Int
  BY <1>1, <1>3, DigitsAreIntegers, ValueNext
<1>5. Base \in Nat \ {0} /\ BaseTo(i) \in Nat \ {0} /\ xi \in Int
  BY <1>3, PowersOfBase, SMT
<1>6. \A j \in Int : w(j) \in Int
  <2>1. 0 \in Int /\ yLen \in 0 .. yLen /\ \A j \in Int : ~(j < 0) /\ j < yLen => j \in 0 .. yLen
    BY SMT
  <2> QED BY <1>4, <2>1
<1>7. ASSUME NEW n \in 0 .. len - 1
      PROVE  /\ c(n) \in Int /\ c(n + 1) \in Int /\ d(n) \in Int
             /\ r[n] + c(n + 1) * Base = xi * d(n) + z[n] + c(n)
             /\ w(n + 1 - i) = w(n - i) + d(n) * (IF n \in i .. i + yLen - 1 THEN BaseTo(n - i) ELSE 0)
  <2>1. CASE n < i /\ n + 1 < i
    <3>1. /\ n \notin i .. i + yLen /\ n + 1 \notin i .. i + yLen /\ n \notin i .. i + yLen - 1
          /\ n + 1 - i < 0 /\ n - i < 0
      BY <2>1, SMT
    <3>2. r[n] + 0 * Base = xi * 0 + z[n] + 0 /\ 0 = 0 + 0 * 0 /\ 0 \in Int
      BY <1>1, <1>4, <1>5, <3>1, SMT
    <3> QED BY <3>1, <3>2, Zenon
  <2>2. CASE n < i /\ n + 1 = i
    <3>1. /\ n \notin i .. i + yLen /\ n + 1 \in i .. i + yLen /\ n \notin i .. i + yLen - 1
          /\ n + 1 - i = 0 /\ n - i < 0 /\ ~(0 < 0)
      BY <2>2, SMT
    <3>2. c(n) = 0 /\ c(n + 1) = 0 /\ d(n) = 0
      BY <1>2, <3>1
    <3>3. r[n] + 0 * Base = xi * 0 + z[n] + 0 /\ 0 = 0 + 0 * 0 /\ 0 \in Int
      BY <1>1, <1>4, <1>5, <3>1, SMT
    <3>4. w(0) = 0 /\ w(n - i) = 0
      <4>1. ~(0 < yLen) => yLen = 0
        BY SMT
      <4> QED BY <1>4, <3>1, <4>1
    <3> QED BY <3>1, <3>2, <3>3, <3>4, Zenon
  <2>3. CASE n \in i .. i + yLen - 1
    <3> DEFINE j == n - i
    <3>1. /\ n \in i .. i + yLen /\ n + 1 \in i .. i + yLen /\ n + 1 - i = j + 1 /\ j \in 0 .. yLen - 1
          /\ ~(j < 0) /\ j < yLen /\ ~(j + 1 < 0) /\ (~(j + 1 < yLen) => j + 1 = yLen)
      BY <2>3, SMT
    <3>2. c(n) = high[j] /\ c(n + 1) = high[j + 1] /\ d(n) = y[j]
      BY <2>3, <3>1
    <3>3. w(n - i) = Value(y, j) /\ w(n + 1 - i) = Value(y, j + 1)
      BY <3>1
    <3>4. Value(y, j + 1) = Value(y, j) + y[j] * BaseTo(j)
      BY <1>4, <3>1
    <3>5. /\ high[j] \in 0 .. Base - 1 /\ high[j + 1] \in 0 .. Base - 1 /\ y[j] \in 0 .. Base - 1
          /\ r[n] + high[j + 1] * Base = xi * y[j] + z[n] + high[j]
      BY <1>1, <2>3
    <3>6. high[j] \in Int /\ high[j + 1] \in Int /\ y[j] \in Int
      <4> HIDE DEF j
      <4> QED BY <3>5, SMT
    <3> HIDE DEF c, d, w
    <3>7. (IF n \in i .. i + yLen - 1 THEN BaseTo(n - i) ELSE 0) = BaseTo(j)
      BY <2>3
    <3> HIDE DEF j
    <3> QED BY <3>2, <3>3, <3>4, <3>5, <3>6, <3>7
  <2>4. CASE n = i + yLen
    <3>1. /\ n \in i .. i + yLen /\ n + 1 \notin i .. i + yLen /\ n \notin i .. i + yLen - 1
          /\ n - i = yLen /\ n + 1 - i = yLen + 1 /\ ~(yLen < 0) /\ ~(yLen < yLen)
          /\ ~(yLen + 1 < 0) /\ ~(yLen + 1 < yLen)
      BY <2>4, SMT
    <3>2. c(n) = high[yLen] /\ c(n + 1) = 0 /\ d(n) = 0 /\ z[n] = 0 /\ r[n] = high[yLen]
      BY <1>1, <2>4, <3>1
    <3>3. high[yLen] \in Int /\ 0 \in Int
      BY <1>1, SMT
    <3>4. w(n - i) = Value(y, yLen) /\ w(n + 1 - i) = Value(y, yLen)
      BY <3>1
    <3>5. Value(y, yLen) \in Int
      <4>1. yLen \in 0 .. yLen
        BY SMT
      <4> QED BY <1>4, <4>1
    <3>6. high[yLen] + 0 * Base = xi * 0 + 0 + high[yLen] /\ Value(y, yLen) = Value(y, yLen) + 0 * 0
      BY <1>5, <3>3, <3>5, SMT
    <3> HIDE DEF c, d, w
    <3>7. (IF n \in i .. i + yLen - 1 THEN BaseTo(n - i) ELSE 0) = 0
      BY <3>1
    <3> QED BY <3>2, <3>3, <3>4, <3>6, <3>7
  <2>5. CASE n > i + yLen
    <3>1. /\ n \notin i .. i + yLen /\ n + 1 \notin i .. i + yLen /\ n \notin i .. i + yLen - 1
          /\ ~(n - i < 0) /\ ~(n - i < yLen) /\ ~(n + 1 - i < 0) /\ ~(n + 1 - i < yLen)
      BY <2>5, SMT
    <3>2. c(n) = 0 /\ c(n + 1) = 0 /\ d(n) = 0 /\ 0 \in Int
      BY <3>1, SMT
    <3>3. w(n - i) = Value(y, yLen) /\ w(n + 1 - i) = Value(y, yLen)
      BY <3>1
    <3>4. Value(y, yLen) \in Int
      <4>1. yLen \in 0 .. yLen
        BY SMT
      <4> QED BY <1>4, <4>1
    <3>5. r[n] + 0 * Base = xi * 0 + z[n] + 0 /\ Value(y, yLen) = Value(y, yLen) + 0 * 0
      BY <1>1, <1>4, <1>5, <3>1, <3>4, SMT
    <3> HIDE DEF c, d, w
    <3>6. (IF n \in i .. i + yLen - 1 THEN BaseTo(n - i) ELSE 0) = 0
      BY <3>1
    <3> QED BY <3>2, <3>3, <3>5, <3>6
  <2>6. \/ n < i /\ n + 1 < i
        \/ n < i /\ n + 1 = i
        \/ n \in i .. i + yLen - 1
        \/ n = i + yLen
        \/ n > i + yLen
    BY SMT
  <2> QED BY <2>1, <2>2, <2>3, <2>4, <2>5, <2>6
<1>8. ASSUME NEW n \in 0 .. len - 1
      PROVE  g(n) \in Int /\ g(n + 1) = g(n) + d(n) * BaseTo(n)
  <2> DEFINE value == w(n - i)
  <2>1. value \in Int
    <3>1. n - i \in Int
      BY SMT
    <3> HIDE DEF w
    <3> QED BY <1>6, <3>1
  <2>2. g(n) \in Int
    <3> HIDE DEF w
    <3>1. BaseTo(i) * value \in Int
      <4> HIDE DEF value
      <4> QED BY <1>5, <2>1, SMT
    <3> QED BY <3>1
  <2>3. CASE n \in i .. i + yLen - 1
    <3> DEFINE e == d(n)
               q == BaseTo(n - i)
               p == BaseTo(i)
    <3>1. n - i \in Nat /\ i + (n - i) = n /\ n <= 2 * NumWords /\ n - i <= 2 * NumWords
      BY <2>3, WidthIs, SMT
    <3>2. BaseTo(n) = p * q /\ q \in Nat \ {0}
      BY <3>1, PowersOfBase
    <3>3. w(n + 1 - i) = value + e * q
      <4> HIDE DEF w, d
      <4> QED BY <1>7, <2>3
    <3>4. e \in Int
      BY <1>7
    <3> HIDE DEF value, e, q, p
    <3>5. p * (value + e * q) = p * value + e * (p * q)
      BY <1>5, <2>1, <3>2, <3>4, SMT DEF p
    <3> HIDE DEF w, d
    <3>6. g(n + 1) = p * (value + e * q) /\ g(n) = p * value
      BY <3>3 DEF p, value
    <3> QED BY <2>2, <3>2, <3>5, <3>6 DEF e
  <2>4. CASE n \notin i .. i + yLen - 1
    <3>1. d(n) = 0
      BY <2>4
    <3>2. w(n + 1 - i) = value + d(n) * 0
      <4> HIDE DEF w, d
      <4> QED BY <1>7, <2>4
    <3> HIDE DEF w, d
    <3>3. value + 0 * 0 = value
      <4> HIDE DEF value
      <4> QED BY <2>1, SMT
    <3>4. n \in Nat /\ n <= 2 * NumWords
      BY WidthIs, SMT
    <3>5. g(n) + 0 * BaseTo(n) = g(n)
      <4> DEFINE e == g(n)
                 p == BaseTo(n)
      <4>1. e \in Int /\ p \in Nat
        BY <2>2, <3>4, PowersOfBase
      <4> HIDE DEF e, p
      <4>2. e + 0 * p = e
        BY <4>1, SMT
      <4> QED BY <4>2 DEF e, p
    <3>6. g(n + 1) = g(n)
      BY <3>1, <3>2, <3>3
    <3> HIDE DEF g
    <3> QED BY <2>2, <3>1, <3>5, <3>6
  <2> QED BY <2>3, <2>4
<1>9. 0 \in S
  <2>1. c(0) = 0
    <3>1. 0 \in i .. i + yLen => 0 - i = 0
      BY SMT
    <3> QED BY <1>2, <3>1
  <2>2. w(0 - i) = 0
    <3>1. CASE i = 0
      <4>1. 0 - i = 0 /\ ~(0 < 0) /\ (~(0 < yLen) => yLen = 0)
        BY <3>1, SMT
      <4> QED BY <1>4, <4>1
    <3>2. CASE i # 0
      <4>1. 0 - i < 0
        BY <3>2, SMT
      <4> QED BY <4>1
    <3> QED BY <3>1, <3>2
  <2> HIDE DEF c, w
  <2>3. 0 + 0 * 1 = 0 + xi * (BaseTo(i) * 0)
    BY <1>5, SMT
  <2> QED BY <1>4, <2>1, <2>2, <2>3, PowersOfBase
<1> HIDE DEF c, d, g
<1>10. ASSUME NEW n \in Nat, n \in S
       PROVE  n + 1 \in S
  <2> SUFFICES ASSUME n + 1 <= len
               PROVE  Value(r, n + 1) + c(n + 1) * BaseTo(n + 1) = Value(z, n + 1) + xi * g(n + 1)
    OBVIOUS
  <2>1. n \in 0 .. len - 1 /\ n \in 0 .. len /\ n <= len /\ n < 2 * NumWords /\ n <= 2 * NumWords
    BY WidthIs, SMT
  <2> DEFINE p == BaseTo(n)
             b == Base
             vr == Value(r, n)
             vz == Value(z, n)
             rn == r[n]
             zn == z[n]
             cc == c(n)
             cn == c(n + 1)
             dn == d(n)
             gg == g(n)
  <2>2. /\ p \in Int /\ b \in Int /\ BaseTo(n + 1) = b * p /\ vr \in Int /\ vz \in Int
        /\ rn \in Int /\ zn \in Int /\ cc \in Int /\ cn \in Int /\ dn \in Int /\ gg \in Int
    <3>1. p \in Nat /\ b \in Nat /\ BaseTo(n + 1) = b * p
      BY <2>1, PowersOfBase
    <3>2. p \in Int /\ b \in Int
      <4> HIDE DEF p, b
      <4> QED BY <3>1, SMT
    <3> QED BY <1>4, <1>7, <1>8, <2>1, <3>1, <3>2
  <2>3. vr + cc * p = vz + xi * gg
    BY <1>10, <2>1
  <2>4. rn + cn * b = xi * dn + zn + cc
    BY <1>7, <2>1
  <2>5. /\ Value(r, n + 1) = vr + rn * p /\ Value(z, n + 1) = vz + zn * p
        /\ g(n + 1) = gg + dn * p
    BY <1>4, <1>8, <2>1
  <2> HIDE DEF p, b, vr, vz, rn, zn, cc, cn, dn, gg
  <2>6. (vr + rn * p) + cn * (b * p) = (vz + zn * p) + xi * (gg + dn * p)
    BY <1>5, <2>2, <2>3, <2>4, RowStep
  <2> QED BY <2>2, <2>5, <2>6 DEF cn
<1>11. Nat \subseteq S
  <2> HIDE DEF S
  <2> QED BY <1>9, <1>10, SetInduction
<1>12. Value(r, len) + c(len) * BaseTo(len) = Value(z, len) + xi * g(len)
  <2>1. len <= len
    BY SMT
  <2> QED BY <1>11, <2>1
<1>13. c(len) = 0 /\ g(len) = BaseTo(i) * Value(y, yLen)
  <2>1. len \notin i .. i + yLen /\ ~(len - i < 0) /\ ~(len - i < yLen)
    BY SMT
  <2> QED BY <2>1 DEF c, g
<1>14. Value(r, len) + 0 * BaseTo(len) = Value(r, len)
  <2> DEFINE value == Value(r, len)
             p == BaseTo(len)
  <2>1. len \in 0 .. len
    BY SMT
  <2>2. value \in Int /\ p \in Nat
    BY <1>4, <2>1, PowersOfBase
  <2> HIDE DEF value, p
  <2>3. value + 0 * p = value
    BY <2>2, SMT
  <2> QED BY <2>3 DEF value, p
<1> QED BY <1>12, <1>13, <1>14

\* The rows of a product, one word of x after the other.
LEMMA RowsHave ==
  ASSUME NEW xLen \in Nat, NEW yLen \in Nat,
         NEW x \in Digits(xLen), NEW y \in Digits(yLen)
  PROVE  \E rows \in [0 .. xLen -> Digits(xLen + yLen)] :
           /\ rows[0] = [k \in Words(xLen + yLen) |-> 0]
           /\ \A i \in 0 .. xLen - 1 : rows[i + 1] = MultiplyRow(x[i], i, y, yLen, rows[i])
           /\ MultiplyWords(x, xLen, y, yLen) = rows[xLen]
<1> DEFINE len == xLen + yLen
           D == 0 .. xLen
           T == Digits(len)
           none == [k \in Words(len) |-> 0]
           step == [i \in D |-> [z \in T |-> IF i = 0 THEN z ELSE MultiplyRow(x[i - 1], i - 1, y, yLen, z)]]
           rows == CHOOSE f : f = [i \in D |->
                     IF i = 0 THEN [k \in Words(xLen + yLen) |-> 0]
                     ELSE MultiplyRow(x[i - 1], i - 1, y, yLen, f[i - 1])]
<1>0. none \in T /\ len \in Nat
  BY PowersOfBase, SMT DEF Digits
<1>1. ASSUME NEW i \in D, i # 0
      PROVE  i - 1 \in D /\ \A z \in T : MultiplyRow(x[i - 1], i - 1, y, yLen, z) \in T
  <2>1. i - 1 \in D /\ i - 1 \in 0 .. xLen - 1 /\ i - 1 \in Nat /\ (i - 1) + yLen < len
    BY <1>1, SMT
  <2>2. x[i - 1] \in 0 .. Base - 1
    BY <2>1 DEF Digits, Words
  <2>3. ASSUME NEW z \in T
        PROVE  MultiplyRow(x[i - 1], i - 1, y, yLen, z) \in T
    <3> DEFINE xi == x[i - 1]
               j == i - 1
               r == MultiplyRow(xi, j, y, yLen, z)
    <3>1. xi \in 0 .. Base - 1 /\ j \in Nat /\ j + yLen < len /\ len \in Nat /\ z \in Digits(len)
      BY <1>0, <2>1, <2>2
    <3> HIDE DEF xi, j, len
    <3>2. PICK high : IsRow(r, high, xi, j, y, yLen, z, len)
      BY <3>1, RowHas
    <3> HIDE DEF r
    <3>3. r \in Digits(len)
      BY <3>1, <3>2, RowWords
    <3> QED BY <3>3 DEF r, xi, j
  <2> QED BY <2>1, <2>3
<1>2. IsCount(D, T, none, step)
  <2>1. step \in [D -> [T -> T]]
    <3>1. ASSUME NEW i \in D, NEW z \in T
          PROVE  (IF i = 0 THEN z ELSE MultiplyRow(x[i - 1], i - 1, y, yLen, z)) \in T
      <4>1. CASE i = 0
        BY <4>1
      <4>2. CASE i # 0
        BY <1>1, <4>2
      <4> QED BY <4>1, <4>2
    <3> HIDE DEF D, T
    <3> QED BY <3>1
  <2>2. D \in SUBSET Nat /\ \A i \in D \ {0} : i - 1 \in D
    BY <1>1
  <2> HIDE DEF T, D, none, step
  <2> QED BY <1>0, <2>1, <2>2 DEF IsCount
<1>3. PICK f \in [D -> T] : \A i \in D : f[i] = IF i = 0 THEN none ELSE step[i][f[i - 1]]
  <2> HIDE DEF D, T, step, none
  <2> QED BY <1>2, Iteration
<1>4. \A i \in D : f[i] = IF i = 0 THEN none ELSE MultiplyRow(x[i - 1], i - 1, y, yLen, f[i - 1])
  <2> SUFFICES ASSUME NEW i \in D, i # 0
               PROVE  f[i] = MultiplyRow(x[i - 1], i - 1, y, yLen, f[i - 1])
    BY <1>3
  <2>1. f[i - 1] \in T
    BY <1>1, <1>3
  <2>2. f[i] = step[i][f[i - 1]]
    <3> HIDE DEF D, T, step, none
    <3> QED BY <1>3
  <2> HIDE DEF T
  <2> QED BY <2>1, <2>2
<1>5. f = [i \in D |-> IF i = 0 THEN none ELSE MultiplyRow(x[i - 1], i - 1, y, yLen, f[i - 1])]
  <2> HIDE DEF D, T, none
  <2> QED BY <1>3, <1>4
<1>6. rows = [i \in D |-> IF i = 0 THEN none ELSE MultiplyRow(x[i - 1], i - 1, y, yLen, rows[i - 1])]
  <2> HIDE DEF D, T
  <2> QED BY <1>5, Zenon
<1>7. MultiplyWords(x, xLen, y, yLen) = rows[xLen]
  BY DEF MultiplyWords
<1> HIDE DEF rows
<1>8. /\ rows[0] = none
      /\ \A i \in 0 .. xLen - 1 : rows[i + 1] = MultiplyRow(x[i], i, y, yLen, rows[i])
  <2>1. rows[0] = none
    BY <1>6
  <2>2. ASSUME NEW i \in 0 .. xLen - 1
        PROVE  rows[i + 1] = MultiplyRow(x[i], i, y, yLen, rows[i])
    <3>1. i + 1 \in D /\ i + 1 # 0 /\ (i + 1) - 1 = i
      BY SMT
    <3> QED BY <1>6, <3>1
  <2> QED BY <2>1, <2>2
<1>9. rows \in [D -> T]
  <2>1. ASSUME NEW i \in D \ {0}, rows[i - 1] \in T
        PROVE  rows[i] \in T
    <3>1. rows[i] = MultiplyRow(x[i - 1], i - 1, y, yLen, rows[i - 1])
      BY <1>6
    <3> QED BY <1>1, <2>1, <3>1
  <2>2. rows = [i \in D |-> rows[i]]
    BY <1>6
  <2>3. IsCounted(rows, D, T)
    <3> HIDE DEF D, T, none
    <3> QED BY <1>0, <1>2, <1>8, <2>1, <2>2 DEF IsCounted, IsCount
  <2> HIDE DEF D, T
  <2> QED BY <2>3, IterationType
<1> QED BY <1>7, <1>8, <1>9

\* The schoolbook product is the product.
LEMMA ProductOfWords ==
  ASSUME NEW xLen \in Nat, NEW yLen \in Nat, xLen + yLen <= 2 * NumWords,
         NEW x \in Digits(xLen), NEW y \in Digits(yLen)
  PROVE  /\ MultiplyWords(x, xLen, y, yLen) \in Digits(xLen + yLen)
         /\ Value(MultiplyWords(x, xLen, y, yLen), xLen + yLen) = Value(x, xLen) * Value(y, yLen)
<1> DEFINE len == xLen + yLen
           vy == Value(y, yLen)
<1>1. PICK rows \in [0 .. xLen -> Digits(len)] :
        /\ rows[0] = [k \in Words(len) |-> 0]
        /\ \A i \in 0 .. xLen - 1 : rows[i + 1] = MultiplyRow(x[i], i, y, yLen, rows[i])
        /\ MultiplyWords(x, xLen, y, yLen) = rows[xLen]
  BY RowsHave
<1>2. len \in Nat /\ len <= 2 * NumWords /\ xLen <= 2 * NumWords /\ yLen <= 2 * NumWords
        /\ yLen \in 0 .. yLen /\ xLen \in 0 .. xLen
  BY WidthIs, SMT
<1> HIDE DEF len
<1>3. vy \in Int
  BY <1>2, DigitsAreIntegers, ValueNext
<1>4. /\ Value(x, 0) = 0
      /\ \A n \in 0 .. xLen - 1 : Value(x, n + 1) = Value(x, n) + x[n] * BaseTo(n)
      /\ \A n \in 0 .. xLen : Value(x, n) \in Int
  BY <1>2, DigitsAreIntegers, ValueNext
<1> DEFINE S == {n \in Nat : n <= xLen =>
                   /\ \A k \in n + yLen .. len - 1 : rows[n][k] = 0
                   /\ Value(rows[n], len) = Value(x, n) * vy}
<1> HIDE DEF vy
<1>5. 0 \in S
  <2>1. \A k \in 0 .. len - 1 : rows[0][k] = 0
    BY <1>1 DEF Words
  <2>2. \A k \in 0 + yLen .. len - 1 : rows[0][k] = 0
    BY <1>2, <2>1, SMT
  <2> DEFINE z == rows[0]
             Z == {n \in Nat : n <= len => Value(z, n) = 0}
  <2>3. \A k \in 0 .. len - 1 : z[k] \in Int
    BY <2>1, SMT
  <2>4. /\ Value(z, 0) = 0
        /\ \A n \in 0 .. len - 1 : Value(z, n + 1) = Value(z, n) + z[n] * BaseTo(n)
    <3> HIDE DEF z
    <3> QED BY <1>2, <2>3, ValueNext
  <2>5. ASSUME NEW n \in Nat, n \in Z
        PROVE  n + 1 \in Z
    <3> SUFFICES ASSUME n + 1 <= len
                 PROVE  Value(z, n + 1) = 0
      OBVIOUS
    <3>1. n \in 0 .. len - 1 /\ n <= len /\ n <= 2 * NumWords
      BY <1>2, WidthIs, SMT
    <3>2. BaseTo(n) \in Nat
      BY <3>1, PowersOfBase
    <3>3. 0 + 0 * BaseTo(n) = 0
      BY <3>2, SMT
    <3> QED BY <2>1, <2>4, <2>5, <3>1, <3>3
  <2>6. Nat \subseteq Z
    <3>1. 0 \in Z
      BY <2>4
    <3> HIDE DEF Z
    <3> QED BY <2>5, <3>1, SetInduction
  <2>7. Value(z, len) = 0
    <3>1. len <= len
      BY <1>2, SMT
    <3> QED BY <1>2, <2>6, <3>1
  <2>8. 0 * vy = 0
    BY <1>3, SMT
  <2> QED BY <1>4, <2>2, <2>7, <2>8
<1>6. ASSUME NEW n \in Nat, n \in S
      PROVE  n + 1 \in S
  <2> SUFFICES ASSUME n + 1 <= xLen
               PROVE  /\ \A k \in (n + 1) + yLen .. len - 1 : rows[n + 1][k] = 0
                      /\ Value(rows[n + 1], len) = Value(x, n + 1) * vy
    OBVIOUS
  <2>1. /\ n \in 0 .. xLen - 1 /\ n \in 0 .. xLen /\ n + 1 \in 0 .. xLen /\ n <= xLen
        /\ n + yLen < len /\ n + yLen \in n + yLen .. len - 1 /\ n <= 2 * NumWords
    BY <1>2, WidthIs, SMT DEF len
  <2> DEFINE z == rows[n]
             xi == x[n]
             r == MultiplyRow(xi, n, y, yLen, z)
  <2>2. /\ z \in Digits(len) /\ rows[n + 1] = r /\ xi \in 0 .. Base - 1
        /\ (\A k \in n + yLen .. len - 1 : z[k] = 0) /\ Value(z, len) = Value(x, n) * vy
    BY <1>1, <1>6, <2>1 DEF Digits, Words
  <2>3. z[n + yLen] = 0
    BY <2>1, <2>2
  <2> HIDE DEF z, xi
  <2>4. PICK high : IsRow(r, high, xi, n, y, yLen, z, len)
    BY <1>2, <2>1, <2>2, RowHas
  <2> HIDE DEF r
  <2>5. \A k \in 0 .. len - 1 : k \notin n .. n + yLen => r[k] = z[k]
    BY <1>2, <2>1, <2>2, <2>4, RowWords
  <2>6. Value(r, len) = Value(z, len) + xi * (BaseTo(n) * vy)
    BY <1>2, <2>1, <2>2, <2>3, <2>4, RowIs DEF vy
  <2>7. \A k \in (n + 1) + yLen .. len - 1 : r[k] = 0
    <3> SUFFICES ASSUME NEW k \in (n + 1) + yLen .. len - 1
                 PROVE  r[k] = 0
      OBVIOUS
    <3>1. k \in 0 .. len - 1 /\ k \notin n .. n + yLen /\ k \in n + yLen .. len - 1
      BY <1>2, SMT
    <3> QED BY <2>2, <2>5, <3>1
  <2>8. Value(x, n) * vy + xi * (BaseTo(n) * vy) = Value(x, n + 1) * vy
    <3> DEFINE value == Value(x, n)
               p == BaseTo(n)
    <3>1. value \in Int /\ p \in Nat /\ xi \in Int /\ Value(x, n + 1) = value + xi * p
      <4>1. xi \in Int
        BY <2>2, SMT
      <4> QED BY <1>4, <2>1, <4>1, PowersOfBase DEF xi
    <3> HIDE DEF value, p
    <3>2. value * vy + xi * (p * vy) = (value + xi * p) * vy
      BY <1>3, <3>1, SMT
    <3> QED BY <3>1, <3>2 DEF value, p
  <2> QED BY <2>2, <2>6, <2>7, <2>8
<1>7. Nat \subseteq S
  <2> HIDE DEF S
  <2> QED BY <1>5, <1>6, SetInduction
<1>8. Value(rows[xLen], len) = Value(x, xLen) * vy
  <2>1. xLen <= xLen
    BY <1>2, SMT
  <2> QED BY <1>7, <2>1
<1> QED BY <1>1, <1>2, <1>8 DEF len, vy

LEMMA OperationsOnWords ==
  ASSUME NEW a \in Numbers, NEW b \in Numbers
  PROVE  LET L == NumWords
             x == ToWords(a, L)
             y == ToWords(b, L)
         IN  /\ Value(AddWords(x, y, L).words, L) + M * AddWords(x, y, L).carry = a + b
             /\ Value(SubWords(x, y, L).words, L) = a - b + M * SubWords(x, y, L).carry
             /\ Value(MultiplyWords(x, L, y, L), 2 * L) = a * b
             /\ GreaterThanEqualTo(x, y, L) = (a >= b) /\ LessThanEqualTo(x, y, L) = (a <= b)
<1> DEFINE L == NumWords
           x == ToWords(a, L)
           y == ToWords(b, L)
           s == AddWords(x, y, L)
           d == SubWords(x, y, L)
<1>1. /\ x \in Digits(L) /\ Value(x, L) = a /\ y \in Digits(L) /\ Value(y, L) = b
      /\ L \in Nat /\ L <= 2 * NumWords /\ M = BaseTo(L) /\ M \in Nat /\ L \in 0 .. L
      /\ a \in Int /\ b \in Int /\ L + L = 2 * L /\ L + L <= 2 * NumWords
  BY NumbersAreWords, NumberIs, WidthIs, SMT
<1>2. /\ GreaterThanEqualTo(x, y, L) = (a >= b) /\ LessThanEqualTo(x, y, L) = (a <= b)
  BY CompareIs
<1> HIDE DEF x, y, L
<1>3. /\ s.words \in Digits(L) /\ s.carry \in 0 .. 1 /\ d.words \in Digits(L) /\ d.carry \in 0 .. 1
      /\ Value(s.words, L) + s.carry * BaseTo(L) = Value(x, L) + Value(y, L)
      /\ Value(d.words, L) - d.carry * BaseTo(L) = Value(x, L) - Value(y, L)
  BY <1>1, SumOfWords, DifferenceOfWords
<1>4. Value(MultiplyWords(x, L, y, L), 2 * L) = a * b
  <2>1. Value(MultiplyWords(x, L, y, L), L + L) = Value(x, L) * Value(y, L)
    BY <1>1, ProductOfWords
  <2> QED BY <1>1, <2>1
<1> HIDE DEF s, d
<1>5. Value(s.words, L) \in Nat /\ Value(d.words, L) \in Nat
  BY <1>1, <1>3, ValueBelow
<1> DEFINE vs == Value(s.words, L)
           vd == Value(d.words, L)
           cs == s.carry
           cd == d.carry
<1>6. vs \in Int /\ vd \in Int /\ cs \in Int /\ cd \in Int /\ vs + cs * M = a + b /\ vd - cd * M = a - b
  BY <1>1, <1>3, <1>5, SMT
<1> HIDE DEF vs, vd, cs, cd
<1>7. vs + M * cs = a + b /\ vd = a - b + M * cd
  <2>1. cs * M = M * cs /\ cd * M = M * cd /\ cd * M \in Int
    BY <1>1, <1>6, SMT
  <2> DEFINE e == cd * M
  <2>2. e \in Int /\ vd - e = a - b /\ M * cd = e
    BY <1>6, <2>1
  <2> HIDE DEF e
  <2>3. vd = a - b + e
    BY <1>1, <1>6, <2>2, SMT
  <2> QED BY <1>6, <2>1, <2>2, <2>3
<1> QED BY <1>2, <1>4, <1>7 DEF x, y, L, s, d, vs, vd, cs, cd

-----------------------------------------------------------------------------
(* Modulo P and N *)

LEMMA AddModExact ==
  ASSUME NEW m \in Numbers, 0 < m, M < 2 * m, NEW a \in 0 .. m, NEW b \in 0 .. m,
         a + b < 2 * m
  PROVE  AddMod(a, b, m) \in 0 .. m - 1 /\ AddMod(a, b, m) = (a + b) % m
<1>1. /\ M \in Nat \ {0} /\ m \in Nat \ {0} /\ m < M
      /\ a \in Int /\ b \in Int /\ 0 <= a /\ 0 <= b
  BY ModulusAssumption, SMT DEF Numbers
<1>2. /\ a + b < m  => (a + b) % m = a + b
      /\ a + b >= m => (a + b) % m = a + b - m
  BY <1>1, CarryOfSum, SMT
<1>3. /\ a + b < M  => (a + b) % M = a + b
      /\ a + b >= M => (a + b) % M = a + b - M
  <2>1. a + b \in 0 .. 2 * M - 1 /\ M \in Nat \ {0} /\ a \in Int /\ b \in Int
    BY <1>1, SMT
  <2> QED BY <2>1, CarryOfSum, Zenon
<1>4. CASE a + b < m
  <2>1. AddMod(a, b, m) = a + b
    BY <1>1, <1>3, <1>4, SMT DEF AddMod
  <2> QED BY <2>1, <1>1, <1>2, <1>4, SMT
<1>5. CASE a + b >= m /\ a + b < M
  <2>1. a + b - m \in 0 .. M - 1 /\ m \in 0 .. M - 1 /\ a + b \in 0 .. M - 1
    BY <1>1, <1>5, SMT
  <2>2. ((a + b) - m) % M = a + b - m
    BY <1>1, <1>5, <2>1, BorrowOf, SMT DEF Borrow
  <2>3. AddMod(a, b, m) = a + b - m
    BY <1>1, <1>3, <1>5, <2>2, SMT DEF AddMod
  <2> QED BY <2>3, <1>1, <1>2, <1>5, SMT
<1>6. CASE a + b >= M
  <2> DEFINE y == a + b - M
  <2>1. y \in 0 .. M - 1 /\ m \in 0 .. M - 1 /\ y < m
    BY <1>1, <1>6, SMT
  <2>2. (y - m) % M = y - m + M
    BY <1>1, <2>1, BorrowOf, SMT DEF Borrow
  <2>3. AddMod(a, b, m) = a + b - m
    BY <1>1, <1>3, <1>6, <2>2, SMT DEF AddMod
  <2> QED BY <2>3, <1>1, <1>2, <1>6, SMT
<1> QED BY <1>1, <1>4, <1>5, <1>6, SMT

LEMMA SubModExact ==
  ASSUME NEW m \in Numbers, 0 < m, NEW a \in 0 .. m, NEW b \in 0 .. m - 1, a - b < m
  PROVE  SubMod(a, b, m) = (a - b) % m
<1>1. /\ M \in Nat \ {0} /\ m \in Nat \ {0} /\ m < M
      /\ a \in Int /\ b \in Int /\ 0 <= a /\ 0 <= b /\ b < m
  BY ModulusAssumption, SMT DEF Numbers
<1>2. CASE a < b
  <2>1. a \in 0 .. M - 1 /\ b \in 0 .. M - 1
    BY <1>1, SMT
  <2>2. (a - b) % M = a - b + M
    BY <1>1, <1>2, <2>1, BorrowOf, SMT DEF Borrow
  <2>3. a \in 0 .. m - 1 /\ b \in 0 .. m - 1
    BY <1>1, <1>2, SMT
  <2>4. (a - b) % m = a - b + m
    BY <1>1, <1>2, <2>3, BorrowOf, SMT DEF Borrow
  <2> DEFINE y == a - b + M
  <2>5. y \in Int /\ y + m \in 0 .. 2 * M - 1 /\ y + m >= M
    BY <1>1, <1>2, SMT
  <2>6. (y + m) % M = y + m - M
    <3>1. M \in Nat \ {0} /\ m \in Int
      BY <1>1, SMT
    <3> HIDE DEF y
    <3> QED BY <2>5, <3>1, CarryOfSum, Zenon
  <2> QED BY <1>1, <1>2, <2>2, <2>4, <2>6, SMT DEF SubMod
<1>3. CASE a >= b
  <2>1. (a - b) % m = a - b
    <3>1. a - b \in 0 .. m - 1 /\ a - b \in Int /\ a - b = 0 * m + (a - b)
      BY <1>1, <1>3, SMT
    <3> QED BY <1>1, <3>1, RemainderOf
  <2> QED BY <1>1, <1>3, <2>1, SMT DEF SubMod
<1> QED BY <1>1, <1>2, <1>3, SMT

\* What the theorems use of the assumptions.
LEMMA FieldConstants ==
  /\ M \in Nat \ {0} /\ P \in Nat \ {0} /\ N \in Nat \ {0}
  /\ 1 < P /\ P < M /\ M < 2 * P /\ 1 < N /\ N < M /\ M < 2 * N
  /\ Base + C \in Nat /\ P = M - (Base + C) /\ Base + C < Base * Base
  /\ (Base + C) * (Base + C + 2) <= M
<1> DEFINE r == Base + C
<1>1. r \in Nat /\ 2 <= r /\ r < 2 * Base
  BY FoldAssumption, PrimeFormAssumption, SMT
<1>2. r < Base * Base
  BY <1>1, FoldAssumption, SMT
<1>4. r * (r + 2) <= M /\ P = M - r
  BY FoldAssumption, PrimeFormAssumption
<1> HIDE DEF r
<1>3. 2 * r < M
  <2>1. r * (r + 2) = r * r + r * 2 /\ 2 * r <= r * r
    BY <1>1, SumOfProducts, ProductsGrow, SMT
  <2> QED BY <1>1, <1>4, <2>1, ModulusAssumption, SMT
<1>5. M < 2 * P
  BY <1>1, <1>3, <1>4, ModulusAssumption, SMT
<1> QED BY <1>1, <1>2, <1>4, <1>5, ModulusAssumption, OrderAssumption, SMT DEF r

\* The product of two reduced numbers: its high words times 2^32 + 977 are
\* added to its low words, twice; nothing is cut off, and one subtraction
\* is enough.
LEMMA FoldTwice ==
  ASSUME NEW x \in Int, 0 <= x, x < M * M
  PROVE  LET r     == Base + C
             total == (x % M) + r * (x \div M)
             low   == (total % M) + r * (total \div M)
         IN  /\ total \in Nat /\ r * (x \div M) \in Nat
             /\ r * (x \div M) < M * Base * Base /\ total < M * Base * Base
             /\ r * (total \div M) \in Nat /\ r * (total \div M) < M
             /\ low \in Nat /\ low < 2 * P
             /\ \E q \in Int : x = q * P + low
<1> DEFINE r     == Base + C
           h     == x \div M
           l     == x % M
           total == l + r * h
           g     == total \div M
           s     == total % M
           low   == s + r * g
<1>1. /\ M \in Nat \ {0} /\ P \in Nat \ {0} /\ P = M - r /\ r \in Nat
      /\ r * (r + 2) <= M /\ Base \in Nat /\ 1 < Base /\ r < 2 * Base /\ 2 * Base <= Base * Base
  BY FieldConstants, FoldAssumption, PrimeFormAssumption, SMT
<1> HIDE DEF r
<1>2. x = M * h + l /\ l \in 0 .. M - 1 /\ h \in Int
  BY <1>1, SMT
<1> HIDE DEF h, l
<1>3. 0 <= h /\ h < M
  BY <1>1, <1>2, SMT
<1>4. 0 <= r * h /\ r * h <= r * (M - 1) /\ r * h \in Nat
  <2>1. h \in Nat /\ M - 1 \in Nat /\ h <= M - 1 /\ r \in Nat
    BY <1>1, <1>2, <1>3, SMT
  <2>2. r * h <= r * (M - 1) /\ r * h \in Nat
    BY <2>1, ProductsGrow, Zenon
  <2> QED BY <2>2, SMT
<1>5. total \in Nat /\ total <= (r + 1) * (M - 1)
  BY <1>1, <1>2, <1>4, SMT
<1>6. total = M * g + s /\ s \in 0 .. M - 1 /\ g \in Int
  BY <1>1, <1>5, SMT
<1>7. (r + 1) * (M - 1) < (r + 1) * M /\ (r + 1) * M <= M * (Base * Base)
  <2>1. r + 1 <= Base * Base
    BY <1>1, SMT
  <2> DEFINE b == Base * Base
  <2>2. b \in Nat
    BY <1>1, SMT
  <2> HIDE DEF b
  <2> QED BY <1>1, <2>1, <2>2, SMT DEF b
<1>8. total < M * Base * Base /\ r * h < M * Base * Base
  <2>1. M * Base * Base = M * (Base * Base)
    BY <1>1, SMT
  <2>2. r * h <= total
    BY <1>1, <1>2, <1>3, <1>4, SMT
  <2> DEFINE b == M * (Base * Base)
             c == (r + 1) * (M - 1)
             p == r * h
  <2>3. b \in Int /\ c \in Int /\ c < b /\ p \in Int /\ p <= total /\ total <= c /\ total \in Int
    BY <1>1, <1>4, <1>5, <1>7, <2>2, SMT
  <2>4. total < b /\ p < b
    <3> HIDE DEF b, c, p, total
    <3> QED BY <2>3, SMT
  <2> QED BY <2>1, <2>4
<1> HIDE DEF total, g, s
<1>9. 0 <= g /\ g <= r
  BY <1>1, <1>5, <1>6, <1>7, SMT
<1>10. 0 <= r * g /\ r * g <= r * r /\ r * g \in Nat /\ r * r \in Nat
  <2>1. g \in Nat /\ r \in Nat
    BY <1>1, <1>6, <1>9, SMT
  <2>2. r * g <= r * r /\ r * g \in Nat
    BY <1>9, <2>1, ProductsGrow, Zenon
  <2>3. r * r \in Nat
    BY <2>1, ProductsGrow, SMT
  <2> QED BY <2>2, <2>3, SMT
<1>11. r * r + 2 * r <= M
  <2>1. r * (r + 2) = r * r + r * 2
    BY <1>1, SumOfProducts, SMT
  <2> QED BY <1>1, <2>1, SMT
<1>12. r * g < M
  <2> DEFINE p == r * g
             c == r * r
  <2>1. p \in Nat /\ c \in Nat /\ p <= c /\ c + 2 * r <= M /\ r \in Nat /\ M \in Nat \ {0}
    BY <1>1, <1>10, <1>11
  <2> HIDE DEF p, c
  <2>2. p < M \/ (r = 0 /\ p = M)
    BY <2>1, SMT
  <2> QED BY <2>1, <2>2, <1>10, <1>1, SMT DEF p, c
<1>13. low \in Nat /\ low < 2 * P
  BY <1>1, <1>6, <1>9, <1>10, <1>11, SMT
<1>14. M = P + r /\ P \in Int /\ r \in Int
  BY <1>1, SMT
<1>15. M * h = P * h + r * h /\ M * g = P * g + r * g
  BY <1>2, <1>6, <1>14, SumOfProducts, SMT
<1>16. x = (P * h + P * g) + low
  BY <1>1, <1>2, <1>6, <1>9, <1>10, <1>4, <1>15, SMT DEF total
<1>17. P * h + P * g = (h + g) * P
  BY <1>2, <1>6, <1>14, SMT
<1>18. \E q \in Int : x = q * P + low
  <2>1. x = (h + g) * P + low /\ h + g \in Int
    BY <1>16, <1>17, <1>2, <1>6
  <2> QED BY <2>1, Zenon
<1>19. r * h \in Nat /\ r * g \in Nat
  BY <1>1, <1>2, <1>4, <1>6, <1>10, SMT
<1> QED BY <1>5, <1>8, <1>12, <1>13, <1>18, <1>19 DEF r, h, l, total, g, s

\* One subtraction of m brings a number below 2 * m to its remainder.
LEMMA OneSubtraction ==
  ASSUME NEW m \in Nat \ {0}, NEW x \in Int, NEW q \in Int, NEW y \in Nat,
         y < 2 * m, x = q * m + y
  PROVE  x % m = IF y >= m THEN y - m ELSE y
<1>1. CASE y < m
  <2>1. y \in 0 .. m - 1
    BY <1>1, SMT
  <2>2. x % m = y
    BY <2>1, RemainderOf
  <2> QED BY <1>1, <2>2, SMT
<1>2. CASE y >= m
  <2>1. y - m \in 0 .. m - 1 /\ q + 1 \in Int /\ (q + 1) * m = q * m + m
    BY <1>2, SMT
  <2>2. x = (q + 1) * m + (y - m)
    BY <2>1, SMT
  <2>3. x % m = y - m
    BY <2>1, <2>2, RemainderOf
  <2> QED BY <1>2, <2>3, SMT
<1> QED BY <1>1, <1>2, SMT

\* Folding does not cut anything off a number below M * Base * Base.
LEMMA SmallRemainder ==
  ASSUME NEW m \in Nat \ {0}, NEW a \in Nat, a < m
  PROVE  a % m = a
<1>1. a \in 0 .. m - 1 /\ a = 0 * m + a
  BY SMT
<1> QED BY <1>1, RemainderOf

LEMMA ProductBelow ==
  ASSUME NEW m \in Nat, NEW a \in Nat, NEW b \in Nat, a < m, b < m
  PROVE  a * b \in Nat /\ a * b < m * m /\ a * b <= (m - 1) * (m - 1)
<1>1. a * b \in Nat /\ a * b <= (m - 1) * b /\ (m - 1) * b <= (m - 1) * (m - 1)
  <2>1. m - 1 \in Nat /\ a <= m - 1 /\ b <= m - 1
    BY SMT
  <2> QED BY <2>1, ProductsGrow, SMT
<1>2. (m - 1) * (m - 1) < m * m
  <2>1. (m - 1) * (m - 1) = m * m - 2 * m + 1 /\ m >= 1
    BY SMT
  <2> QED BY <2>1, SMT
<1> DEFINE c == a * b
           square == (m - 1) * (m - 1)
           e == m * m
           f == (m - 1) * b
<1>3. c \in Nat /\ square \in Int /\ e \in Int /\ f \in Int /\ c <= f /\ f <= square /\ square < e
  BY <1>1, <1>2, SMT
<1>4. c \in Nat /\ c < e /\ c <= square
  <2> HIDE DEF c, square, e, f
  <2> QED BY <1>3, SMT
<1> QED BY <1>4

\* Reduced or not, two numbers of full width are multiplied modulo P.
LEMMA MultiplyModPExact ==
  ASSUME NEW a \in Numbers, NEW b \in Numbers
  PROVE  MultiplyModP(a, b) = (a * b) % P
<1> DEFINE x     == a * b
           r     == Base + C
           h     == x \div M
           l     == x % M
           total == l + r * h
           g     == total \div M
           s     == total % M
           low   == s + r * g
           cut   == M * Base * Base
<1>1. /\ M \in Nat \ {0} /\ P \in Nat \ {0} /\ P < M /\ M < 2 * P
      /\ r \in Nat /\ Base \in Nat /\ C \in Nat /\ 1 < Base
  BY FieldConstants, FoldAssumption, PrimeFormAssumption, SMT
<1>2. a \in Nat /\ b \in Nat /\ a < M /\ b < M
  BY NumberIs
<1>3. x \in Int /\ 0 <= x /\ x < M * M
  BY <1>1, <1>2, ProductBelow, SMT
<1>4. /\ total \in Nat /\ r * h \in Nat /\ r * h < cut /\ total < cut
      /\ r * g \in Nat /\ r * g < M /\ low \in Nat /\ low < 2 * P
      /\ \E q \in Int : x = q * P + low
  BY <1>3, FoldTwice
<1>5. cut \in Nat \ {0}
  <2>1. M * Base \in Nat /\ M * Base > 0
    BY <1>1, SMT
  <2> QED BY <1>1, <2>1, SMT
<1>6. h \in Int /\ g \in Int /\ l \in Int /\ s \in Int
  <2> HIDE DEF x
  <2> QED BY <1>1, <1>3, <1>4, SMT
<1>7. Fold(h) = r * h
  <2>1. C * h + Base * h = r * h
    BY <1>1, <1>6, SMT
  <2>2. (r * h) % cut = r * h
    BY <1>4, <1>5, SmallRemainder
  <2> QED BY <2>1, <2>2 DEF Fold
<1>8. Fold(g) = r * g
  <2>1. C * g + Base * g = r * g
    BY <1>1, <1>6, SMT
  <2>2. r * g < cut
    <3>1. Base * Base \in Nat /\ 1 < Base * Base /\ cut = M * (Base * Base)
      BY <1>1, SMT
    <3>2. M <= cut
      <4> DEFINE bb == Base * Base
      <4>1. bb \in Nat /\ 1 <= bb
        BY <3>1, SMT
      <4> HIDE DEF bb
      <4>2. M * 1 <= M * bb
        BY <1>1, <4>1, ProductsGrow, SMT
      <4> QED BY <3>1, <4>2, <1>1, SMT DEF bb
    <3> DEFINE rg == r * g
    <3>3. rg \in Nat /\ rg < M /\ M \in Nat /\ cut \in Nat
      BY <1>1, <1>4, <1>5
    <3>4. rg < cut
      <4> HIDE DEF rg, cut
      <4> QED BY <3>2, <3>3, SMT
    <3> QED BY <3>4
  <2>3. (r * g) % cut = r * g
    BY <1>4, <1>5, <2>2, SmallRemainder
  <2> QED BY <2>1, <2>3 DEF Fold
<1>9. (l + Fold(h)) % cut = total
  BY <1>4, <1>5, <1>7, SmallRemainder
<1>10. Fold(g) % M = r * g
  BY <1>1, <1>4, <1>8, SmallRemainder
<1>11. MultiplyModP(a, b) =
         IF low >= M \/ low % M >= P THEN ((low % M) - P) % M ELSE low % M
  BY <1>9, <1>10 DEF MultiplyModP
<1>12. (IF low >= M \/ low % M >= P THEN ((low % M) - P) % M ELSE low % M)
         = IF low >= P THEN low - P ELSE low
  <2> HIDE DEF low
  <2> DEFINE y == low % M
  <2>1. /\ low < M => y = low
        /\ low >= M => y = low - M
    <3>1. M \in Nat \ {0} /\ low \in 0 .. 2 * M - 1
      BY <1>1, <1>4, SMT
    <3> QED BY <3>1, CarryOf, Zenon
  <2>2. y \in 0 .. M - 1 /\ P \in 0 .. M - 1
    BY <1>1, <1>4, SMT
  <2>3. (y - P) % M = y - P + Borrow(y, P) * M
    <3> HIDE DEF y
    <3> QED BY <1>1, <2>2, BorrowOf
  <2> HIDE DEF y
  <2>4. /\ low \in Nat /\ low < 2 * P /\ P \in Nat /\ P < M /\ M < 2 * P /\ M \in Nat
        /\ y \in Nat /\ y < M
    BY <1>1, <1>4, <2>2, SMT
  <2>5. CASE low < P
    <3>1. low < M /\ ~(low >= M) /\ ~(low >= P)
      BY <2>4, <2>5, SMT
    <3> QED BY <2>1, <3>1 DEF y
  <2>6. CASE P <= low /\ low < M
    <3>1. ~(low < P) /\ low >= P /\ y = low
      BY <2>1, <2>4, <2>6, SMT
    <3>2. (y - P) % M = low - P
      BY <2>3, <2>4, <3>1, SMT DEF Borrow
    <3> QED BY <3>1, <3>2 DEF y
  <2>7. CASE low >= M
    <3>1. low >= P /\ y = low - M /\ y < P
      BY <2>1, <2>4, <2>7, SMT
    <3>2. (y - P) % M = low - P
      BY <2>3, <2>4, <3>1, SMT DEF Borrow
    <3> QED BY <2>7, <3>1, <3>2 DEF y
  <2> QED BY <2>4, <2>5, <2>6, <2>7, SMT
<1>13. x % P = IF low >= P THEN low - P ELSE low
  <2> HIDE DEF low, x
  <2> QED BY <1>1, <1>3, <1>4, OneSubtraction
<1> QED BY <1>11, <1>12, <1>13

\* Barrett's quotient is the quotient or one less.
LEMMA ReduceModNExact ==
  ASSUME NEW x \in Nat, x <= (N - 1) * (N - 1)
  PROVE  ReduceModN(x) = x % N
<1> DEFINE mm       == M * M
           t        == BarrettN * x
           quotient == t \div mm
           y        == x - quotient * N
<1>1. /\ M \in Nat \ {0} /\ N \in Nat \ {0} /\ 1 < N /\ N < M /\ M < 2 * N
  BY FieldConstants
<1>2. mm \in Nat \ {0} /\ (N - 1) * (N - 1) < mm
  <2>1. N - 1 \in Nat /\ N - 1 < M
    BY <1>1, SMT
  <2> QED BY <1>1, <2>1, ProductBelow, SMT
<1>3. x < mm
  <2> DEFINE c == (N - 1) * (N - 1)
  <2>1. c \in Int
    BY <1>1, SMT
  <2> HIDE DEF mm, c
  <2> QED BY <1>2, <2>1, SMT DEF c
<1>4. mm = N * BarrettN + (mm % N) /\ mm % N \in 0 .. N - 1 /\ BarrettN \in Int
  <2>1. BarrettN = mm \div N
    BY DEF BarrettN
  <2> HIDE DEF mm
  <2> QED BY <1>1, <1>2, <2>1, SMT
<1> HIDE DEF mm
<1>5. BarrettN \in Nat
  BY <1>1, <1>2, <1>4, SMT
<1>6. t \in Nat /\ N * t = mm * x - (mm % N) * x
  <2> DEFINE e == mm % N
  <2>1. e \in Nat
    BY <1>1, <1>4, SMT
  <2>2. mm - e = N * BarrettN
    BY <1>1, <1>2, <1>4, <2>1, SMT
  <2> HIDE DEF e
  <2>3. (mm - e) * x = mm * x - e * x
    BY <1>2, <2>1, SMT
  <2>4. N * t = (N * BarrettN) * x /\ t \in Nat
    BY <1>1, <1>5, SMT
  <2> QED BY <2>2, <2>3, <2>4 DEF e
<1> HIDE DEF t
<1>7. t = mm * quotient + (t % mm) /\ t % mm \in 0 .. mm - 1 /\ quotient \in Nat
  BY <1>2, <1>6, SMT
<1> HIDE DEF quotient
\* What the two divisions cut off, at most one N each.
<1>8. mm * y = (mm % N) * x + N * (t % mm)
  <2> DEFINE e == mm % N
             f == t % mm
  <2>1. e \in Nat /\ f \in Nat
    BY <1>1, <1>4, <1>7, <1>2, SMT
  <2>2. N * t = mm * x - e * x
    BY <1>6
  <2>3. t = mm * quotient + f
    BY <1>7
  <2> HIDE DEF e, f
  <2>4. N * t = mm * (quotient * N) + N * f
    BY <2>1, <2>3, <1>1, <1>2, <1>7, SMT
  <2>5. mm * y = mm * x - mm * (quotient * N)
    BY <1>1, <1>2, <1>7, SMT
  <2>6. mm * y = e * x + N * f
    <3> DEFINE p == mm * x
               o == mm * (quotient * N)
               z == mm * y
               ex == e * x
               nf == N * f
               nt == N * t
    <3>1. p \in Int /\ o \in Int /\ z \in Int /\ ex \in Int /\ nf \in Int /\ nt \in Int
      BY <2>1, <1>1, <1>2, <1>6, <1>7, SMT
    <3>2. nt = p - ex /\ nt = o + nf /\ z = p - o
      BY <2>2, <2>4, <2>5
    <3>3. z = ex + nf
      <4> HIDE DEF p, o, z, ex, nf, nt
      <4> QED BY <3>1, <3>2, SMT
    <3> QED BY <3>3
  <2> QED BY <2>6 DEF e, f
<1>9. y \in Int /\ 0 <= y /\ y < 2 * N
  <2> DEFINE e == mm % N
             f == t % mm
  <2>1. e \in Nat /\ f \in Nat /\ e < N /\ f < mm
    BY <1>1, <1>4, <1>7, <1>2, SMT
  <2>2. mm * y = e * x + N * f
    BY <1>8
  <2> HIDE DEF e, f
  <2>3. y \in Int
    BY <1>1, <1>7, SMT
  <2>4. e * x \in Nat /\ e * x <= N * mm /\ N * f \in Nat /\ N * f < N * mm
    <3>1. e * x \in Nat /\ e * x <= N * x /\ N * x <= N * mm /\ N * x \in Nat
      BY <1>1, <1>2, <1>3, <2>1, ProductsGrow, SMT
    <3>2. N * f \in Nat /\ N * (f + 1) <= N * mm /\ N * (f + 1) = N * f + N
      BY <1>1, <1>2, <2>1, ProductsGrow, SMT
    <3>3. N * mm \in Nat
      BY <1>1, <1>2, SMT
    <3> DEFINE a == e * x
               b == N * x
               c == N * mm
               g == N * f
    <3>4. a \in Nat /\ b \in Nat /\ c \in Nat /\ g \in Nat /\ a <= b /\ b <= c /\ g + N <= c
      BY <3>1, <3>2, <3>3
    <3>5. a <= c /\ g < c
      <4> HIDE DEF a, b, c, g
      <4> QED BY <1>1, <3>4, SMT
    <3> QED BY <3>4, <3>5
  <2>5. y >= 0
    <3> SUFFICES ASSUME y <= -1 PROVE FALSE
      BY <2>3, SMT
    <3> DEFINE z == mm * y
    <3> HIDE DEF y
    <3>1. mm * (-y) >= mm
      BY <1>2, <2>3, ProductsGrow, SMT
    <3>2. mm * (-y) = - z /\ z \in Int
      BY <1>2, <2>3, SMT
    <3>3. z >= 0
      BY <2>2, <2>4, SMT
    <3> HIDE DEF z
    <3> QED BY <1>2, <3>1, <3>2, <3>3, SMT
  <2>6. y < 2 * N
    <3> SUFFICES ASSUME y >= 2 * N PROVE FALSE
      BY <2>3, <1>1, SMT
    <3> DEFINE z == mm * y
               c == N * mm
               a == e * x
               g == N * f
    <3> HIDE DEF y
    <3>1. mm * (2 * N) <= mm * y /\ y \in Nat /\ 2 * N \in Nat
      BY <1>1, <1>2, <2>3, <2>5, ProductsGrow, SMT
    <3>2. mm * (2 * N) = 2 * c /\ c \in Nat
      BY <1>1, <1>2, SMT
    <3>3. z = a + g /\ a \in Nat /\ g \in Nat /\ a <= c /\ g < c /\ 2 * c <= z
      BY <2>2, <2>4, <3>1, <3>2
    <3> HIDE DEF z, c, a, g
    <3> QED BY <3>2, <3>3, SMT
  <2> QED BY <2>3, <2>5, <2>6
\* The quotient fits its words.
<1>10. quotient < M
  <2> SUFFICES ASSUME quotient >= M PROVE FALSE
    BY <1>1, <1>7, SMT
  <2>1. M * N <= quotient * N
    BY <1>1, <1>7, ProductsGrow, SMT
  <2>2. N * N <= M * N
    BY <1>1, ProductsGrow, SMT
  <2>3. (N - 1) * (N - 1) < N * N
    BY <1>1, SMT
  <2> DEFINE a == quotient * N
             b == M * N
             c == N * N
             square == (N - 1) * (N - 1)
  <2>4. a \in Int /\ b \in Int /\ c \in Int /\ square \in Int
    BY <1>1, <1>7, SMT
  <2>5. x - a >= 0 /\ b <= a /\ c <= b /\ square < c /\ x <= square
    BY <1>9, <2>1, <2>2, <2>3
  <2> HIDE DEF a, b, c, square
  <2> QED BY <2>4, <2>5, SMT
<1>11. ((BarrettN * x) \div (M * M)) % M = quotient
  BY <1>1, <1>7, <1>10, SmallRemainder DEF quotient, t, mm
<1>12. (x - quotient * N) % (M * M) = y
  <2>1. y < mm
    <3>1. 2 * M <= M * M
      BY <1>1, SMT
    <3> QED BY <1>1, <1>2, <1>9, <3>1, SMT DEF mm
  <2>2. y \in Nat
    BY <1>9, SMT
  <2> HIDE DEF y
  <2>3. y % mm = y
    BY <1>2, <2>1, <2>2, SmallRemainder
  <2> QED BY <2>3 DEF y, mm
<1>13. ReduceModN(x) = IF (y \div M) % 2 = 1 \/ y % M >= N THEN ((y % M) - N) % M ELSE y % M
  BY <1>11, <1>12 DEF ReduceModN
<1>14. x = quotient * N + y
  BY <1>1, <1>7, SMT
<1> HIDE DEF y
<1>15. x % N = IF y >= N THEN y - N ELSE y
  <2>1. y \in Nat /\ quotient \in Int /\ x \in Int
    BY <1>7, <1>9, SMT
  <2> QED BY <1>1, <1>9, <1>14, <2>1, OneSubtraction
<1>16. /\ y < M => y % M = y /\ y \div M = 0
       /\ y >= M => y % M = y - M /\ y \div M = 1
  <2>1. M \in Nat \ {0} /\ y \in 0 .. 2 * M - 1
    BY <1>1, <1>9, SMT
  <2> QED BY <2>1, CarryOf, Zenon
<1> DEFINE w == y % M
<1>17. w \in 0 .. M - 1 /\ N \in 0 .. M - 1
  BY <1>1, <1>9, SMT
<1>18. (w - N) % M = w - N + Borrow(w, N) * M
  <2> HIDE DEF w
  <2> QED BY <1>1, <1>17, BorrowOf
<1>19. CASE y < M
  BY <1>1, <1>9, <1>13, <1>15, <1>16, <1>17, <1>18, <1>19, SMT DEF Borrow
<1>20. CASE y >= M
  <2>1. w = y - M /\ (y \div M) % 2 = 1 /\ w < N
    BY <1>1, <1>9, <1>16, <1>20, SMT
  <2>2. (w - N) % M = y - N
    BY <1>1, <1>9, <1>18, <2>1, <1>17, SMT DEF Borrow
  <2>3. y >= N
    BY <1>1, <1>9, <1>20, SMT
  <2> QED BY <1>13, <1>15, <2>1, <2>2, <2>3
<1> QED BY <1>1, <1>9, <1>19, <1>20, SMT

LEMMA MultiplyModNExact ==
  ASSUME NEW a \in 0 .. N - 1, NEW b \in 0 .. N - 1
  PROVE  MultiplyModN(a, b) = (a * b) % N
<1> DEFINE x == a * b
<1>1. /\ M \in Nat \ {0} /\ N \in Nat \ {0} /\ 1 < N /\ N < M /\ M < 2 * N
      /\ a \in Nat /\ b \in Nat /\ a < N /\ b < N
  BY FieldConstants, SMT
<1>2. x \in Nat /\ x <= (N - 1) * (N - 1)
  BY <1>1, ProductBelow
<1>3. CASE x >= M
  BY <1>2, <1>3, ReduceModNExact DEF MultiplyModN
<1>4. CASE x < M
  <2>1. x = 0 * N + x /\ x < 2 * N
    <3> HIDE DEF x
    <3> QED BY <1>1, <1>2, <1>4, SMT
  <2>2. x % N = IF x >= N THEN x - N ELSE x
    <3> HIDE DEF x
    <3> QED BY <1>1, <1>2, <2>1, OneSubtraction
  <2>3. ~(x >= M)
    <3> HIDE DEF x
    <3> QED BY <1>1, <1>2, <1>4, SMT
  <2> QED BY <2>2, <2>3 DEF MultiplyModN
<1> QED
  <2> HIDE DEF x
  <2>1. x >= M \/ x < M
    BY <1>1, <1>2, SMT
  <2> QED BY <2>1, <1>3, <1>4 DEF x

\* addModP, subModP, multiplyModP, addModN and multiplyModN of reduced numbers
\* return the reduced result, for every width, prime and group order.
THEOREM FieldOperationsExact ==
  /\ \A a, b \in 0 .. P - 1 :
       /\ AddModP(a, b) = (a + b) % P
       /\ SubModP(a, b) = (a - b) % P
       /\ MultiplyModP(a, b) = (a * b) % P
  /\ \A a, b \in 0 .. N - 1 :
       /\ AddMod(a, b, N) = (a + b) % N
       /\ MultiplyModN(a, b) = (a * b) % N
<1>1. /\ M \in Nat \ {0} /\ P \in Nat \ {0} /\ P < M /\ M < 2 * P
      /\ N \in Nat \ {0} /\ N < M /\ M < 2 * N /\ P \in Numbers /\ N \in Numbers
  BY FieldConstants, SMT DEF Numbers
<1>2. ASSUME NEW a \in 0 .. P - 1, NEW b \in 0 .. P - 1
      PROVE  /\ AddModP(a, b) = (a + b) % P /\ SubModP(a, b) = (a - b) % P
             /\ MultiplyModP(a, b) = (a * b) % P
  <2>1. /\ a \in 0 .. P /\ b \in 0 .. P /\ a + b < 2 * P /\ a - b < P /\ 0 < P
        /\ a \in Numbers /\ b \in Numbers
    BY <1>1, SMT DEF Numbers
  <2> QED BY <1>1, <2>1, AddModExact, SubModExact, MultiplyModPExact DEF AddModP, SubModP
<1>3. ASSUME NEW a \in 0 .. N - 1, NEW b \in 0 .. N - 1
      PROVE  /\ AddMod(a, b, N) = (a + b) % N
             /\ MultiplyModN(a, b) = (a * b) % N
  <2>1. a \in 0 .. N /\ b \in 0 .. N /\ a + b < 2 * N /\ 0 < N
    BY <1>1, SMT
  <2> QED BY <1>1, <2>1, AddModExact, MultiplyModNExact
<1> QED BY <1>2, <1>3

-----------------------------------------------------------------------------
(* invModP *)

\* The long number x + s * M, made even with P if it is odd, is halved.
LEMMA Halved ==
  ASSUME NEW x \in Numbers, NEW s \in Int
  PROVE  /\ HalfOf(x, s) \in Numbers /\ HalfSigned(x, s) \in Int
         /\ \E k \in {0, 1} : 2 * (HalfOf(x, s) + HalfSigned(x, s) * M) = x + s * M + k * P
<1> USE ModulusAssumption
<1> DEFINE e == Evened(x)
           c == Carried(x, s)
           k == IF x % 2 = 0 THEN 0 ELSE 1
<1>1. M \in Nat \ {0} /\ M = 2 * (M \div 2) /\ M \div 2 \in Int
  BY SMT
<1>2. x \in Int /\ 0 <= x /\ x < M
  BY <1>1, SMT DEF Numbers
<1>3. /\ e \in Numbers /\ e % 2 = 0 /\ c \in Int
      /\ e + c * M = x + s * M + k * P
  <2>1. CASE x % 2 = 0
    BY <2>1, <1>1, <1>2, SMT DEF Evened, Carried, Numbers
  <2>2. CASE x % 2 # 0
    <3>1. x + P \in 0 .. 2 * M - 1
      BY <1>2, SMT
    <3>2. /\ x + P < M  => (x + P) % M = x + P /\ (x + P) \div M = 0
          /\ x + P >= M => (x + P) % M = x + P - M /\ (x + P) \div M = 1
      <4>1. M \in Nat \ {0} /\ x \in Int /\ P \in Int
        BY <1>1, <1>2, SMT
      <4> QED BY <4>1, <3>1, CarryOfSum, Zenon
    <3>3. (x + P) % 2 = 0 /\ (x + P - M) % 2 = 0
      BY <1>1, <1>2, <2>2, SMT
    <3>4. CASE x + P < M
      <4>1. e = x + P /\ c = s + 0
        BY <3>2, <3>4, <2>2 DEF Evened, Carried
      <4> QED BY <4>1, <3>3, <3>4, <1>1, <1>2, <2>2, SMT DEF Numbers
    <3>5. CASE x + P >= M
      <4>1. e = x + P - M /\ c = s + 1
        BY <3>2, <3>5, <2>2 DEF Evened, Carried
      <4>2. c * M = s * M + M
        BY <4>1, <1>1, SMT
      <4>3. k * P = P
        BY <2>2, SMT
      <4>4. e \in Numbers
        BY <4>1, <3>1, <3>5, <1>1, SMT DEF Numbers
      <4> HIDE DEF e, c, k
      <4>5. e + c * M = x + s * M + k * P
        BY <4>1, <4>2, <4>3, <1>1, <1>2, SMT
      <4> QED BY <4>1, <4>4, <4>5, <3>3, SMT
    <3> QED BY <3>4, <3>5, <1>1, <1>2, SMT
  <2> QED BY <2>1, <2>2
<1>4. HalfOf(x, s) = e \div 2 + (c % 2) * (M \div 2) /\ HalfSigned(x, s) = c \div 2
  BY DEF HalfOf, HalfSigned
<1>5. k \in {0, 1}
  OBVIOUS
<1> HIDE DEF e, c, k
<1>6. e = 2 * (e \div 2) /\ e \div 2 \in Int
  BY <1>3, HalvesOf, SMT DEF Numbers
<1>7. c = 2 * (c \div 2) + (c % 2) /\ c \div 2 \in Int /\ c % 2 \in {0, 1}
  BY <1>3, HalvesOf
<1>8. HalfOf(x, s) \in Numbers
  BY <1>1, <1>3, <1>4, <1>6, <1>7, SMT DEF Numbers
<1>9. c * M = 2 * ((c \div 2) * M) + (c % 2) * M
  <2> DEFINE h == c \div 2
             r == c % 2
  <2>1. c = 2 * h + r /\ h \in Int /\ r \in Int
    BY <1>7, SMT
  <2> HIDE DEF h, r
  <2>2. c * M = 2 * (h * M) + r * M
    BY <2>1, <1>1, SMT
  <2> QED BY <2>2 DEF h, r
<1>10. (c % 2) * M = 2 * ((c % 2) * (M \div 2))
  BY <1>7, <1>1, SMT
<1>11. 2 * (HalfOf(x, s) + HalfSigned(x, s) * M) = e + c * M
  BY <1>1, <1>4, <1>6, <1>7, <1>9, <1>10, SMT
<1> QED BY <1>3, <1>4, <1>5, <1>7, <1>8, <1>11

-----------------------------------------------------------------------------
(* Congruences *)

LEMMA CongruentHalf ==
  ASSUME NEW a \in Int, NEW X \in Int, NEW Y \in Int, NEW U \in Int, NEW W \in Int,
         NEW k \in {0, 1}, 2 * Y = X + k * P, U = 2 * W, Congruent(a * X, U)
  PROVE  Congruent(a * Y, W)
<1> USE ModulusAssumption
<1>1. PICK q \in Int : a * X = U + q * P
  BY DEF Congruent
<1>2. 2 * (a * Y) = a * X + (a * k) * P
  BY SMT
<1> DEFINE z == a * Y - W
           w == q + a * k
<1>3. z \in Int /\ w \in Int /\ 2 * z = w * P
  BY <1>1, <1>2, SMT
<1>4. P \in Int /\ P % 2 = 1
  BY SMT
<1>5. \E r \in Int : z = r * P
  <2> HIDE DEF z, w
  <2> QED BY <1>3, <1>4, EvenMultiple
<1>6. PICK r \in Int : a * Y - W = r * P
  BY <1>5
<1>7. a * Y = W + r * P
  BY <1>6, <1>4, SMT
<1> QED BY <1>7, Zenon DEF Congruent

LEMMA CongruentDifference ==
  ASSUME NEW a \in Int, NEW X \in Int, NEW Y \in Int, NEW U \in Int, NEW V \in Int,
         Congruent(a * X, U), Congruent(a * Y, V)
  PROVE  Congruent(a * (X - Y), U - V)
<1> USE ModulusAssumption
<1>1. PICK q \in Int : a * X = U + q * P
  BY DEF Congruent
<1>2. PICK r \in Int : a * Y = V + r * P
  BY DEF Congruent
<1>3. a * (X - Y) = (U - V) + (q - r) * P /\ q - r \in Int
  BY <1>1, <1>2, SMT
<1> QED BY <1>3, Zenon DEF Congruent

LEMMA CongruentCorrected ==
  ASSUME NEW a \in Int, NEW X \in Int, NEW U \in Int, Congruent(a * X, U)
  PROVE  Congruent(a * (X + P), U) /\ Congruent(a * (X - P), U)
<1> USE ModulusAssumption
<1>1. PICK q \in Int : a * X = U + q * P
  BY DEF Congruent
<1>2. /\ a * (X + P) = U + (q + a) * P /\ q + a \in Int
      /\ a * (X - P) = U + (q - a) * P /\ q - a \in Int
  BY <1>1, SMT
<1> QED BY <1>2, Zenon DEF Congruent

\* The corrections at the end add or subtract P, carries and borrows included.
LEMMA CorrectedBy ==
  ASSUME NEW x \in Numbers, NEW s \in Int
  PROVE  /\ Corrected(x, s) \in Numbers /\ CorrectedSign(x, s) \in Int
         /\ Corrected(x, s) + CorrectedSign(x, s) * M \in {(x + s * M) + P, (x + s * M) - P}
<1> USE ModulusAssumption
<1>1. /\ M \in Nat \ {0} /\ P \in Nat /\ P < M
      /\ x \in Int /\ 0 <= x /\ x < M /\ P \in 0 .. M - 1 /\ x \in 0 .. M - 1
  BY SMT DEF Numbers
<1>2. CASE s < 0
  <2>1. x + P \in 0 .. 2 * M - 1 /\ P \in Int /\ x \in Int /\ M \in Nat \ {0}
    BY <1>1, SMT
  <2>2. /\ x + P < M  => (x + P) % M = x + P /\ (x + P) \div M = 0
        /\ x + P >= M => (x + P) % M = x + P - M /\ (x + P) \div M = 1
    BY <2>1, CarryOfSum, Zenon
  <2>3. Corrected(x, s) = (x + P) % M /\ CorrectedSign(x, s) = s + (x + P) \div M
    BY <1>2 DEF Corrected, CorrectedSign
  <2>4. (s + 1) * M = s * M + M /\ (s + 0) * M = s * M
    BY <1>1, SMT
  <2> QED BY <1>1, <2>2, <2>3, <2>4, SMT DEF Numbers
<1>3. CASE ~(s < 0)
  <2>1. (x - P) % M = x - P + Borrow(x, P) * M /\ (x - P) % M \in 0 .. M - 1
    BY <1>1, BorrowOf
  <2>2. Corrected(x, s) = (x - P) % M /\ CorrectedSign(x, s) = s - Borrow(x, P)
    BY <1>3 DEF Corrected, CorrectedSign
  <2>3. Borrow(x, P) \in {0, 1}
    BY DEF Borrow
  <2>4. (s - Borrow(x, P)) * M = s * M - Borrow(x, P) * M
    BY <1>1, <2>3, SMT
  <2> QED BY <1>1, <2>1, <2>2, <2>3, <2>4, SMT DEF Numbers
<1> QED BY <1>2, <1>3

\* A number congruent to one has the remainder one.
LEMMA CongruentToOne ==
  ASSUME NEW a \in Int, Congruent(a, 1)
  PROVE  a % P = 1
<1>1. PICK q \in Int : a = 1 + q * P
  BY DEF Congruent
<1>2. P \in Nat \ {0} /\ 1 \in 0 .. P - 1 /\ a = q * P + 1
  BY <1>1, ModulusAssumption, SMT
<1> QED BY <1>2, RemainderOf

-----------------------------------------------------------------------------
(* The loops *)

\* A loop is left only with a one, and the signed word of the result is zero
\* when the call returns.
Left ==
  /\ inverse \in {"correct", "done"} => u = 1 \/ v = 1
  /\ inverse = "done" => IF u = 1 THEN s1 = 0 ELSE s2 = 0

IInv == InverseTypeOK /\ Cofactors /\ Left

LEMMA InitInvariant ==
  ASSUME NEW x \in Numbers, InverseInit(x)
  PROVE  IInv
<1> USE ModulusAssumption
<1>1. M \in Nat /\ P \in Nat /\ 1 < P /\ P < M /\ x \in Int /\ 0 <= x /\ x < M
  BY SMT DEF Numbers
<1>2. InverseTypeOK /\ Left
  BY <1>1, SMT DEF InverseInit, InverseTypeOK, Left, Stages, Numbers
<1>3. x * (1 + 0 * M) = x + 0 * P /\ x * (0 + 0 * M) = P + (-1) * P
  BY <1>1, SMT
<1>4. 0 \in Int /\ -1 \in Int
  OBVIOUS
<1>5. Congruent(x * (1 + 0 * M), x) /\ Congruent(x * (0 + 0 * M), P)
  BY <1>3, <1>4, Zenon DEF Congruent
<1> QED BY <1>2, <1>5, Zenon DEF IInv, Cofactors, InverseInit

LEMMA NextInvariant ==
  IInv /\ [InverseNext]_inverseVars => IInv'
<1> SUFFICES ASSUME IInv, [InverseNext]_inverseVars
             PROVE  IInv'
  OBVIOUS
<1> USE ModulusAssumption
<1>1. /\ M \in Nat \ {0} /\ P \in Nat /\ 1 < P /\ P < M
      /\ argument \in Int /\ u \in Int /\ v \in Int /\ x1 \in Int /\ x2 \in Int
      /\ s1 \in Int /\ s2 \in Int /\ 0 <= u /\ 0 < v
  BY SMT DEF IInv, InverseTypeOK, Numbers
<1>2. CASE UNCHANGED inverseVars
  BY <1>2 DEF inverseVars, IInv, InverseTypeOK, Cofactors, Congruent, Left
<1>3. CASE Test
  BY <1>3 DEF Test, IInv, InverseTypeOK, Cofactors, Congruent, Left, Stages
<1>4. CASE HalveU
  <2>1. CASE u % 2 = 0
    <3>1. /\ u' = u \div 2 /\ x1' = HalfOf(x1, s1) /\ s1' = HalfSigned(x1, s1)
          /\ UNCHANGED <<argument, v, x2, s2, inverse>> /\ inverse = "halveU"
      BY <1>4, <2>1 DEF HalveU
    <3>2. u = 2 * u' /\ u' \in Numbers
      BY <3>1, <2>1, <1>1, SMT DEF IInv, InverseTypeOK, Numbers
    <3>3. /\ x1' \in Numbers /\ s1' \in Int
          /\ \E k \in {0, 1} : 2 * (x1' + s1' * M) = x1 + s1 * M + k * P
      BY <3>1, Halved DEF IInv, InverseTypeOK
    <3>4. PICK k \in {0, 1} : 2 * (x1' + s1' * M) = (x1 + s1 * M) + k * P
      BY <3>3
    <3>5. x1 + s1 * M \in Int /\ x1' + s1' * M \in Int /\ u' \in Int
      BY <3>2, <3>3, <1>1, SMT DEF Numbers
    <3>6. Congruent(argument * (x1' + s1' * M), u')
      BY <3>2, <3>4, <3>5, <1>1, CongruentHalf DEF IInv, Cofactors
    <3>7. InverseTypeOK'
      BY <3>1, <3>2, <3>3 DEF IInv, InverseTypeOK
    <3>8. Left'
      BY <3>1 DEF Left
    <3> QED BY <3>1, <3>6, <3>7, <3>8 DEF IInv, Cofactors, Congruent
  <2>2. CASE u % 2 # 0
    BY <1>4, <2>2 DEF HalveU, IInv, InverseTypeOK, Cofactors, Congruent, Left, Stages
  <2> QED BY <2>1, <2>2
<1>5. CASE HalveV
  <2>1. CASE v % 2 = 0
    <3>1. /\ v' = v \div 2 /\ x2' = HalfOf(x2, s2) /\ s2' = HalfSigned(x2, s2)
          /\ UNCHANGED <<argument, u, x1, s1, inverse>> /\ inverse = "halveV"
      BY <1>5, <2>1 DEF HalveV
    <3>2. v = 2 * v' /\ v' \in Numbers \ {0}
      BY <3>1, <2>1, <1>1, SMT DEF IInv, InverseTypeOK, Numbers
    <3>3. /\ x2' \in Numbers /\ s2' \in Int
          /\ \E k \in {0, 1} : 2 * (x2' + s2' * M) = x2 + s2 * M + k * P
      BY <3>1, Halved DEF IInv, InverseTypeOK
    <3>4. PICK k \in {0, 1} : 2 * (x2' + s2' * M) = (x2 + s2 * M) + k * P
      BY <3>3
    <3>5. x2 + s2 * M \in Int /\ x2' + s2' * M \in Int /\ v' \in Int
      BY <3>2, <3>3, <1>1, SMT DEF Numbers
    <3>6. Congruent(argument * (x2' + s2' * M), v')
      BY <3>2, <3>4, <3>5, <1>1, CongruentHalf DEF IInv, Cofactors
    <3>7. InverseTypeOK'
      BY <3>1, <3>2, <3>3 DEF IInv, InverseTypeOK
    <3>8. Left'
      BY <3>1 DEF Left
    <3> QED BY <3>1, <3>6, <3>7, <3>8 DEF IInv, Cofactors, Congruent
  <2>2. CASE v % 2 # 0
    BY <1>5, <2>2 DEF HalveV, IInv, InverseTypeOK, Cofactors, Congruent, Left, Stages
  <2> QED BY <2>1, <2>2
<1>6. CASE Subtract
  <2>1. inverse' = "test" /\ argument' = argument
    BY <1>6 DEF Subtract
  <2>2. Left'
    BY <2>1 DEF Left
  <2>3. CASE v <= u /\ u' = u - v /\ x1' = (x1 - x2) % M
             /\ s1' = s1 - s2 - Borrow(x1, x2) /\ UNCHANGED <<v, x2, s2>>
    <3>1. x1' = x1 - x2 + Borrow(x1, x2) * M /\ x1' \in Numbers
      BY <2>3, <1>1, BorrowOf DEF IInv, InverseTypeOK, Numbers
    <3>2. s1' \in Int /\ u' \in Numbers
      BY <2>3, <1>1, SMT DEF Borrow, IInv, InverseTypeOK, Numbers
    <3>3. x1' + s1' * M = (x1 + s1 * M) - (x2 + s2 * M)
      BY <2>3, <3>1, <1>1, SMT DEF Borrow
    <3>4. x1 + s1 * M \in Int /\ x2 + s2 * M \in Int
      BY <1>1, SMT
    <3>5. Congruent(argument * (x1' + s1' * M), u')
      BY <2>3, <3>3, <3>4, <1>1, CongruentDifference DEF IInv, Cofactors
    <3>6. InverseTypeOK'
      BY <2>1, <2>3, <3>1, <3>2 DEF IInv, InverseTypeOK, Stages
    <3> QED BY <2>1, <2>2, <2>3, <3>5, <3>6 DEF IInv, Cofactors, Congruent
  <2>4. CASE u < v /\ v' = v - u /\ x2' = (x2 - x1) % M
             /\ s2' = s2 - s1 - Borrow(x2, x1) /\ UNCHANGED <<u, x1, s1>>
    <3>1. x2' = x2 - x1 + Borrow(x2, x1) * M /\ x2' \in Numbers
      BY <2>4, <1>1, BorrowOf DEF IInv, InverseTypeOK, Numbers
    <3>2. s2' \in Int /\ v' \in Numbers \ {0}
      BY <2>4, <1>1, SMT DEF Borrow, IInv, InverseTypeOK, Numbers
    <3>3. x2' + s2' * M = (x2 + s2 * M) - (x1 + s1 * M)
      BY <2>4, <3>1, <1>1, SMT DEF Borrow
    <3>4. x1 + s1 * M \in Int /\ x2 + s2 * M \in Int
      BY <1>1, SMT
    <3>5. Congruent(argument * (x2' + s2' * M), v')
      BY <2>4, <3>3, <3>4, <1>1, CongruentDifference DEF IInv, Cofactors
    <3>6. InverseTypeOK'
      BY <2>1, <2>4, <3>1, <3>2 DEF IInv, InverseTypeOK, Stages
    <3> QED BY <2>1, <2>2, <2>4, <3>5, <3>6 DEF IInv, Cofactors, Congruent
  <2> QED BY <1>6, <2>3, <2>4 DEF Subtract
<1>7. CASE Correct
  <2>1. UNCHANGED <<argument, u, v>> /\ inverse = "correct" /\ (u = 1 \/ v = 1)
    BY <1>7 DEF Correct, IInv, Left
  <2>2. CASE u = 1 /\ s1 # 0 /\ x1' = Corrected(x1, s1) /\ s1' = CorrectedSign(x1, s1)
             /\ UNCHANGED <<x2, s2, inverse>>
    <3>1. x1 \in Numbers
      BY DEF IInv, InverseTypeOK
    <3>2. /\ x1' \in Numbers /\ s1' \in Int
          /\ x1' + s1' * M \in {(x1 + s1 * M) + P, (x1 + s1 * M) - P}
      BY <2>2, <3>1, <1>1, CorrectedBy
    <3>3. Congruent(argument * (x1' + s1' * M), u)
      <4>1. x1 + s1 * M \in Int
        BY <1>1, SMT
      <4> QED BY <3>2, <4>1, <1>1, CongruentCorrected DEF IInv, Cofactors
    <3>4. InverseTypeOK'
      BY <2>1, <2>2, <3>2 DEF IInv, InverseTypeOK
    <3>5. Left'
      BY <2>1, <2>2 DEF Left
    <3> QED BY <2>1, <2>2, <3>3, <3>4, <3>5 DEF IInv, Cofactors, Congruent
  <2>3. CASE u # 1 /\ s2 # 0 /\ x2' = Corrected(x2, s2) /\ s2' = CorrectedSign(x2, s2)
             /\ UNCHANGED <<x1, s1, inverse>>
    <3>1. x2 \in Numbers
      BY DEF IInv, InverseTypeOK
    <3>2. /\ x2' \in Numbers /\ s2' \in Int
          /\ x2' + s2' * M \in {(x2 + s2 * M) + P, (x2 + s2 * M) - P}
      BY <2>3, <3>1, <1>1, CorrectedBy
    <3>3. Congruent(argument * (x2' + s2' * M), v)
      <4>1. x2 + s2 * M \in Int
        BY <1>1, SMT
      <4> QED BY <3>2, <4>1, <1>1, CongruentCorrected DEF IInv, Cofactors
    <3>4. InverseTypeOK'
      BY <2>1, <2>3, <3>2 DEF IInv, InverseTypeOK
    <3>5. Left'
      BY <2>1, <2>3 DEF Left
    <3> QED BY <2>1, <2>3, <3>3, <3>4, <3>5 DEF IInv, Cofactors, Congruent
  <2>4. CASE (IF u = 1 THEN s1 = 0 ELSE s2 = 0) /\ inverse' = "done"
             /\ UNCHANGED <<x1, s1, x2, s2>>
    BY <2>1, <2>4 DEF IInv, InverseTypeOK, Cofactors, Congruent, Left, Stages
  <2> QED BY <1>7, <2>2, <2>3, <2>4 DEF Correct
<1> QED BY <1>2, <1>3, <1>4, <1>5, <1>6, <1>7 DEF InverseNext

\* A call that returns has found the inverse.
LEMMA InvariantInverts == IInv => InverseIsInverse
<1> SUFFICES ASSUME IInv, inverse = "done"
             PROVE  (argument * Output) % P = 1
  BY DEF InverseIsInverse
<1> USE ModulusAssumption
<1>1. /\ M \in Nat /\ argument \in Int /\ x1 \in Int /\ x2 \in Int
      /\ Output \in Int /\ argument * Output \in Int
  BY SMT DEF IInv, InverseTypeOK, Numbers, Output
<1>2. x1 + 0 * M = x1 /\ x2 + 0 * M = x2
  BY <1>1, SMT
<1>3. Congruent(argument * Output, 1)
  BY <1>2 DEF IInv, Left, Cofactors, Output
<1> QED BY <1>1, <1>3, CongruentToOne

\* invModP returns an inverse of its argument whenever it returns, for every
\* width of the numbers, every odd modulus and every argument.
THEOREM InverseIsInverseThm == InverseSpec => []InverseIsInverse
<1>1. (\E x \in Numbers : InverseInit(x)) => IInv
  BY InitInvariant
<1> QED BY <1>1, NextInvariant, InvariantInverts, PTL DEF InverseSpec

\* The loops keep both congruences and every number in its 256 bits.
THEOREM CofactorsThm == InverseSpec => [](InverseTypeOK /\ Cofactors)
<1>1. (\E x \in Numbers : InverseInit(x)) => IInv
  BY InitInvariant
<1>2. IInv => InverseTypeOK /\ Cofactors
  BY DEF IInv
<1> QED BY <1>1, <1>2, NextInvariant, PTL DEF InverseSpec

-----------------------------------------------------------------------------
(* Octets of words *)

Word4 == [1 .. 4 -> Int]

\* A function on 1 .. n is a sequence of n elements.
LEMMA FunctionIsSeq ==
  ASSUME NEW S, NEW n \in Nat, NEW f \in [1 .. n -> S]
  PROVE  f \in Seq(S) /\ Len(f) = n
<1>1. f \in Seq(S)
  BY SeqDef
<1>2. Len(f) = n
  BY <1>1, LenProperties, SMT
<1> QED BY <1>1, <1>2

LEMMA OneElement ==
  ASSUME NEW S, NEW e \in S
  PROVE  <<e>> \in Seq(S) /\ Len(<<e>>) = 1 /\ <<e>>[1] = e
OBVIOUS

LEMMA WordsAreSequences ==
  \A w \in Word4 : w \in Seq(Int) /\ Len(w) = 4
<1> SUFFICES ASSUME NEW w \in Word4
             PROVE  w \in Seq(Int) /\ Len(w) = 4
  OBVIOUS
<1>1. w \in [1 .. 4 -> Int] /\ 4 \in Nat
  BY DEF Word4
<1> QED BY ONLY <1>1, FunctionIsSeq

\* The place of an octet in the words.
LEMMA OctetPlace ==
  ASSUME NEW m \in Nat
  PROVE  /\ \A n \in 1 .. 4 * m : /\ ((n - 1) \div 4) + 1 \in 1 .. m /\ ((n - 1) % 4) + 1 \in 1 .. 4
                                  /\ n = 4 * ((n - 1) \div 4) + (((n - 1) % 4) + 1)
         /\ \A w \in 1 .. m, j \in 1 .. 4 :
              /\ 4 * (w - 1) + j \in 1 .. 4 * m
              /\ (((4 * (w - 1) + j) - 1) \div 4) + 1 = w /\ (((4 * (w - 1) + j) - 1) % 4) + 1 = j
<1>1. ASSUME NEW n \in 1 .. 4 * m
      PROVE  /\ ((n - 1) \div 4) + 1 \in 1 .. m /\ ((n - 1) % 4) + 1 \in 1 .. 4
             /\ n = 4 * ((n - 1) \div 4) + (((n - 1) % 4) + 1)
  BY SMT
<1>2. ASSUME NEW w \in 1 .. m, NEW j \in 1 .. 4
      PROVE  /\ 4 * (w - 1) + j \in 1 .. 4 * m
             /\ (((4 * (w - 1) + j) - 1) \div 4) + 1 = w /\ (((4 * (w - 1) + j) - 1) % 4) + 1 = j
  <2>1. 4 * (w - 1) + j \in 1 .. 4 * m
    BY SMT
  <2>2. (((4 * (w - 1) + j) - 1) \div 4) + 1 = w /\ (((4 * (w - 1) + j) - 1) % 4) + 1 = j
    BY SMT
  <2> QED BY <2>1, <2>2
<1> QED BY <1>1, <1>2

\* The octets of the first m words.
Cut(ws, m) == [n \in 1 .. 4 * m |-> ws[((n - 1) \div 4) + 1][((n - 1) % 4) + 1]]

LEMMA CutIs ==
  ASSUME NEW ws \in Seq(Word4), NEW m \in 0 .. Len(ws)
  PROVE  /\ Cut(ws, m) \in Seq(Int) /\ Len(Cut(ws, m)) = 4 * m
         /\ \A w \in 1 .. m, j \in 1 .. 4 : Cut(ws, m)[4 * (w - 1) + j] = ws[w][j]
<1>1. m \in Nat /\ Len(ws) \in Nat /\ 4 * m \in Nat /\ \A w \in 1 .. m : w \in 1 .. Len(ws)
  BY SMT
<1>2. \A w \in 1 .. m, j \in 1 .. 4 : ws[w][j] \in Int
  <2>1. \A w \in 1 .. m : ws[w] \in Word4
    BY <1>1, ElementOfSeq
  <2> QED BY <2>1 DEF Word4
<1>3. ASSUME NEW n \in 1 .. 4 * m
      PROVE  ws[((n - 1) \div 4) + 1][((n - 1) % 4) + 1] \in Int
  BY <1>1, <1>2, OctetPlace
<1>4. Cut(ws, m) \in [1 .. 4 * m -> Int]
  BY <1>3 DEF Cut
<1>5. Cut(ws, m) \in Seq(Int)
  BY <1>1, <1>4, SeqDef
<1>6. Len(Cut(ws, m)) = 4 * m
  <2>1. DOMAIN Cut(ws, m) = 1 .. 4 * m
    BY <1>4
  <2> DEFINE c == Cut(ws, m)
  <2>2. 1 .. 4 * m = 1 .. Len(c) /\ Len(c) \in Nat
    BY <1>5, <2>1, LenProperties
  <2> HIDE DEF c
  <2> QED BY <1>1, <2>2, SMT DEF c
<1>7. ASSUME NEW w \in 1 .. m, NEW j \in 1 .. 4
      PROVE  Cut(ws, m)[4 * (w - 1) + j] = ws[w][j]
  <2> DEFINE n == 4 * (w - 1) + j
  <2>1. n \in 1 .. 4 * m /\ ((n - 1) \div 4) + 1 = w /\ ((n - 1) % 4) + 1 = j
    BY <1>1, OctetPlace
  <2> HIDE DEF n
  <2>2. Cut(ws, m)[n] = ws[w][j]
    BY <2>1 DEF Cut
  <2> QED BY <2>2 DEF n
<1> QED BY <1>5, <1>6, <1>7

LEMMA CutNext ==
  ASSUME NEW ws \in Seq(Word4), NEW m \in 1 .. Len(ws)
  PROVE  Cut(ws, m) = IF m = 1 THEN ws[1] ELSE Cut(ws, m - 1) \o ws[m]
<1>1. /\ m \in Nat /\ m - 1 \in Nat /\ m \in 0 .. Len(ws) /\ m - 1 \in 0 .. Len(ws) /\ m \in 1 .. m
      /\ 1 \in 1 .. Len(ws) /\ Len(ws) \in Nat
  BY SMT
<1> DEFINE c == Cut(ws, m)
           b == Cut(ws, m - 1)
           s == ws[m]
<1>2. /\ c \in Seq(Int) /\ Len(c) = 4 * m
      /\ \A w \in 1 .. m, j \in 1 .. 4 : c[4 * (w - 1) + j] = ws[w][j]
  BY <1>1, CutIs
<1>3. /\ b \in Seq(Int) /\ Len(b) = 4 * (m - 1)
      /\ \A w \in 1 .. m - 1, j \in 1 .. 4 : b[4 * (w - 1) + j] = ws[w][j]
  BY <1>1, CutIs
<1>4. s \in Seq(Int) /\ Len(s) = 4
  <2>1. s \in Word4
    BY ElementOfSeq
  <2> QED BY <2>1, WordsAreSequences
<1> HIDE DEF c, b
<1>5. CASE m = 1
  <2>1. Len(c) = Len(s)
    BY <1>2, <1>4, <1>5, SMT
  <2>2. ASSUME NEW n \in 1 .. Len(c)
        PROVE  c[n] = s[n]
    <3>1. n \in 1 .. 4 /\ 4 * (1 - 1) + n = n
      BY <1>2, <1>5, SMT
    <3>2. c[4 * (1 - 1) + n] = ws[1][n]
      BY <1>1, <1>2, <1>5, <3>1
    <3> QED BY <1>5, <3>1, <3>2
  <2>3. c = s
    <3> HIDE DEF s
    <3> QED BY <1>2, <1>4, <2>1, <2>2, SeqEqual
  <2> QED BY <1>5, <2>3 DEF c
<1>6. CASE m # 1
  <2> DEFINE t == b \o s
  <2>1. /\ t \in Seq(Int) /\ Len(t) = Len(b) + Len(s)
        /\ \A n \in 1 .. Len(b) + Len(s) : t[n] = IF n <= Len(b) THEN b[n] ELSE s[n - Len(b)]
    <3> HIDE DEF s
    <3> QED BY <1>3, <1>4, ConcatProperties
  <2> HIDE DEF t
  <2>2. Len(b) + Len(s) = 4 * m
    BY <1>1, <1>3, <1>4, SMT
  <2>3. ASSUME NEW n \in 1 .. 4 * m
        PROVE  c[n] = t[n]
    <3> DEFINE w == ((n - 1) \div 4) + 1
               j == ((n - 1) % 4) + 1
    <3>1. w \in 1 .. m /\ j \in 1 .. 4 /\ n = 4 * (w - 1) + j
      <4>1. /\ w \in 1 .. m /\ j \in 1 .. 4 /\ n = 4 * ((n - 1) \div 4) + (((n - 1) % 4) + 1)
        BY <1>1, OctetPlace
      <4>2. (n - 1) \div 4 = w - 1
        BY <1>1, SMT
      <4> QED BY <4>1, <4>2
    <3> HIDE DEF w, j
    <3>2. c[n] = ws[w][j]
      BY <1>2, <3>1
    <3>3. CASE w = m
      <4>1. ~(n <= Len(b)) /\ n - Len(b) = j
        BY <1>1, <1>3, <3>1, <3>3, SMT
      <4> QED BY <2>1, <2>2, <3>2, <3>3, <4>1
    <3>4. CASE w # m
      <4>1. n <= Len(b) /\ w \in 1 .. m - 1
        BY <1>1, <1>3, <3>1, <3>4, SMT
      <4>2. t[n] = b[n]
        BY <2>1, <2>2, <4>1
      <4>3. b[4 * (w - 1) + j] = ws[w][j]
        BY <1>3, <3>1, <4>1
      <4> QED BY <3>1, <3>2, <4>2, <4>3
    <3> QED BY <3>3, <3>4
  <2>4. Len(c) = Len(t)
    BY <1>2, <2>1, <2>2
  <2>5. \A n \in 1 .. Len(c) : c[n] = t[n]
    BY <1>2, <2>3
  <2>6. c = t
    BY <1>2, <2>1, <2>4, <2>5, SeqEqual
  <2> QED BY <1>6, <2>6 DEF c, t, b
<1> QED BY <1>5, <1>6

\* The octets of words are those of the words, one after the other.
LEMMA OctetsAre ==
  ASSUME NEW ws \in Seq(Word4), Len(ws) # 0
  PROVE  /\ Octets(ws) \in Seq(Int) /\ Len(Octets(ws)) = 4 * Len(ws)
         /\ \A w \in 1 .. Len(ws), j \in 1 .. 4 : Octets(ws)[4 * (w - 1) + j] = ws[w][j]
<1> DEFINE L == Len(ws)
           D == 1 .. L
           flat == CHOOSE f : f = [m \in D |-> IF m = 1 THEN ws[m] ELSE f[m - 1] \o ws[m]]
           cut == [m \in D |-> Cut(ws, m)]
<1>1. L \in Nat \ {0} /\ L \in D /\ L \in 0 .. L /\ \A m \in D : m # 1 => m - 1 \in D
  BY SMT
<1>2. Octets(ws) = flat[L]
  BY DEF Octets, FlattenSeq
<1>3. \A m \in D : Cut(ws, m) = IF m = 1 THEN ws[1] ELSE Cut(ws, m - 1) \o ws[m]
  BY CutNext
<1> HIDE DEF L, D
<1>4. cut = [m \in D |-> IF m = 1 THEN ws[m] ELSE cut[m - 1] \o ws[m]]
  BY <1>1, <1>3
<1>5. flat = [m \in D |-> IF m = 1 THEN ws[m] ELSE flat[m - 1] \o ws[m]]
  BY <1>4, Zenon
<1> HIDE DEF flat
<1> DEFINE S == {n \in Nat : n + 1 \in D => flat[n + 1] = cut[n + 1]}
<1>6. 0 \in S
  <2>1. 0 + 1 = 1
    OBVIOUS
  <2>2. 1 \in D => flat[1] = cut[1]
    <3> HIDE DEF cut
    <3> QED BY <1>4, <1>5
  <2> QED BY <2>1, <2>2
<1>7. ASSUME NEW n \in Nat, n \in S
      PROVE  n + 1 \in S
  <2> SUFFICES ASSUME (n + 1) + 1 \in D
               PROVE  flat[(n + 1) + 1] = cut[(n + 1) + 1]
    BY SMT
  <2> DEFINE m == (n + 1) + 1
  <2>1. m \in D /\ m # 1 /\ m - 1 = n + 1
    BY SMT
  <2> HIDE DEF m
  <2>2. flat[m - 1] = cut[m - 1]
    BY <1>1, <1>7, <2>1
  <2> HIDE DEF cut
  <2>3. flat[m] = flat[m - 1] \o ws[m] /\ cut[m] = cut[m - 1] \o ws[m]
    BY <1>4, <1>5, <2>1
  <2> QED BY <2>2, <2>3 DEF m
<1>8. Nat \subseteq S
  <2> HIDE DEF S
  <2> QED BY <1>6, <1>7, SetInduction
<1>9. flat[L] = cut[L]
  <2>1. L - 1 \in Nat /\ (L - 1) + 1 = L
    BY <1>1, SMT
  <2>2. L - 1 \in S
    BY <1>8, <2>1
  <2> HIDE DEF cut
  <2> QED BY <1>1, <2>1, <2>2
<1>10. Octets(ws) = Cut(ws, L)
  BY <1>1, <1>2, <1>9
<1>11. /\ Cut(ws, L) \in Seq(Int) /\ Len(Cut(ws, L)) = 4 * L
       /\ \A w \in 1 .. L, j \in 1 .. 4 : Cut(ws, L)[4 * (w - 1) + j] = ws[w][j]
  BY <1>1, CutIs DEF L
<1> QED BY <1>10, <1>11 DEF L

\* By the place: an octet of the words.
LEMMA OctetAt ==
  ASSUME NEW ws \in Seq(Word4), Len(ws) # 0, NEW n \in 1 .. 4 * Len(ws)
  PROVE  LET w == ((n - 1) \div 4) + 1
             j == ((n - 1) % 4) + 1
         IN  w \in 1 .. Len(ws) /\ j \in 1 .. 4 /\ n = 4 * (w - 1) + j /\ Octets(ws)[n] = ws[w][j]
<1> DEFINE w == ((n - 1) \div 4) + 1
           j == ((n - 1) % 4) + 1
<1>1. Len(ws) \in Nat /\ n \in Int
  BY SMT
<1>2. w \in 1 .. Len(ws) /\ j \in 1 .. 4 /\ n = 4 * ((n - 1) \div 4) + (((n - 1) % 4) + 1)
  BY <1>1, OctetPlace
<1>3. (n - 1) \div 4 = w - 1
  BY <1>1, SMT
<1>4. n = 4 * (w - 1) + j
  BY <1>2, <1>3
<1> HIDE DEF w, j
<1>5. Octets(ws)[4 * (w - 1) + j] = ws[w][j]
  BY <1>2, OctetsAre
<1> QED BY <1>2, <1>4, <1>5 DEF w, j

\* Two lists with the same octets of words, and the place again.
LEMMA OctetsJoined ==
  ASSUME NEW a \in Seq(Word4), NEW b \in Seq(Word4), Len(a) # 0, Len(b) # 0
  PROVE  Octets(a \o b) = Octets(a) \o Octets(b)
<1> DEFINE c == a \o b
           oa == Octets(a)
           ob == Octets(b)
           oc == Octets(c)
           s == oa \o ob
           la == Len(a)
           lb == Len(b)
<1>1. /\ c \in Seq(Word4) /\ Len(c) = la + lb /\ la \in Nat \ {0} /\ lb \in Nat \ {0}
      /\ \A n \in 1 .. la + lb : c[n] = IF n <= la THEN a[n] ELSE b[n - la]
  BY ConcatProperties, LenProperties
<1> HIDE DEF c
<1>2. /\ oa \in Seq(Int) /\ Len(oa) = 4 * la
      /\ \A w \in 1 .. la, j \in 1 .. 4 : oa[4 * (w - 1) + j] = a[w][j]
  BY OctetsAre
<1>3. /\ ob \in Seq(Int) /\ Len(ob) = 4 * lb
      /\ \A w \in 1 .. lb, j \in 1 .. 4 : ob[4 * (w - 1) + j] = b[w][j]
  BY OctetsAre
<1>4. Len(c) # 0
  <2> HIDE DEF la, lb
  <2> QED BY <1>1, SMT
<1>5. oc \in Seq(Int) /\ Len(oc) = 4 * Len(c)
  BY <1>1, <1>4, OctetsAre
<1>6. /\ s \in Seq(Int) /\ Len(s) = Len(oa) + Len(ob)
      /\ \A n \in 1 .. Len(oa) + Len(ob) : s[n] = IF n <= Len(oa) THEN oa[n] ELSE ob[n - Len(oa)]
  <2> HIDE DEF oa, ob
  <2> QED BY <1>2, <1>3, ConcatProperties
<1> HIDE DEF s
<1>7. Len(oc) = Len(s) /\ Len(s) = 4 * (la + lb) /\ Len(oa) + Len(ob) = 4 * (la + lb)
  <2> HIDE DEF la, lb, oa, ob, oc
  <2> QED BY <1>1, <1>2, <1>3, <1>5, <1>6, SMT
<1>8. ASSUME NEW n \in 1 .. Len(oc)
      PROVE  oc[n] = s[n]
  <2> DEFINE w == ((n - 1) \div 4) + 1
             j == ((n - 1) % 4) + 1
  <2>1. n \in 1 .. 4 * Len(c)
    BY <1>5
  <2>2. w \in 1 .. Len(c) /\ j \in 1 .. 4 /\ n = 4 * (w - 1) + j /\ oc[n] = c[w][j]
    BY <1>1, <1>4, <2>1, OctetAt
  <2> HIDE DEF w, j, oa, ob, oc, la, lb
  <2>3. w \in 1 .. la + lb /\ n \in 1 .. Len(oa) + Len(ob)
    <3>1. 1 .. Len(c) = 1 .. la + lb
      BY <1>1
    <3>2. 1 .. Len(oc) = 1 .. Len(oa) + Len(ob)
      BY <1>7
    <3> QED BY <2>2, <3>1, <3>2
  <2>4. CASE w <= la
    <3>1. w \in 1 .. la /\ n <= Len(oa)
      <4> DEFINE z == Len(oa)
      <4>1. z = 4 * la /\ la \in Int /\ w \in 1 .. la + lb /\ j \in 1 .. 4
              /\ n = 4 * (w - 1) + j
        BY <1>1, <1>2, <2>2, <2>3
      <4> HIDE DEF z
      <4>2. w \in 1 .. la /\ n <= z
        BY ONLY <2>4, <4>1, SMT
      <4> QED BY <4>2 DEF z
    <3>2. s[n] = oa[n] /\ c[w] = a[w]
      BY <1>1, <1>6, <2>3, <2>4, <3>1
    <3>3. oa[4 * (w - 1) + j] = a[w][j]
      BY <1>2, <2>2, <3>1
    <3> QED BY <2>2, <3>2, <3>3
  <2>5. CASE ~(w <= la)
    <3> DEFINE h == w - la
    <3>1. h \in 1 .. lb /\ ~(n <= Len(oa)) /\ n - Len(oa) = 4 * (h - 1) + j
      <4> DEFINE z == Len(oa)
      <4>1. z = 4 * la /\ la \in Int /\ lb \in Int /\ w \in 1 .. la + lb /\ j \in 1 .. 4
              /\ n = 4 * (w - 1) + j /\ ~(w <= la)
        BY <1>1, <1>2, <2>2, <2>3, <2>5
      <4> HIDE DEF z
      <4>2. h \in 1 .. lb /\ ~(n <= z) /\ n - z = 4 * (h - 1) + j
        BY ONLY <4>1, SMT DEF h
      <4> QED BY <4>2 DEF z
    <3>2. s[n] = ob[n - Len(oa)] /\ c[w] = b[h]
      BY <1>1, <1>6, <2>3, <2>5, <3>1
    <3> HIDE DEF h
    <3>3. ob[4 * (h - 1) + j] = b[h][j]
      BY <1>3, <2>2, <3>1
    <3> QED BY <2>2, <3>1, <3>2, <3>3
  <2> QED BY <2>4, <2>5
<1>9. oc = s
  <2> HIDE DEF oc
  <2> QED BY <1>5, <1>6, <1>7, <1>8, SeqEqual
<1> QED BY <1>9 DEF s, c

LEMMA Words4 ==
  /\ Zero \in Word4 /\ EndMark \in Word4 /\ \A n \in Int : Num(n) \in Word4
  /\ \A p, w \in Word4 : Behind(p, w) \in Word4
<1>1. Zero \in Word4 /\ EndMark \in Word4
  BY SMT DEF Zero, EndMark, Word4
<1>2. ASSUME NEW n \in Int
      PROVE  Num(n) \in Word4
  <2>1. n \div 256 \in Int /\ n % 256 \in Int
    BY SMT
  <2> QED BY <2>1, SMT DEF Num, Word4
<1>3. ASSUME NEW p \in Word4, NEW w \in Word4
      PROVE  Behind(p, w) \in Word4
  BY SMT DEF Behind, Word4
<1> QED BY <1>1, <1>2, <1>3

\* A list of words moved on by a byte: its octets, behind the one that enters.
LEMMA MovedOctets ==
  ASSUME NEW f \in Word4, NEW ws \in Seq(Word4), Len(ws) # 0
  PROVE  LET t == Moved(f, ws)
         IN  /\ t \in Seq(Word4) /\ Len(t) = Len(ws)
             /\ \A n \in 1 .. 4 * Len(ws) :
                  Octets(t)[n] = IF n = 1 THEN f[4] ELSE Octets(ws)[n - 1]
<1> DEFINE t == Moved(f, ws)
           L == Len(ws)
           Entering(w) == IF w = 1 THEN f ELSE ws[w - 1]
<1>1. L \in Nat \ {0} /\ DOMAIN ws = 1 .. L
  BY LenProperties, SMT
<1>2. t = [w \in 1 .. L |-> Behind(Entering(w), ws[w])]
  BY <1>1 DEF Moved
<1>3. ASSUME NEW w \in 1 .. L
      PROVE  /\ ws[w] \in Word4 /\ Entering(w) \in Word4
             /\ t[w] = Behind(Entering(w), ws[w]) /\ t[w] \in Word4
  <2>1. ws[w] \in Word4
    BY ElementOfSeq
  <2>2. Entering(w) \in Word4
    <3>1. w # 1 => w - 1 \in 1 .. L
      BY <1>1, SMT
    <3> QED BY <3>1, ElementOfSeq
  <2> HIDE DEF t, Entering
  <2> QED BY <1>2, <2>1, <2>2, Words4
<1>4. t \in Seq(Word4) /\ Len(t) = L
  <2>1. t \in [1 .. L -> Word4]
    <3> HIDE DEF t, Entering
    <3> QED BY <1>2, <1>3
  <2>2. L \in Nat
    BY <1>1
  <2> HIDE DEF t, L
  <2> QED BY ONLY <2>1, <2>2, FunctionIsSeq
<1> HIDE DEF t
<1>5. ASSUME NEW n \in 1 .. 4 * L
      PROVE  Octets(t)[n] = IF n = 1 THEN f[4] ELSE Octets(ws)[n - 1]
  <2> DEFINE w == ((n - 1) \div 4) + 1
             j == ((n - 1) % 4) + 1
  <2>1. Len(t) # 0 /\ n \in 1 .. 4 * Len(t)
    BY <1>1, <1>4
  <2>2. w \in 1 .. Len(t) /\ j \in 1 .. 4 /\ n = 4 * (w - 1) + j /\ Octets(t)[n] = t[w][j]
    BY <1>4, <2>1, OctetAt
  <2> HIDE DEF w, j
  <2>3. w \in 1 .. L /\ t[w] = Behind(Entering(w), ws[w])
    BY <1>3, <1>4, <2>2
  <2> HIDE DEF L, Entering
  <2>4. CASE j = 1
    <3>1. t[w][j] = Entering(w)[4]
      BY <2>3, <2>4 DEF Behind
    <3>2. CASE w = 1
      <4>1. n = 1
        BY <2>2, <2>4, <3>2, SMT
      <4> QED BY <2>2, <3>1, <3>2, <4>1 DEF Entering
    <3>3. CASE w # 1
      <4> DEFINE h == w - 1
      <4>1. n # 1 /\ h \in 1 .. L /\ n - 1 = 4 * (h - 1) + 4 /\ 4 \in 1 .. 4
        BY <1>1, <2>2, <2>3, <2>4, <3>3, SMT
      <4>2. Entering(w) = ws[h]
        BY <3>3 DEF Entering
      <4> HIDE DEF h
      <4>3. Octets(ws)[4 * (h - 1) + 4] = ws[h][4]
        BY <4>1, OctetsAre DEF L
      <4> QED BY <2>2, <3>1, <4>1, <4>2, <4>3
    <3> QED BY <3>2, <3>3
  <2>5. CASE j # 1
    <3> DEFINE q == j - 1
    <3>1. q \in 1 .. 4 /\ n # 1 /\ n - 1 = 4 * (w - 1) + q /\ (j = 2 \/ j = 3 \/ j = 4)
      BY <1>1, <2>2, <2>3, <2>5, SMT
    <3>2. t[w][j] = ws[w][q]
      BY <2>3, <3>1, SMT DEF Behind
    <3> HIDE DEF q
    <3>3. Octets(ws)[4 * (w - 1) + q] = ws[w][q]
      BY <2>3, <3>1, OctetsAre DEF L
    <3> QED BY <2>2, <3>1, <3>2, <3>3
  <2> QED BY <2>4, <2>5
<1> QED BY <1>4, <1>5 DEF t

\* A block of words, zeros and a length.
LEMMA BlockOctets ==
  ASSUME NEW ws \in Seq(Word4), Len(ws) \in 1 .. 15, NEW length \in Word4
  PROVE  LET t == Block(ws, length)
         IN  /\ t \in Seq(Word4) /\ Len(t) = 16
             /\ \A n \in 1 .. 64 :
                  Octets(t)[n] = IF n <= 4 * Len(ws) THEN Octets(ws)[n]
                                 ELSE IF n <= 60 THEN 0 ELSE length[n - 60]
<1> DEFINE t == Block(ws, length)
           L == Len(ws)
<1>1. L \in 1 .. 15 /\ L \in Nat /\ L # 0 /\ 16 \in Nat
  <2>1. L \in 1 .. 15
    OBVIOUS
  <2> HIDE DEF L
  <2> QED BY ONLY <2>1, SMT
<1>2. t = [w \in 1 .. 16 |-> IF w <= L THEN ws[w] ELSE IF w = 16 THEN length ELSE Zero]
  BY DEF Block
<1>3. ASSUME NEW w \in 1 .. 16
      PROVE  /\ t[w] = IF w <= L THEN ws[w] ELSE IF w = 16 THEN length ELSE Zero
             /\ t[w] \in Word4 /\ (w <= L => w \in 1 .. L)
  <2>1. w <= L => w \in 1 .. L
    BY <1>1, SMT
  <2>2. w <= L => ws[w] \in Word4
    BY <2>1, ElementOfSeq
  <2>3. t[w] = IF w <= L THEN ws[w] ELSE IF w = 16 THEN length ELSE Zero
    <3> HIDE DEF t, L
    <3> QED BY <1>2
  <2>4. Zero \in Word4
    BY Words4
  <2> HIDE DEF t, L
  <2> QED BY <2>1, <2>2, <2>3, <2>4
<1>4. t \in Seq(Word4) /\ Len(t) = 16
  <2>1. t \in [1 .. 16 -> Word4]
    <3> HIDE DEF t, L
    <3> QED BY <1>2, <1>3
  <2>2. \A n \in Nat : t \in [1 .. n -> Word4] => t \in Seq(Word4) /\ Len(t) = n
    BY FunctionIsSeq
  <2> HIDE DEF t
  <2> QED BY ONLY <1>1, <2>1, <2>2
<1> HIDE DEF t
<1>5. ASSUME NEW n \in 1 .. 64
      PROVE  Octets(t)[n] = IF n <= 4 * L THEN Octets(ws)[n]
                            ELSE IF n <= 60 THEN 0 ELSE length[n - 60]
  <2> DEFINE w == ((n - 1) \div 4) + 1
             j == ((n - 1) % 4) + 1
  <2>1. Len(t) # 0 /\ n \in 1 .. 4 * Len(t)
    <3>1. 4 * 16 = 64
      BY SMT
    <3> QED BY <1>4, <3>1
  <2>2. w \in 1 .. Len(t) /\ j \in 1 .. 4 /\ n = 4 * (w - 1) + j /\ Octets(t)[n] = t[w][j]
    BY <1>4, <2>1, OctetAt
  <2> HIDE DEF w, j
  <2>3. w \in 1 .. 16
    BY <1>4, <2>2
  <2> HIDE DEF L
  <2>4. CASE w <= L
    <3>1. w \in 1 .. L /\ t[w] = ws[w]
      BY <1>3, <2>3, <2>4
    <3>2. Octets(ws)[4 * (w - 1) + j] = ws[w][j]
      BY <1>1, <2>2, <3>1, OctetsAre DEF L
    <3>3. n <= 4 * L
      <4>1. n = 4 * (w - 1) + j /\ j \in 1 .. 4
        BY <2>2
      <4> QED BY ONLY <1>1, <2>3, <2>4, <4>1, SMT
    <3> QED BY <2>2, <3>1, <3>2, <3>3
  <2>5. CASE ~(w <= L) /\ w # 16
    <3>1. t[w] = Zero
      BY <1>3, <2>3, <2>5
    <3>2. ~(n <= 4 * L) /\ n <= 60
      BY <1>1, <2>2, <2>3, <2>5, SMT
    <3>3. Zero[j] = 0
      BY <2>2, SMT DEF Zero
    <3> QED BY <2>2, <3>1, <3>2, <3>3
  <2>6. CASE ~(w <= L) /\ w = 16
    <3>1. t[w] = length
      BY <1>3, <2>3, <2>6
    <3>2. ~(n <= 4 * L) /\ ~(n <= 60) /\ n - 60 = j
      BY <1>1, <2>2, <2>3, <2>6, SMT
    <3> QED BY <2>2, <3>1, <3>2
  <2> QED BY <2>4, <2>5, <2>6
<1> QED BY <1>4, <1>5 DEF t

\* The octets of words behind which is the end mark.
LEMMA EndedOctets ==
  ASSUME NEW ws \in Seq(Word4), NEW m \in Nat \ {0}, Len(ws) = m
  PROVE  LET t == ws \o <<EndMark>>
         IN  /\ t \in Seq(Word4) /\ Len(t) = m + 1
             /\ Octets(t) \in Seq(Int) /\ Len(Octets(t)) = 4 * m + 4
             /\ \A n \in 1 .. 4 * m + 4 :
                  Octets(t)[n] = IF n <= 4 * m THEN Octets(ws)[n]
                                 ELSE IF n = 4 * m + 1 THEN 128 ELSE 0
<1> DEFINE t == ws \o <<EndMark>>
           o == Octets(ws)
           e == Octets(<<EndMark>>)
           r == o \o e
<1>1. <<EndMark>> \in Seq(Word4) /\ Len(<<EndMark>>) = 1 /\ <<EndMark>>[1] = EndMark
  BY Words4, OneElement
<1>2. t \in Seq(Word4) /\ Len(t) = m + 1
  BY <1>1, ConcatProperties
<1>3. o \in Seq(Int) /\ Len(o) = 4 * m
  <2>1. Len(ws) # 0
    BY SMT
  <2> QED BY <2>1, OctetsAre
<1>4. e \in Seq(Int) /\ Len(e) = 4 /\ \A j \in 1 .. 4 : e[j] = EndMark[j]
  <2>1. Len(<<EndMark>>) # 0 /\ 4 * 1 = 4 /\ 1 \in 1 .. 1 /\ \A j \in 1 .. 4 : 4 * (1 - 1) + j = j
    BY <1>1, SMT
  <2>2. /\ e \in Seq(Int) /\ Len(e) = 4 * 1
        /\ \A w \in 1 .. 1, j \in 1 .. 4 : e[4 * (w - 1) + j] = <<EndMark>>[w][j]
    BY <1>1, <2>1, OctetsAre
  <2>3. \A j \in 1 .. 4 : e[4 * (1 - 1) + j] = <<EndMark>>[1][j]
    BY <2>1, <2>2
  <2> QED BY <1>1, <2>1, <2>2, <2>3
<1>5. Octets(t) = r
  <2>1. Len(ws) # 0 /\ Len(<<EndMark>>) # 0
    BY <1>1, SMT
  <2> QED BY <1>1, <2>1, OctetsJoined
<1> HIDE DEF t, o, e
<1>6. /\ r \in Seq(Int) /\ Len(r) = 4 * m + 4
      /\ \A n \in 1 .. 4 * m + 4 : r[n] = IF n <= 4 * m THEN o[n] ELSE e[n - 4 * m]
  <2>1. /\ r \in Seq(Int) /\ Len(r) = Len(o) + Len(e)
        /\ \A n \in 1 .. Len(o) + Len(e) : r[n] = IF n <= Len(o) THEN o[n] ELSE e[n - Len(o)]
    BY <1>3, <1>4, ConcatProperties
  <2> HIDE DEF r
  <2> QED BY <1>3, <1>4, <2>1
<1>7. ASSUME NEW n \in 1 .. 4 * m + 4
      PROVE  r[n] = IF n <= 4 * m THEN o[n] ELSE IF n = 4 * m + 1 THEN 128 ELSE 0
  <2>1. CASE n <= 4 * m
    <3> HIDE DEF r
    <3> QED BY <1>6, <2>1
  <2>2. CASE ~(n <= 4 * m)
    <3> DEFINE j == n - 4 * m
    <3>1. j \in 1 .. 4 /\ (j = 1 <=> n = 4 * m + 1)
      BY <2>2, SMT
    <3>2. r[n] = e[j]
      <4> HIDE DEF r
      <4> QED BY <1>6, <2>2
    <3> HIDE DEF r, j
    <3>3. e[j] = EndMark[j]
      BY <1>4, <3>1
    <3>4. EndMark[j] = IF j = 1 THEN 128 ELSE 0
      BY <3>1, SMT DEF EndMark
    <3> QED BY <2>2, <3>1, <3>2, <3>3, <3>4
  <2> QED BY <2>1, <2>2
<1> HIDE DEF r
<1> QED BY <1>2, <1>5, <1>6, <1>7 DEF t, o

LEMMA ZerosAre ==
  \A n \in Nat : /\ Zeros(n) \in Seq(Int) /\ Len(Zeros(n)) = n
                 /\ \A j \in 1 .. n : Zeros(n)[j] = 0
<1> SUFFICES ASSUME NEW n \in Nat
             PROVE  /\ Zeros(n) \in Seq(Int) /\ Len(Zeros(n)) = n
                    /\ \A j \in 1 .. n : Zeros(n)[j] = 0
  OBVIOUS
<1> QED BY SMT DEF Zeros

LEMMA PadLengthIs ==
  \A n \in Nat : /\ PadLength(n) \in Nat
                 /\ n <= 55 => PadLength(n) = 55 - n
                 /\ PadLength(65) = 54
<1> SUFFICES ASSUME NEW n \in Nat
             PROVE  /\ PadLength(n) \in Nat
                    /\ n <= 55 => PadLength(n) = 55 - n
                    /\ PadLength(65) = 54
  OBVIOUS
<1>1. (55 - n) % 64 \in Nat /\ (55 - 65) % 64 = 54
  <2>1. (55 - n) % 64 \in Nat
    BY SMT
  <2>2. /\ 64 \in Nat \ {0} /\ -10 \in Int /\ -1 \in Int /\ 54 \in 0 .. 64 - 1
        /\ -10 = (-1) * 64 + 54 /\ 55 - 65 = -10
    BY SMT
  <2>3. (-10) % 64 = 54
    BY <2>2, RemainderOf
  <2> QED BY <2>1, <2>2, <2>3
<1>2. n <= 55 => (55 - n) % 64 = 55 - n
  BY SMT
<1> QED BY <1>1, <1>2 DEF PadLength

LEMMA TwoElements ==
  ASSUME NEW a \in Int, NEW b \in Int
  PROVE  <<a, b>> \in Seq(Int) /\ Len(<<a, b>>) = 2 /\ <<a, b>>[1] = a /\ <<a, b>>[2] = b
OBVIOUS

\* The padding of SHA-256, octet by octet: m octets, q zeros and the length.
PaddedOctet(o, m, q, n) ==
  IF n <= m THEN o[n] ELSE IF n = m + 1 THEN 128 ELSE IF n <= m + q + 7 THEN 0
  ELSE IF n = m + q + 8 THEN (8 * m) \div 256 ELSE (8 * m) % 256

LEMMA PaddedIs ==
  ASSUME NEW o \in Seq(Int), NEW m \in Nat, Len(o) = m, NEW q \in Nat, q = PadLength(m)
  PROVE  /\ Padded(o) \in Seq(Int) /\ Len(Padded(o)) = m + q + 9
         /\ \A n \in 1 .. m + q + 9 : Padded(o)[n] = PaddedOctet(o, m, q, n)
<1> DEFINE hi == (8 * m) \div 256
           lo == (8 * m) % 256
           z == Zeros(q + 6)
           l == <<hi, lo>>
           t1 == o \o <<128>>
           t2 == t1 \o z
           t3 == t2 \o l
<1>1. hi \in Int /\ lo \in Int /\ q + 6 \in Nat /\ 128 \in Int /\ m + 1 \in Nat
  BY SMT
<1>2. Padded(o) = t3
  BY DEF Padded
<1> HIDE DEF hi, lo
<1>3. <<128>> \in Seq(Int) /\ Len(<<128>>) = 1 /\ <<128>>[1] = 128
  BY <1>1, OneElement
<1>4. z \in Seq(Int) /\ Len(z) = q + 6 /\ \A j \in 1 .. q + 6 : z[j] = 0
  BY <1>1, ZerosAre
<1>5. l \in Seq(Int) /\ Len(l) = 2 /\ l[1] = hi /\ l[2] = lo
  BY <1>1, TwoElements
<1> HIDE DEF z, l
<1>6. /\ t1 \in Seq(Int) /\ Len(t1) = m + 1
      /\ \A n \in 1 .. m + 1 : t1[n] = IF n <= m THEN o[n] ELSE <<128>>[n - m]
  BY <1>3, ConcatProperties
<1> HIDE DEF t1
<1>7. /\ t2 \in Seq(Int) /\ Len(t2) = (m + 1) + (q + 6)
      /\ \A n \in 1 .. (m + 1) + (q + 6) : t2[n] = IF n <= m + 1 THEN t1[n] ELSE z[n - (m + 1)]
  <2>1. /\ t2 \in Seq(Int) /\ Len(t2) = Len(t1) + Len(z)
        /\ \A n \in 1 .. Len(t1) + Len(z) : t2[n] = IF n <= Len(t1) THEN t1[n] ELSE z[n - Len(t1)]
    <3>1. t1 \in Seq(Int) /\ z \in Seq(Int)
      BY <1>4, <1>6
    <3> QED BY <3>1, ConcatProperties
  <2> HIDE DEF t2
  <2> QED BY <1>4, <1>6, <2>1
<1> HIDE DEF t2
<1> DEFINE k2 == (m + 1) + (q + 6)
<1>8. /\ t3 \in Seq(Int) /\ Len(t3) = k2 + 2
      /\ \A n \in 1 .. k2 + 2 : t3[n] = IF n <= k2 THEN t2[n] ELSE l[n - k2]
  <2>1. /\ t3 \in Seq(Int) /\ Len(t3) = Len(t2) + Len(l)
        /\ \A n \in 1 .. Len(t2) + Len(l) : t3[n] = IF n <= Len(t2) THEN t2[n] ELSE l[n - Len(t2)]
    <3>1. t2 \in Seq(Int) /\ l \in Seq(Int)
      BY <1>5, <1>7
    <3> QED BY <3>1, ConcatProperties
  <2> HIDE DEF t3
  <2> QED BY <1>5, <1>7, <2>1
<1> HIDE DEF t3
<1>9. k2 + 2 = m + q + 9 /\ k2 = m + q + 7 /\ k2 \in Nat
  BY SMT
<1>10. ASSUME NEW n \in 1 .. m + q + 9
       PROVE  t3[n] = IF n <= m THEN o[n] ELSE IF n = m + 1 THEN 128
                      ELSE IF n <= m + q + 7 THEN 0
                      ELSE IF n = m + q + 8 THEN hi ELSE lo
  <2>1. n \in 1 .. k2 + 2
    BY <1>9
  <2>2. t3[n] = IF n <= k2 THEN t2[n] ELSE l[n - k2]
    BY <1>8, <2>1
  <2> HIDE DEF k2
  <2>3. CASE n <= m
    <3>1. n <= k2 /\ n <= m + 1 /\ n \in 1 .. m + 1 /\ n \in 1 .. (m + 1) + (q + 6)
      BY ONLY n \in 1 .. m + q + 9, <1>9, <2>3, m \in Nat, q \in Nat, SMT
    <3> QED BY <1>6, <1>7, <2>2, <2>3, <3>1
  <2>4. CASE n = m + 1
    <3>1. n <= k2 /\ n <= m + 1 /\ n \in 1 .. m + 1 /\ n \in 1 .. (m + 1) + (q + 6) /\ ~(n <= m) /\ n - m = 1
      BY ONLY n \in 1 .. m + q + 9, <1>9, <2>4, m \in Nat, q \in Nat, SMT
    <3> QED BY <1>3, <1>6, <1>7, <2>2, <2>4, <3>1
  <2>5. CASE ~(n <= m + 1) /\ n <= m + q + 7
    <3>1. n <= k2 /\ n \in 1 .. (m + 1) + (q + 6) /\ n - (m + 1) \in 1 .. q + 6 /\ ~(n <= m) /\ n # m + 1
      BY ONLY n \in 1 .. m + q + 9, <1>9, <2>5, m \in Nat, q \in Nat, SMT
    <3> QED BY <1>4, <1>7, <2>2, <2>5, <3>1
  <2>6. CASE ~(n <= m + q + 7)
    <3>1. /\ ~(n <= k2) /\ ~(n <= m) /\ n # m + 1
          /\ n = m + q + 8 => n - k2 = 1
          /\ n # m + q + 8 => n - k2 = 2
      BY ONLY n \in 1 .. m + q + 9, <1>9, <2>6, m \in Nat, q \in Nat, SMT
    <3> QED BY <1>5, <2>2, <2>6, <3>1
  <2>7. n <= m \/ n = m + 1 \/ ~(n <= m + 1)
    BY ONLY n \in 1 .. m + q + 9, m \in Nat, q \in Nat, SMT
  <2> QED BY <2>3, <2>4, <2>5, <2>6, <2>7
<1>11. \A n \in 1 .. m + q + 9 : t3[n] = PaddedOctet(o, m, q, n)
  BY <1>10 DEF PaddedOctet, hi, lo
<1> QED BY <1>2, <1>8, <1>9, <1>11

LEMMA NumIs ==
  ASSUME NEW n \in Int
  PROVE  /\ Num(n)[1] = 0 /\ Num(n)[2] = 0
         /\ Num(n)[3] = n \div 256 /\ Num(n)[4] = n % 256
BY DEF Num

LEMMA BehindOctet ==
  ASSUME NEW o \in Seq(Int), NEW m \in Nat, Len(o) = m, NEW c \in Int
  PROVE  /\ <<c>> \o o \in Seq(Int) /\ Len(<<c>> \o o) = m + 1 /\ (<<c>> \o o)[1] = c
         /\ \A n \in 2 .. m + 1 : (<<c>> \o o)[n] = o[n - 1]
<1> DEFINE t == <<c>> \o o
<1>1. <<c>> \in Seq(Int) /\ Len(<<c>>) = 1 /\ <<c>>[1] = c
  BY OneElement
<1>2. /\ t \in Seq(Int) /\ Len(t) = 1 + m
      /\ \A n \in 1 .. 1 + m : t[n] = IF n <= 1 THEN <<c>>[n] ELSE o[n - 1]
  BY <1>1, ConcatProperties
<1> HIDE DEF t
<1>3. /\ 1 + m = m + 1 /\ 1 \in 1 .. 1 + m /\ 1 <= 1
      /\ \A n \in 2 .. m + 1 : n \in 1 .. 1 + m /\ ~(n <= 1)
  BY SMT
<1>4. t[1] = c /\ \A n \in 2 .. m + 1 : t[n] = o[n - 1]
  BY <1>1, <1>2, <1>3
<1> QED BY <1>2, <1>3, <1>4 DEF t

\* e octets, the end mark and zeros.
EndedOctet(g, e, n) == IF n <= e THEN g[n] ELSE IF n = e + 1 THEN 128 ELSE 0

\* Words whose octets are a text, its end mark and zeros, with the length of the
\* text behind them, are the text padded.
LEMMA BlockIsPadded ==
  ASSUME NEW s \in Seq(Word4), NEW m \in 1 .. 14, Len(s) = m,
         NEW g \in Seq(Int), NEW e \in 0 .. 55, Len(g) = e, e + 1 <= 4 * m,
         \A n \in 1 .. 4 * m : Octets(s)[n] = EndedOctet(g, e, n)
  PROVE  Octets(Block(s, Num(e * 8))) = Padded(g)
<1> DEFINE c == Num(e * 8)
           b == Block(s, c)
           t == Octets(b)
           p == Padded(g)
           hi == (8 * e) \div 256
           lo == (8 * e) % 256
           q == 55 - e
<1>1. e \in Nat /\ e * 8 = 8 * e /\ e * 8 \in Int /\ 8 * e \in Int /\ m \in 1 .. 15 /\ q \in Nat
      /\ e <= 55
  BY SMT
<1>2. c \in Word4 /\ c[1] = 0 /\ c[2] = 0 /\ c[3] = hi /\ c[4] = lo
  BY <1>1, NumIs, Words4
<1> HIDE DEF c
<1>3. /\ b \in Seq(Word4) /\ Len(b) = 16
      /\ \A n \in 1 .. 64 : Octets(b)[n] = IF n <= 4 * Len(s) THEN Octets(s)[n]
                                           ELSE IF n <= 60 THEN 0 ELSE c[n - 60]
  <2>1. Len(s) \in 1 .. 15
    BY <1>1
  <2> QED BY <1>2, <2>1, BlockOctets
<1> HIDE DEF b
<1>4. t \in Seq(Int) /\ Len(t) = 64
  <2>1. Len(b) # 0 /\ 4 * 16 = 64
    BY <1>3, SMT
  <2>2. t \in Seq(Int) /\ Len(t) = 4 * Len(b)
    BY <1>3, <2>1, OctetsAre
  <2> HIDE DEF t
  <2> QED BY <1>3, <2>1, <2>2
<1>5. PadLength(e) = q /\ q \in Nat
  BY <1>1, PadLengthIs
<1> HIDE DEF q
<1>6. /\ p \in Seq(Int) /\ Len(p) = e + q + 9
      /\ \A n \in 1 .. e + q + 9 : p[n] = PaddedOctet(g, e, q, n)
  BY <1>1, <1>5, PaddedIs
<1>7. e + q + 9 = 64 /\ e + q + 7 = 62 /\ e + q + 8 = 63
  BY <1>1, SMT DEF q
<1> HIDE DEF p, hi, lo
<1>8. ASSUME NEW n \in 1 .. 64
      PROVE  t[n] = p[n]
  <2>1. p[n] = IF n <= e THEN g[n] ELSE IF n = e + 1 THEN 128
               ELSE IF n <= 62 THEN 0 ELSE IF n = 63 THEN hi ELSE lo
    <3>1. n \in 1 .. e + q + 9
      BY <1>7
    <3>2. p[n] = PaddedOctet(g, e, q, n)
      BY <1>6, <3>1
    <3> QED BY ONLY <1>7, <3>2 DEF PaddedOctet, hi, lo
  <2>2. t[n] = IF n <= 4 * m THEN Octets(s)[n] ELSE IF n <= 60 THEN 0 ELSE c[n - 60]
    BY <1>3
  <2>3. n \in 1 .. 4 * m \/ ~(n <= 4 * m)
    BY SMT
  <2>4. CASE n \in 1 .. 4 * m
    <3>1. n <= 4 * m /\ n <= 62
      BY <2>4, SMT
    <3>2. Octets(s)[n] = EndedOctet(g, e, n)
      BY <2>4
    <3> QED BY <2>1, <2>2, <3>1, <3>2 DEF EndedOctet
  <2>5. CASE ~(n <= 4 * m)
    <3>1. ~(n <= e) /\ n # e + 1
      BY <1>1, <2>5, SMT
    <3>2. CASE n <= 60
      <4>1. n <= 62
        BY <3>2, SMT
      <4> QED BY <2>1, <2>2, <2>5, <3>1, <3>2, <4>1
    <3>3. CASE ~(n <= 60)
      <4>1. n - 60 = 1 \/ n - 60 = 2 \/ n - 60 = 3 \/ n - 60 = 4
        BY <3>3, SMT
      <4>2. /\ n - 60 = 3 <=> n = 63
            /\ n - 60 = 4 <=> n = 64
            /\ n <= 62 <=> (n - 60 = 1 \/ n - 60 = 2)
        BY <3>3, SMT
      <4>3. t[n] = c[n - 60]
        BY <2>2, <2>5, <3>3
      <4>4. p[n] = IF n <= 62 THEN 0 ELSE IF n = 63 THEN hi ELSE lo
        BY <2>1, <3>1
      <4>5. CASE n <= 62
        <5>1. c[n - 60] = 0
          BY <1>2, <4>2, <4>5
        <5> QED BY <4>3, <4>4, <4>5, <5>1
      <4>6. CASE n = 63
        <5>1. ~(n <= 62) /\ c[n - 60] = hi
          BY <1>2, <4>2, <4>6
        <5> QED BY <4>3, <4>4, <4>6, <5>1
      <4>7. CASE n = 64
        <5>1. ~(n <= 62) /\ n # 63 /\ c[n - 60] = lo
          BY <1>2, <4>2, <4>7
        <5> QED BY <4>3, <4>4, <5>1
      <4>8. n <= 62 \/ n = 63 \/ n = 64
        BY SMT
      <4> QED BY <4>5, <4>6, <4>7, <4>8
    <3> QED BY <3>2, <3>3
  <2> QED BY <2>3, <2>4, <2>5
<1> HIDE DEF t
<1>9. t = p
  <2>1. t \in Seq(Int) /\ p \in Seq(Int)
    BY <1>4, <1>6
  <2>2. Len(t) = Len(p)
    BY <1>4, <1>6, <1>7
  <2>3. \A n \in 1 .. Len(t) : t[n] = p[n]
    BY <1>4, <1>8
  <2> QED BY <2>1, <2>2, <2>3, SeqEqual
<1> QED BY <1>9 DEF t, p, b, c

\* The octets of words moved on by a byte, behind which is the end mark.
LEMMA MovedEndedOctets ==
  ASSUME NEW f \in Word4, NEW ws \in Seq(Word4), NEW m \in Nat \ {0}, Len(ws) = m
  PROVE  LET s == Moved(f, ws \o <<EndMark>>)
             g == <<f[4]>> \o Octets(ws)
         IN  /\ s \in Seq(Word4) /\ Len(s) = m + 1
             /\ g \in Seq(Int) /\ Len(g) = 4 * m + 1
             /\ \A n \in 1 .. 4 * m + 4 : Octets(s)[n] = EndedOctet(g, 4 * m + 1, n)
<1> DEFINE o == Octets(ws)
           r == ws \o <<EndMark>>
           s == Moved(f, r)
           g == <<f[4]>> \o o
<1>1. m \in Nat /\ f[4] \in Int /\ 4 * m \in Nat /\ 4 * (m + 1) = 4 * m + 4
  BY SMT DEF Word4
<1>2. o \in Seq(Int) /\ Len(o) = 4 * m
  <2>1. Len(ws) # 0
    BY <1>1
  <2> QED BY <2>1, OctetsAre
<1>3. /\ r \in Seq(Word4) /\ Len(r) = m + 1
      /\ \A n \in 1 .. 4 * m + 4 :
           Octets(r)[n] = IF n <= 4 * m THEN o[n] ELSE IF n = 4 * m + 1 THEN 128 ELSE 0
  BY <1>1, EndedOctets
<1> HIDE DEF o, r
<1>4. /\ s \in Seq(Word4) /\ Len(s) = m + 1
      /\ \A n \in 1 .. 4 * (m + 1) : Octets(s)[n] = IF n = 1 THEN f[4] ELSE Octets(r)[n - 1]
  <2>1. Len(r) # 0
    BY <1>1, <1>3, SMT
  <2> QED BY <1>3, <2>1, MovedOctets
<1> HIDE DEF s
<1>5. /\ g \in Seq(Int) /\ Len(g) = 4 * m + 1 /\ g[1] = f[4]
      /\ \A n \in 2 .. 4 * m + 1 : g[n] = o[n - 1]
  BY <1>1, <1>2, BehindOctet
<1> HIDE DEF g
<1>6. ASSUME NEW n \in 1 .. 4 * m + 4
      PROVE  Octets(s)[n] = EndedOctet(g, 4 * m + 1, n)
  <2>1. Octets(s)[n] = IF n = 1 THEN f[4] ELSE Octets(r)[n - 1]
    BY <1>1, <1>4
  <2>2. CASE n = 1
    <3>1. n <= 4 * m + 1
      BY <2>2, SMT
    <3> QED BY <1>5, <2>1, <2>2, <3>1 DEF EndedOctet
  <2>3. CASE n # 1
    <3>1. /\ n - 1 \in 1 .. 4 * m + 4
          /\ n - 1 <= 4 * m <=> n <= 4 * m + 1
          /\ n - 1 = 4 * m + 1 <=> n = (4 * m + 1) + 1
          /\ n <= 4 * m + 1 => n \in 2 .. 4 * m + 1
      BY ONLY n \in 1 .. 4 * m + 4, m \in Nat, <2>3, SMT
    <3>2. Octets(r)[n - 1] = IF n - 1 <= 4 * m THEN o[n - 1] ELSE IF n - 1 = 4 * m + 1 THEN 128 ELSE 0
      BY <1>3, <3>1
    <3>3. n <= 4 * m + 1 => g[n] = o[n - 1]
      BY <1>5, <3>1
    <3> QED BY <2>1, <2>3, <3>1, <3>2, <3>3 DEF EndedOctet
  <2> QED BY <2>2, <2>3
<1> QED BY <1>4, <1>5, <1>6 DEF g, s, r, o

\* Up to 13 words moved on by a byte, the end mark and the length are one block.
LEMMA MovedBlockPadded ==
  ASSUME NEW f \in Word4, NEW ws \in Seq(Word4), NEW m \in 1 .. 13, Len(ws) = m
  PROVE  Octets(Block(Moved(f, ws \o <<EndMark>>), Num((4 * m + 1) * 8)))
           = Padded(<<f[4]>> \o Octets(ws))
<1> DEFINE s == Moved(f, ws \o <<EndMark>>)
           g == <<f[4]>> \o Octets(ws)
           e == 4 * m + 1
           w == m + 1
<1>1. /\ m \in Nat \ {0} /\ e \in 0 .. 55 /\ e + 1 <= 4 * w /\ w \in 1 .. 14
      /\ 4 * w = 4 * m + 4
  BY SMT
<1>2. /\ s \in Seq(Word4) /\ Len(s) = w
      /\ g \in Seq(Int) /\ Len(g) = e
      /\ \A n \in 1 .. 4 * m + 4 : Octets(s)[n] = EndedOctet(g, e, n)
  BY <1>1, MovedEndedOctets
<1>3. \A n \in 1 .. 4 * w : Octets(s)[n] = EndedOctet(g, e, n)
  BY <1>1, <1>2
<1> HIDE DEF s, g, e, w
<1>4. Octets(Block(s, Num(e * 8))) = Padded(g)
  <2>1. /\ s \in Seq(Word4) /\ w \in 1 .. 14 /\ Len(s) = w
        /\ g \in Seq(Int) /\ e \in 0 .. 55 /\ Len(g) = e /\ e + 1 <= 4 * w
    BY <1>1, <1>2
  <2> QED BY ONLY <1>3, <2>1, BlockIsPadded
<1> QED BY <1>4 DEF e, s, g

\* The same of words that are not moved.
LEMMA BlockPadded ==
  ASSUME NEW ws \in Seq(Word4), NEW m \in 1 .. 13, Len(ws) = m
  PROVE  Octets(Block(ws \o <<EndMark>>, Num((4 * m) * 8))) = Padded(Octets(ws))
<1> DEFINE o == Octets(ws)
           r == ws \o <<EndMark>>
<1>1. /\ m \in Nat \ {0} /\ 4 * m \in 0 .. 55 /\ (4 * m) + 1 <= 4 * (m + 1) /\ m + 1 \in 1 .. 14
      /\ 4 * (m + 1) = 4 * m + 4
  BY SMT
<1>2. o \in Seq(Int) /\ Len(o) = 4 * m
  <2>1. Len(ws) # 0
    BY <1>1
  <2> QED BY <2>1, OctetsAre
<1>3. /\ r \in Seq(Word4) /\ Len(r) = m + 1
      /\ \A n \in 1 .. 4 * m + 4 :
           Octets(r)[n] = IF n <= 4 * m THEN o[n] ELSE IF n = 4 * m + 1 THEN 128 ELSE 0
  BY <1>1, EndedOctets
<1> HIDE DEF o, r
<1> DEFINE e == 4 * m
           w == m + 1
<1>4. /\ w \in 1 .. 14 /\ Len(r) = w /\ e \in 0 .. 55 /\ Len(o) = e /\ e + 1 <= 4 * w
      /\ \A n \in 1 .. 4 * w : Octets(r)[n] = EndedOctet(o, e, n)
  <2>1. \A n \in 1 .. 4 * m + 4 : Octets(r)[n] = EndedOctet(o, 4 * m, n)
    BY <1>3 DEF EndedOctet
  <2> QED BY <1>1, <1>2, <1>3, <2>1
<1> HIDE DEF e, w
<1>5. Octets(Block(r, Num(e * 8))) = Padded(o)
  <2>1. r \in Seq(Word4) /\ o \in Seq(Int)
    BY <1>2, <1>3
  <2> QED BY ONLY <1>4, <2>1, BlockIsPadded
<1> QED BY <1>5 DEF e, r, o

\* The elements of two sequences, one behind the other.
LEMMA TwoParts ==
  ASSUME NEW a \in Seq(Int), NEW b \in Seq(Int)
  PROVE  /\ a \o b \in Seq(Int) /\ Len(a \o b) = Len(a) + Len(b)
         /\ \A n \in 1 .. Len(a) : (a \o b)[n] = a[n]
         /\ \A n \in 1 .. Len(b) : (a \o b)[Len(a) + n] = b[n]
<1> DEFINE t == a \o b
           la == Len(a)
           lb == Len(b)
<1>1. la \in Nat /\ lb \in Nat
  BY LenProperties
<1>2. /\ t \in Seq(Int) /\ Len(t) = la + lb
      /\ \A n \in 1 .. la + lb : t[n] = IF n <= la THEN a[n] ELSE b[n - la]
  BY ConcatProperties
<1> HIDE DEF t, la, lb
<1>3. /\ \A n \in 1 .. la : n \in 1 .. la + lb /\ n <= la
      /\ \A n \in 1 .. lb : la + n \in 1 .. la + lb /\ ~(la + n <= la) /\ (la + n) - la = n
  BY ONLY <1>1, SMT
<1>4. /\ \A n \in 1 .. la : t[n] = a[n]
      /\ \A n \in 1 .. lb : t[la + n] = b[n]
  <2>1. ASSUME NEW n \in 1 .. la
        PROVE  t[n] = a[n]
    BY <1>2, <1>3
  <2>2. ASSUME NEW n \in 1 .. lb
        PROVE  t[la + n] = b[n]
    <3> DEFINE j == la + n
    <3>1. j \in 1 .. la + lb /\ ~(j <= la) /\ j - la = n
      BY <1>3
    <3> HIDE DEF j
    <3>2. t[j] = b[n]
      BY <1>2, <3>1
    <3> QED BY <3>2 DEF j
  <2> QED BY <2>1, <2>2
<1> QED BY <1>2, <1>4 DEF t, la, lb

\* The 17 words of a key that is not compressed, in two blocks: a full one, and
\* the last word, zeros and the length.
LEMMA TwoBlocksPadded ==
  ASSUME NEW s \in Seq(Word4), Len(s) = 17, NEW g \in Seq(Int), Len(g) = 65,
         \A n \in 1 .. 68 : Octets(s)[n] = EndedOctet(g, 65, n)
  PROVE  Octets(SubSeq(s, 1, 16)) \o Octets(Block(<<s[17]>>, Num(65 * 8))) = Padded(g)
<1> DEFINE front == SubSeq(s, 1, 16)
           last == <<s[17]>>
           c == Num(65 * 8)
           b == Block(last, c)
           o1 == Octets(front)
           o2 == Octets(last)
           ob == Octets(b)
           t == o1 \o ob
           p == Padded(g)
           hi == (8 * 65) \div 256
           lo == (8 * 65) % 256
<1>1. front \in Seq(Word4) /\ Len(front) = 16
  <2>1. \A w \in 1 .. 16 : s[w] \in Word4
    <3>1. \A w \in 1 .. 16 : w \in 1 .. Len(s)
      BY SMT
    <3> QED BY <3>1, ElementOfSeq
  <2>2. front \in Seq(Word4) /\ Len(front) = IF 1 <= 16 THEN 16 - 1 + 1 ELSE 0
    BY <2>1, SubSeqProperties
  <2> HIDE DEF front
  <2> QED BY <2>2, SMT
<1>2. last \in Seq(Word4) /\ Len(last) = 1
  <2>1. 17 \in 1 .. Len(s)
    BY SMT
  <2>2. s[17] \in Word4
    BY <2>1, ElementOfSeq
  <2> QED BY <2>2, OneElement
<1>3. s = front \o last
  <2>1. 1 \in 1 .. Len(s) /\ 17 \in 1 .. Len(s)
    BY SMT
  <2>2. SubSeq(s, 1, 17) = SubSeq(s, 1, 17 - 1) \o <<s[17]>>
    BY <2>1, SubSeqRecursiveSecond
  <2>3. SubSeq(s, 1, 17) = s /\ 17 - 1 = 16
    BY SubSeqFull
  <2> QED BY <2>2, <2>3
<1> HIDE DEF front, last
<1>4. c \in Word4 /\ c[1] = 0 /\ c[2] = 0 /\ c[3] = hi /\ c[4] = lo
  <2>1. 65 * 8 = 8 * 65 /\ 65 * 8 \in Int
    BY SMT
  <2>2. c \in Word4
    BY <2>1, Words4
  <2>3. c[1] = 0 /\ c[2] = 0 /\ c[3] = (65 * 8) \div 256 /\ c[4] = (65 * 8) % 256
    BY <2>1, NumIs
  <2> HIDE DEF c
  <2> QED BY <2>1, <2>2, <2>3
<1> HIDE DEF c, hi, lo
<1>5. /\ b \in Seq(Word4) /\ Len(b) = 16
      /\ \A n \in 1 .. 64 : Octets(b)[n] = IF n <= 4 * Len(last) THEN o2[n]
                                           ELSE IF n <= 60 THEN 0 ELSE c[n - 60]
  <2>1. Len(last) \in 1 .. 15
    BY <1>2, SMT
  <2> QED BY <1>2, <1>4, <2>1, BlockOctets
<1> HIDE DEF b
<1>6. Len(front) # 0 /\ Len(last) # 0 /\ Len(b) # 0 /\ 4 * 16 = 64 /\ 4 * 1 = 4 /\ 64 + 64 = 128 /\ 64 + 4 = 68
  BY <1>1, <1>2, <1>5, SMT
<1>7. /\ o1 \in Seq(Int) /\ Len(o1) = 64
      /\ o2 \in Seq(Int) /\ Len(o2) = 4
      /\ ob \in Seq(Int) /\ Len(ob) = 64
  <2>1. o1 \in Seq(Int) /\ Len(o1) = 4 * Len(front)
    BY <1>1, <1>6, OctetsAre
  <2>2. o2 \in Seq(Int) /\ Len(o2) = 4 * Len(last)
    BY <1>2, <1>6, OctetsAre
  <2>3. ob \in Seq(Int) /\ Len(ob) = 4 * Len(b)
    BY <1>5, <1>6, OctetsAre
  <2> HIDE DEF o1, o2, ob
  <2> QED BY <1>1, <1>2, <1>5, <1>6, <2>1, <2>2, <2>3
<1>8. Octets(s) = o1 \o o2
  BY <1>1, <1>2, <1>3, <1>6, OctetsJoined
<1> HIDE DEF o1, o2
<1>9. /\ \A n \in 1 .. 64 : EndedOctet(g, 65, n) = o1[n]
      /\ \A n \in 1 .. 4 : EndedOctet(g, 65, 64 + n) = o2[n]
  <2> DEFINE h == o1 \o o2
  <2>1. /\ \A n \in 1 .. 64 : h[n] = o1[n]
        /\ \A n \in 1 .. 4 : h[64 + n] = o2[n]
    <3>1. o1 \in Seq(Int) /\ o2 \in Seq(Int) /\ Len(o1) = 64 /\ Len(o2) = 4
      BY <1>7
    <3>2. /\ \A n \in 1 .. Len(o1) : h[n] = o1[n]
          /\ \A n \in 1 .. Len(o2) : h[Len(o1) + n] = o2[n]
      <4>1. o1 \in Seq(Int) /\ o2 \in Seq(Int)
        BY <1>7
      <4> QED BY ONLY <4>1, TwoParts DEF h
    <3> HIDE DEF h
    <3> QED BY <3>1, <3>2
  <2>2. Octets(s) = h
    BY <1>8
  <2> HIDE DEF h
  <2>3. /\ \A n \in 1 .. 64 : n \in 1 .. 68
        /\ \A n \in 1 .. 4 : 64 + n \in 1 .. 68
    BY ONLY SMT
  <2> QED BY <2>1, <2>2, <2>3
<1>10. /\ \A n \in 1 .. 4 : ob[n] = o2[n]
       /\ \A n \in 5 .. 60 : ob[n] = 0
       /\ \A n \in 1 .. 4 : ob[60 + n] = c[n]
  <2>1. 4 * Len(last) = 4
    BY <1>2, <1>6
  <2>2. \A n \in 1 .. 64 : ob[n] = IF n <= 4 THEN o2[n] ELSE IF n <= 60 THEN 0 ELSE c[n - 60]
    BY <1>5, <2>1
  <2> HIDE DEF ob
  <2>3. /\ \A n \in 1 .. 4 : n \in 1 .. 64 /\ n <= 4
        /\ \A n \in 5 .. 60 : n \in 1 .. 64 /\ ~(n <= 4) /\ n <= 60
        /\ \A n \in 1 .. 4 : 60 + n \in 1 .. 64 /\ ~(60 + n <= 4) /\ ~(60 + n <= 60)
                             /\ (60 + n) - 60 = n
    BY ONLY SMT
  <2> QED BY <2>2, <2>3
<1> HIDE DEF ob
<1>11. /\ t \in Seq(Int) /\ Len(t) = 128
       /\ \A n \in 1 .. 64 : t[n] = o1[n]
       /\ \A n \in 1 .. 64 : t[64 + n] = ob[n]
  <2>1. o1 \in Seq(Int) /\ ob \in Seq(Int) /\ Len(o1) = 64 /\ Len(ob) = 64
    BY <1>7
  <2>2. /\ t \in Seq(Int) /\ Len(t) = 64 + 64
        /\ \A n \in 1 .. 64 : t[n] = o1[n]
        /\ \A n \in 1 .. 64 : t[64 + n] = ob[n]
    <3>1. /\ t \in Seq(Int) /\ Len(t) = Len(o1) + Len(ob)
          /\ \A n \in 1 .. Len(o1) : t[n] = o1[n]
          /\ \A n \in 1 .. Len(ob) : t[Len(o1) + n] = ob[n]
      <4>1. o1 \in Seq(Int) /\ ob \in Seq(Int)
        BY <1>7
      <4> QED BY ONLY <4>1, TwoParts DEF t
    <3> HIDE DEF t
    <3> QED BY <2>1, <3>1
  <2> HIDE DEF t
  <2> QED BY <1>6, <2>2
<1> HIDE DEF t
<1>12. /\ p \in Seq(Int) /\ Len(p) = 128
       /\ \A n \in 1 .. 128 : p[n] = PaddedOctet(g, 65, 54, n)
  <2>1. 65 \in Nat /\ 54 \in Nat /\ 54 = PadLength(65)
    BY PadLengthIs
  <2>2. /\ p \in Seq(Int) /\ Len(p) = 65 + 54 + 9
        /\ \A n \in 1 .. 65 + 54 + 9 : p[n] = PaddedOctet(g, 65, 54, n)
    BY <2>1, PaddedIs
  <2>3. 65 + 54 + 9 = 128
    BY SMT
  <2> HIDE DEF p
  <2> QED BY <2>2, <2>3
<1> HIDE DEF p
<1>13. ASSUME NEW n \in 1 .. 128
       PROVE  t[n] = p[n]
  <2>1. p[n] = IF n <= 65 THEN g[n] ELSE IF n = 66 THEN 128
               ELSE IF n <= 126 THEN 0 ELSE IF n = 127 THEN hi ELSE lo
    <3>1. 65 + 1 = 66 /\ 65 + 54 + 7 = 126 /\ 65 + 54 + 8 = 127
      BY SMT
    <3>2. p[n] = PaddedOctet(g, 65, 54, n)
      BY <1>12
    <3> QED BY ONLY <3>1, <3>2 DEF PaddedOctet, hi, lo
  <2>2. 65 + 1 = 66 /\ (n \in 1 .. 64 \/ n \in 65 .. 68 \/ n \in 69 .. 124 \/ n \in 125 .. 128)
    BY ONLY n \in 1 .. 128, SMT
  <2>3. CASE n \in 1 .. 64
    <3>1. n <= 65
      BY ONLY <2>3, SMT
    <3>2. t[n] = EndedOctet(g, 65, n)
      BY ONLY <1>9, <1>11, <2>3, Zenon
    <3> QED BY <2>1, <3>1, <3>2 DEF EndedOctet
  <2>4. CASE n \in 65 .. 68
    <3> DEFINE j == n - 64
    <3>1. j \in 1 .. 4 /\ j \in 1 .. 64 /\ 64 + j = n /\ n <= 126
      BY ONLY <2>4, SMT
    <3> HIDE DEF j
    <3>2. t[64 + j] = ob[j] /\ ob[j] = o2[j] /\ EndedOctet(g, 65, 64 + j) = o2[j]
      BY <1>9, <1>10, <1>11, <3>1
    <3>3. t[n] = EndedOctet(g, 65, n)
      BY <3>1, <3>2
    <3> QED BY <2>1, <2>2, <3>1, <3>3 DEF EndedOctet
  <2>5. CASE n \in 69 .. 124
    <3> DEFINE j == n - 64
    <3>1. j \in 5 .. 60 /\ j \in 1 .. 64 /\ 64 + j = n /\ n <= 126 /\ ~(n <= 65) /\ n # 66
      BY ONLY <2>5, SMT
    <3> HIDE DEF j
    <3>2. t[64 + j] = ob[j] /\ ob[j] = 0
      BY <1>10, <1>11, <3>1
    <3> QED BY <2>1, <3>1, <3>2
  <2>6. CASE n \in 125 .. 128
    <3> DEFINE j == n - 124
    <3>1. /\ j \in 1 .. 4 /\ 60 + j \in 1 .. 64 /\ 64 + (60 + j) = n /\ ~(n <= 65) /\ n # 66
          /\ j = 1 \/ j = 2 \/ j = 3 \/ j = 4
          /\ n <= 126 <=> (j = 1 \/ j = 2)
          /\ n = 127 <=> j = 3
      BY ONLY <2>6, SMT
    <3> HIDE DEF j
    <3>2. t[64 + (60 + j)] = ob[60 + j] /\ ob[60 + j] = c[j]
      BY <1>10, <1>11, <3>1
    <3>3. t[n] = c[j] /\ p[n] = IF n <= 126 THEN 0 ELSE IF n = 127 THEN hi ELSE lo
      BY <2>1, <3>1, <3>2
    <3>4. CASE j = 1 \/ j = 2
      BY <1>4, <3>1, <3>3, <3>4
    <3>5. CASE j = 3
      BY <1>4, <3>1, <3>3, <3>5
    <3>6. CASE j = 4
      BY <1>4, <3>1, <3>3, <3>6
    <3> QED BY <3>1, <3>4, <3>5, <3>6
  <2> QED BY <2>2, <2>3, <2>4, <2>5, <2>6
<1>14. Len(t) = Len(p) /\ \A n \in 1 .. Len(t) : t[n] = p[n]
  BY <1>11, <1>12, <1>13
<1>15. t = p
  <2>1. t \in Seq(Int) /\ p \in Seq(Int)
    BY <1>11, <1>12
  <2> QED BY <1>14, <2>1, SeqEqual
<1> QED BY <1>15 DEF t, p, ob, o1, b, c, front, last

LEMMA NamedIs ==
  ASSUME NEW from \in Int, NEW n \in Nat
  PROVE  Named(from, n) \in Seq(Word4) /\ Len(Named(from, n)) = n
<1>1. Named(from, n) \in [1 .. n -> Word4]
  <2>1. \A h \in 1 .. n, j \in 1 .. 4 : from + 4 * h + j \in Int
    BY SMT
  <2> QED BY <2>1 DEF Named, Word4
<1> DEFINE s == Named(from, n)
<1> HIDE DEF s
<1>2. s \in [1 .. n -> Word4]
  BY <1>1 DEF s
<1>3. s \in Seq(Word4) /\ Len(s) = n
  BY ONLY n \in Nat, <1>2, FunctionIsSeq
<1> QED BY <1>3 DEF s

LEMMA CompressedPadded ==
  ASSUME NEW x \in Seq(Word4), NEW y \in Seq(Word4), Len(x) = 8, Len(y) = 8
  PROVE  Octets(CompressedBlock(x, y)) = Padded(<<IF y[8][4] % 2 = 0 THEN 2 ELSE 3>> \o Octets(x))
<1> DEFINE a == IF y[8][4] % 2 = 1 THEN 3 ELSE 2
           f == Num(a)
<1>1. a = IF y[8][4] % 2 = 0 THEN 2 ELSE 3
  <2>1. 8 \in 1 .. Len(y)
    BY SMT
  <2>2. y[8] \in Word4
    BY <2>1, ElementOfSeq
  <2> DEFINE z == y[8][4]
  <2>3. z \in Int
    BY <2>2, SMT DEF Word4
  <2> HIDE DEF z
  <2>4. z % 2 = 0 \/ z % 2 = 1
    BY <2>3, SMT
  <2> QED BY <2>4 DEF z
<1>2. a \in Int /\ a % 256 = a
  <2>1. 2 \in Int /\ 2 % 256 = 2 /\ 3 \in Int /\ 3 % 256 = 3
    BY SMT
  <2> QED BY <2>1
<1> HIDE DEF a
<1>3. f \in Word4 /\ f[4] = a
  BY <1>2, NumIs, Words4
<1> HIDE DEF f
<1>4. 8 \in 1 .. 13 /\ 4 * 8 + 1 = 33
  BY SMT
<1>5. Octets(Block(Moved(f, x \o <<EndMark>>), Num((4 * 8 + 1) * 8))) = Padded(<<f[4]>> \o Octets(x))
  BY <1>3, <1>4, MovedBlockPadded
<1> QED BY <1>1, <1>3, <1>4, <1>5 DEF CompressedBlock, f, a

LEMMA UncompressedPadded ==
  ASSUME NEW x \in Seq(Word4), NEW y \in Seq(Word4), Len(x) = 8, Len(y) = 8
  PROVE  Octets(UncompressedBlocks(x, y)[1]) \o Octets(UncompressedBlocks(x, y)[2])
           = Padded(<<4>> \o Octets(x) \o Octets(y))
<1> DEFINE z == x \o y
           f == Num(4)
           s == Moved(f, z \o <<EndMark>>)
           g == <<f[4]>> \o Octets(z)
<1>1. z \in Seq(Word4) /\ Len(z) = 16
  <2>1. z \in Seq(Word4) /\ Len(z) = Len(x) + Len(y)
    BY ConcatProperties
  <2> HIDE DEF z
  <2> QED BY <2>1, SMT
<1>2. Octets(z) = Octets(x) \o Octets(y)
  <2>1. Len(x) # 0 /\ Len(y) # 0
    BY SMT
  <2> QED BY <2>1, OctetsJoined
<1>3. f \in Word4 /\ f[4] = 4
  <2>1. 4 \in Int /\ 4 % 256 = 4
    BY SMT
  <2> QED BY <2>1, NumIs, Words4
<1> HIDE DEF z, f
<1>4. /\ s \in Seq(Word4) /\ Len(s) = 17
      /\ g \in Seq(Int) /\ Len(g) = 65
      /\ \A n \in 1 .. 68 : Octets(s)[n] = EndedOctet(g, 65, n)
  <2>1. 16 \in Nat \ {0} /\ 16 + 1 = 17 /\ 4 * 16 + 1 = 65 /\ 4 * 16 + 4 = 68
    BY SMT
  <2>2. /\ s \in Seq(Word4) /\ Len(s) = 16 + 1
        /\ g \in Seq(Int) /\ Len(g) = 4 * 16 + 1
        /\ \A n \in 1 .. 4 * 16 + 4 : Octets(s)[n] = EndedOctet(g, 4 * 16 + 1, n)
    BY <1>1, <1>3, <2>1, MovedEndedOctets
  <2> HIDE DEF s, g
  <2> QED BY <2>1, <2>2
<1>5. g = <<4>> \o Octets(x) \o Octets(y)
  <2> DEFINE a == Octets(x)
             c == Octets(y)
  <2>1. Len(x) # 0 /\ Len(y) # 0
    BY SMT
  <2>2. a \in Seq(Int) /\ c \in Seq(Int)
    BY <2>1, OctetsAre
  <2>3. <<4>> \in Seq(Int)
    BY OneElement
  <2> HIDE DEF a, c
  <2>4. (<<4>> \o a) \o c = <<4>> \o (a \o c)
    BY <2>2, <2>3, ConcatAssociative
  <2> QED BY <1>2, <1>3, <2>4 DEF a, c
<1> HIDE DEF g
<1>6. UncompressedBlocks(x, y) = <<SubSeq(s, 1, 16), Block(<<s[17]>>, Num(65 * 8))>>
  BY DEF UncompressedBlocks, s, z, f
<1> HIDE DEF s
<1>7. Octets(SubSeq(s, 1, 16)) \o Octets(Block(<<s[17]>>, Num(65 * 8))) = Padded(g)
  BY <1>4, TwoBlocksPadded
<1> DEFINE b1 == SubSeq(s, 1, 16)
           b2 == Block(<<s[17]>>, Num(65 * 8))
<1>8. UncompressedBlocks(x, y) = <<b1, b2>> /\ Octets(b1) \o Octets(b2) = Padded(g)
  BY <1>6, <1>7
<1> HIDE DEF b1, b2
<1>9. UncompressedBlocks(x, y)[1] = b1 /\ UncompressedBlocks(x, y)[2] = b2
  BY <1>8
<1> QED BY <1>5, <1>8, <1>9

LEMMA ChecksumPadded ==
  ASSUME NEW hash \in Seq(Word4), NEW digest \in Seq(Word4), Len(hash) = 5, Len(digest) = 8
  PROVE  /\ Octets(ChecksumBlock(hash)) = Padded(<<0>> \o Octets(hash))
         /\ Octets(ChecksumBlock2(digest)) = Padded(Octets(digest))
<1>1. Octets(ChecksumBlock(hash)) = Padded(<<0>> \o Octets(hash))
  <2>1. Zero \in Word4 /\ Zero[4] = 0
    BY Words4 DEF Zero
  <2>2. 5 \in 1 .. 13 /\ 4 * 5 + 1 = 21
    BY SMT
  <2>3. Octets(Block(Moved(Zero, hash \o <<EndMark>>), Num((4 * 5 + 1) * 8)))
          = Padded(<<Zero[4]>> \o Octets(hash))
    BY <2>1, <2>2, MovedBlockPadded
  <2> QED BY <2>1, <2>2, <2>3 DEF ChecksumBlock
<1>2. Octets(ChecksumBlock2(digest)) = Padded(Octets(digest))
  <2>1. 8 \in 1 .. 13 /\ 4 * 8 = 32
    BY SMT
  <2>2. Octets(Block(digest \o <<EndMark>>, Num((4 * 8) * 8))) = Padded(Octets(digest))
    BY <2>1, BlockPadded
  <2> QED BY <2>1, <2>2 DEF ChecksumBlock2
<1> QED BY <1>1, <1>2

LEMMA TwoWords ==
  ASSUME NEW a \in Word4, NEW b \in Word4
  PROVE  <<a, b>> \in Seq(Word4) /\ Len(<<a, b>>) = 2 /\ <<a, b>>[1] = a /\ <<a, b>>[2] = b
OBVIOUS

LEMMA AddressPadded ==
  ASSUME NEW hash \in Seq(Word4), Len(hash) = 5, NEW c \in Word4
  PROVE  Octets(AddressWords(hash, c)) = Zeros(8) \o Octets(hash \o <<c>>)
<1> DEFINE z == <<Zero, Zero>>
           l == <<c>>
           h == hash \o l
<1>1. z \in Seq(Word4) /\ Len(z) = 2 /\ z[1] = Zero /\ z[2] = Zero
  BY Words4, TwoWords
<1>2. l \in Seq(Word4) /\ Len(l) = 1
  BY OneElement
<1> HIDE DEF z, l
<1>3. h \in Seq(Word4) /\ Len(h) # 0
  <2>1. h \in Seq(Word4) /\ Len(h) = Len(hash) + Len(l)
    BY <1>2, ConcatProperties
  <2> HIDE DEF h
  <2> QED BY <1>2, <2>1, SMT
<1>4. (z \o hash) \o l = z \o h
  <2>1. z \in Seq(Word4) /\ hash \in Seq(Word4) /\ l \in Seq(Word4)
    BY <1>1, <1>2
  <2> QED BY ONLY <2>1, ConcatAssociative DEF h
<1> HIDE DEF h
<1>5. Octets(z \o h) = Octets(z) \o Octets(h)
  <2>1. Len(z) # 0
    BY <1>1, SMT
  <2> QED BY <1>1, <1>3, <2>1, OctetsJoined
<1>6. Octets(z) = Zeros(8)
  <2> DEFINE o == Octets(z)
  <2>1. o \in Seq(Int) /\ Len(o) = 8
    <3>1. Len(z) # 0 /\ 4 * 2 = 8
      BY <1>1, SMT
    <3>2. o \in Seq(Int) /\ Len(o) = 4 * Len(z)
      BY <1>1, <3>1, OctetsAre
    <3> HIDE DEF o
    <3> QED BY <1>1, <3>1, <3>2
  <2>2. Zeros(8) \in Seq(Int) /\ Len(Zeros(8)) = 8 /\ \A j \in 1 .. 8 : Zeros(8)[j] = 0
    BY ZerosAre
  <2>3. ASSUME NEW n \in 1 .. 8
        PROVE  o[n] = Zeros(8)[n]
    <3> DEFINE w == ((n - 1) \div 4) + 1
               j == ((n - 1) % 4) + 1
    <3>1. Len(z) # 0 /\ n \in 1 .. 4 * Len(z)
      BY <1>1, SMT
    <3>2. w \in 1 .. Len(z) /\ j \in 1 .. 4 /\ o[n] = z[w][j]
      BY <1>1, <3>1, OctetAt
    <3> HIDE DEF w, j, o
    <3>3. w = 1 \/ w = 2
      BY <1>1, <3>2, SMT
    <3>4. z[w] = Zero
      BY <1>1, <3>3
    <3>5. Zero[j] = 0
      BY <3>2, SMT DEF Zero
    <3> QED BY <2>2, <3>2, <3>4, <3>5
  <2> HIDE DEF o
  <2>4. Len(o) = Len(Zeros(8)) /\ \A n \in 1 .. Len(o) : o[n] = Zeros(8)[n]
    BY <2>1, <2>2, <2>3
  <2>5. o \in Seq(Int) /\ Zeros(8) \in Seq(Int)
    BY <2>1, <2>2
  <2>6. o = Zeros(8)
    BY <2>4, <2>5, SeqEqual
  <2> QED BY <2>6 DEF o
<1>7. AddressWords(hash, c) = (z \o hash) \o l
  BY DEF AddressWords, z, l
<1> QED BY <1>4, <1>5, <1>6, <1>7 DEF h, l

LEMMA ReverseIs ==
  ASSUME NEW w \in Word4
  PROVE  Reverse(w) \in Word4 /\ Reverse(Reverse(w)) = w
         /\ \A j \in 1 .. 4 : Reverse(w)[j] = w[5 - j]
<1> DEFINE r == Reverse(w)
<1>1. /\ \A j \in 1 .. 4 : (4 - j) + 1 = 5 - j /\ 5 - j \in 1 .. 4 /\ 5 - (5 - j) = j
  BY SMT
<1>2. ASSUME NEW back \in Word4
      PROVE  /\ Reverse(back) \in Word4 /\ \A j \in 1 .. 4 : Reverse(back)[j] = back[5 - j]
  <2>1. Reverse(back) = [j \in 1 .. 4 |-> back[(4 - j) + 1]]
    <3>1. Len(back) = 4
      BY WordsAreSequences
    <3> QED BY <3>1 DEF Reverse
  <2>2. \A j \in 1 .. 4 : back[(4 - j) + 1] = back[5 - j] /\ back[5 - j] \in Int
    BY <1>1 DEF Word4
  <2> DEFINE z == Reverse(back)
  <2>3. z = [j \in 1 .. 4 |-> back[(4 - j) + 1]]
    BY <2>1
  <2> HIDE DEF z
  <2>4. z \in Word4 /\ \A j \in 1 .. 4 : z[j] = back[5 - j]
    BY <2>2, <2>3 DEF Word4
  <2> QED BY <2>4 DEF z
<1>3. /\ r \in Word4 /\ \A j \in 1 .. 4 : r[j] = w[5 - j]
  BY <1>2
<1> HIDE DEF r
<1>4. Reverse(r) \in Word4 /\ \A j \in 1 .. 4 : Reverse(r)[j] = r[5 - j]
  BY <1>2, <1>3
<1>5. \A j \in 1 .. 4 : Reverse(r)[j] = w[j]
  BY <1>1, <1>3, <1>4
<1> DEFINE q == Reverse(r)
<1>6. q \in Word4 /\ \A j \in 1 .. 4 : q[j] = w[j]
  BY <1>4, <1>5
<1> HIDE DEF q
<1>7. q = w
  BY <1>6 DEF Word4
<1> QED BY <1>3, <1>7 DEF q, r

\* The padding of RIPEMD-160 of 32 octets, octet by octet.
LEMMA PaddedRipemdIs ==
  ASSUME NEW o \in Seq(Int), Len(o) = 32
  PROVE  /\ PaddedRipemd(o) \in Seq(Int) /\ Len(PaddedRipemd(o)) = 64
         /\ \A n \in 1 .. 64 :
              PaddedRipemd(o)[n] = IF n <= 32 THEN o[n] ELSE IF n = 33 THEN 128
                                   ELSE IF n = 58 THEN 1 ELSE 0
<1> DEFINE m == <<128>>
           z1 == Zeros(23)
           l == <<0, 1>>
           z2 == Zeros(6)
           t1 == o \o m
           t2 == t1 \o z1
           t3 == t2 \o l
           t4 == t3 \o z2
<1>1. PadLength(32) = 23 /\ 8 * 32 = 256 /\ 256 % 256 = 0 /\ 256 \div 256 = 1
  <2>1. 32 \in Nat /\ 32 <= 55 /\ 55 - 32 = 23
    BY SMT
  <2>2. PadLength(32) = 23
    BY <2>1, PadLengthIs
  <2> QED BY <2>2, SMT
<1>2. PaddedRipemd(o) = t4
  BY <1>1 DEF PaddedRipemd
<1>3. m \in Seq(Int) /\ Len(m) = 1 /\ m[1] = 128
  BY OneElement
<1>4. /\ z1 \in Seq(Int) /\ Len(z1) = 23 /\ \A j \in 1 .. 23 : z1[j] = 0
      /\ z2 \in Seq(Int) /\ Len(z2) = 6 /\ \A j \in 1 .. 6 : z2[j] = 0
  BY ZerosAre
<1>5. l \in Seq(Int) /\ Len(l) = 2 /\ l[1] = 0 /\ l[2] = 1
  BY TwoElements
<1> HIDE DEF m, z1, l, z2
<1>6. /\ t1 \in Seq(Int) /\ Len(t1) = 33
      /\ \A n \in 1 .. 33 : t1[n] = IF n <= 32 THEN o[n] ELSE m[n - 32]
  <2>1. o \in Seq(Int) /\ m \in Seq(Int)
    BY <1>3
  <2>2. /\ t1 \in Seq(Int) /\ Len(t1) = Len(o) + Len(m)
        /\ \A n \in 1 .. Len(o) + Len(m) : t1[n] = IF n <= Len(o) THEN o[n] ELSE m[n - Len(o)]
    BY ONLY <2>1, ConcatProperties DEF t1
  <2>3. 32 + 1 = 33
    BY SMT
  <2> HIDE DEF t1
  <2> QED BY <1>3, <2>2, <2>3
<1> HIDE DEF t1
<1>7. /\ t2 \in Seq(Int) /\ Len(t2) = 56
      /\ \A n \in 1 .. 56 : t2[n] = IF n <= 33 THEN t1[n] ELSE z1[n - 33]
  <2>1. t1 \in Seq(Int) /\ z1 \in Seq(Int)
    BY <1>4, <1>6
  <2>2. /\ t2 \in Seq(Int) /\ Len(t2) = Len(t1) + Len(z1)
        /\ \A n \in 1 .. Len(t1) + Len(z1) : t2[n] = IF n <= Len(t1) THEN t1[n] ELSE z1[n - Len(t1)]
    BY ONLY <2>1, ConcatProperties DEF t2
  <2>3. 33 + 23 = 56
    BY SMT
  <2> HIDE DEF t2
  <2> QED BY <1>4, <1>6, <2>2, <2>3
<1> HIDE DEF t2
<1>8. /\ t3 \in Seq(Int) /\ Len(t3) = 58
      /\ \A n \in 1 .. 58 : t3[n] = IF n <= 56 THEN t2[n] ELSE l[n - 56]
  <2>1. t2 \in Seq(Int) /\ l \in Seq(Int)
    BY <1>5, <1>7
  <2>2. /\ t3 \in Seq(Int) /\ Len(t3) = Len(t2) + Len(l)
        /\ \A n \in 1 .. Len(t2) + Len(l) : t3[n] = IF n <= Len(t2) THEN t2[n] ELSE l[n - Len(t2)]
    BY ONLY <2>1, ConcatProperties DEF t3
  <2>3. 56 + 2 = 58
    BY SMT
  <2> HIDE DEF t3
  <2> QED BY <1>5, <1>7, <2>2, <2>3
<1> HIDE DEF t3
<1>9. /\ t4 \in Seq(Int) /\ Len(t4) = 64
      /\ \A n \in 1 .. 64 : t4[n] = IF n <= 58 THEN t3[n] ELSE z2[n - 58]
  <2>1. t3 \in Seq(Int) /\ z2 \in Seq(Int)
    BY <1>4, <1>8
  <2>2. /\ t4 \in Seq(Int) /\ Len(t4) = Len(t3) + Len(z2)
        /\ \A n \in 1 .. Len(t3) + Len(z2) : t4[n] = IF n <= Len(t3) THEN t3[n] ELSE z2[n - Len(t3)]
    BY ONLY <2>1, ConcatProperties DEF t4
  <2>3. 58 + 6 = 64
    BY SMT
  <2> HIDE DEF t4
  <2> QED BY <1>4, <1>8, <2>2, <2>3
<1> HIDE DEF t4
<1>10. ASSUME NEW n \in 1 .. 64
       PROVE  t4[n] = IF n <= 32 THEN o[n] ELSE IF n = 33 THEN 128 ELSE IF n = 58 THEN 1 ELSE 0
  <2>1. n \in 1 .. 32 \/ n = 33 \/ n \in 34 .. 56 \/ n = 57 \/ n = 58 \/ n \in 59 .. 64
    BY ONLY n \in 1 .. 64, SMT
  <2>2. CASE n \in 1 .. 32
    <3>1. n <= 32 /\ n <= 33 /\ n <= 56 /\ n <= 58 /\ n \in 1 .. 33 /\ n \in 1 .. 56 /\ n \in 1 .. 58
      BY ONLY <2>2, SMT
    <3>2. t4[n] = t3[n] /\ t3[n] = t2[n]
      BY ONLY n \in 1 .. 64, <1>8, <1>9, <3>1
    <3>3. t2[n] = t1[n] /\ t1[n] = o[n]
      BY ONLY <1>6, <1>7, <3>1
    <3> QED BY ONLY <3>1, <3>2, <3>3
  <2>3. CASE n = 33
    <3>1. ~(n <= 32) /\ n <= 33 /\ n <= 56 /\ n <= 58 /\ n \in 1 .. 33 /\ n \in 1 .. 56 /\ n \in 1 .. 58
          /\ n - 32 = 1
      BY ONLY <2>3, SMT
    <3>2. t4[n] = t3[n] /\ t3[n] = t2[n]
      BY ONLY n \in 1 .. 64, <1>8, <1>9, <3>1
    <3>3. t2[n] = t1[n] /\ t1[n] = m[1]
      BY ONLY <1>6, <1>7, <3>1
    <3> QED BY ONLY <1>3, <2>3, <3>1, <3>2, <3>3
  <2>4. CASE n \in 34 .. 56
    <3>1. ~(n <= 32) /\ ~(n <= 33) /\ n <= 56 /\ n <= 58 /\ n \in 1 .. 56 /\ n \in 1 .. 58
          /\ n - 33 \in 1 .. 23 /\ n # 33 /\ n # 58
      BY ONLY <2>4, SMT
    <3>2. t4[n] = t3[n] /\ t3[n] = t2[n]
      BY ONLY n \in 1 .. 64, <1>8, <1>9, <3>1
    <3>3. t2[n] = z1[n - 33]
      BY ONLY <1>7, <3>1
    <3>4. t4[n] = 0
      BY ONLY <1>4, <3>1, <3>2, <3>3
    <3> QED BY ONLY <3>1, <3>4
  <2>5. CASE n = 57 \/ n = 58
    <3>1. ~(n <= 32) /\ n # 33 /\ ~(n <= 56) /\ n <= 58 /\ n \in 1 .. 58
          /\ (n = 57 => n - 56 = 1 /\ n # 58) /\ (n = 58 => n - 56 = 2)
      BY ONLY <2>5, SMT
    <3>2. t4[n] = t3[n] /\ t3[n] = l[n - 56]
      BY ONLY n \in 1 .. 64, <1>8, <1>9, <3>1
    <3> QED BY ONLY <1>5, <2>5, <3>1, <3>2
  <2>6. CASE n \in 59 .. 64
    <3>1. ~(n <= 32) /\ n # 33 /\ ~(n <= 58) /\ n # 58 /\ n - 58 \in 1 .. 6
      BY ONLY <2>6, SMT
    <3>2. t4[n] = z2[n - 58]
      BY ONLY n \in 1 .. 64, <1>9, <3>1
    <3> QED BY ONLY <1>4, <3>1, <3>2
  <2> QED BY <2>1, <2>2, <2>3, <2>4, <2>5, <2>6
<1> QED BY <1>2, <1>9, <1>10

\* The words of the block of RIPEMD-160, their octets turned back.
LEMMA RipemdWords ==
  ASSUME NEW digest \in Seq(Word4), Len(digest) = 8
  PROVE  LET t == [w \in 1 .. 16 |-> Reverse(RipemdBlock(digest)[w])]
         IN  \A w \in 1 .. 16 :
               /\ t[w] \in Word4
               /\ w <= 8 => w \in 1 .. 8 /\ t[w] = digest[w]
               /\ w = 9 => t[w][1] = 128 /\ t[w][2] = 0 /\ t[w][3] = 0 /\ t[w][4] = 0
               /\ w = 15 => t[w][1] = 0 /\ t[w][2] = 1 /\ t[w][3] = 0 /\ t[w][4] = 0
               /\ ~(w <= 8) /\ w # 9 /\ w # 15 => \A j \in 1 .. 4 : t[w][j] = 0
<1> DEFINE t == [w \in 1 .. 16 |-> Reverse(RipemdBlock(digest)[w])]
<1> SUFFICES ASSUME NEW w \in 1 .. 16
             PROVE  LET back == t[w]
                    IN  /\ back \in Word4
                        /\ w <= 8 => w \in 1 .. 8 /\ back = digest[w]
                        /\ w = 9 => back[1] = 128 /\ back[2] = 0 /\ back[3] = 0 /\ back[4] = 0
                        /\ w = 15 => back[1] = 0 /\ back[2] = 1 /\ back[3] = 0 /\ back[4] = 0
                        /\ ~(w <= 8) /\ w # 9 /\ w # 15 => \A j \in 1 .. 4 : back[j] = 0
  OBVIOUS
<1> DEFINE b == RipemdBlock(digest)[w]
           back == t[w]
<1>1. b = IF w <= 8 THEN Reverse(digest[w])
          ELSE IF w = 9 THEN Num(128) ELSE IF w = 15 THEN Num(256) ELSE Zero
  BY DEF RipemdBlock, Endian
<1>0. back = Reverse(b)
  BY Zenon
<1> HIDE DEF b, t
<1>2. 5 - 1 = 4 /\ 5 - 2 = 3 /\ 5 - 3 = 2 /\ 5 - 4 = 1
  BY SMT
<1>3. CASE w <= 8
  <2>1. w \in 1 .. 8 /\ w # 9 /\ w # 15
    BY <1>3, SMT
  <2>2. digest[w] \in Word4
    BY <2>1, ElementOfSeq
  <2> HIDE DEF back
  <2>3. back = digest[w]
    BY <1>0, <1>1, <1>3, <2>2, ReverseIs
  <2> QED BY <1>3, <2>1, <2>2, <2>3 DEF back
<1>4. CASE ~(w <= 8) /\ w = 9
  <2>1. /\ b \in Word4 /\ b[1] = 0 /\ b[2] = 0 /\ b[3] = 0 /\ b[4] = 128
    <3>1. 128 \in Int /\ 128 \div 256 = 0 /\ 128 % 256 = 128
      BY SMT
    <3>2. b = Num(128)
      BY <1>1, <1>4
    <3>3. Num(128) \in Word4
      BY <3>1, Words4
    <3>4. /\ Num(128)[1] = 0 /\ Num(128)[2] = 0
          /\ Num(128)[3] = 128 \div 256 /\ Num(128)[4] = 128 % 256
      BY <3>1, NumIs
    <3> QED BY ONLY <3>1, <3>2, <3>3, <3>4
  <2>2. back \in Word4 /\ back[1] = b[4] /\ back[2] = b[3] /\ back[3] = b[2] /\ back[4] = b[1]
    BY <1>0, <1>2, <2>1, ReverseIs
  <2>3. w # 15
    BY <1>4, SMT
  <2> HIDE DEF back
  <2> QED BY <1>4, <2>1, <2>2, <2>3 DEF back
<1>5. CASE ~(w <= 8) /\ w = 15
  <2>1. /\ b \in Word4 /\ b[1] = 0 /\ b[2] = 0 /\ b[3] = 1 /\ b[4] = 0
    <3>1. 256 \in Int /\ 256 \div 256 = 1 /\ 256 % 256 = 0 /\ w # 9
      BY <1>5, SMT
    <3>2. b = Num(256)
      BY <1>1, <1>5, <3>1
    <3>3. Num(256) \in Word4
      BY <3>1, Words4
    <3>4. /\ Num(256)[1] = 0 /\ Num(256)[2] = 0
          /\ Num(256)[3] = 256 \div 256 /\ Num(256)[4] = 256 % 256
      BY <3>1, NumIs
    <3> QED BY ONLY <3>1, <3>2, <3>3, <3>4
  <2>2. back \in Word4 /\ back[1] = b[4] /\ back[2] = b[3] /\ back[3] = b[2] /\ back[4] = b[1]
    BY <1>0, <1>2, <2>1, ReverseIs
  <2>3. w # 9
    BY <1>5, SMT
  <2> HIDE DEF back
  <2> QED BY <1>5, <2>1, <2>2, <2>3 DEF back
<1>6. CASE ~(w <= 8) /\ w # 9 /\ w # 15
  <2>1. b \in Word4 /\ \A j \in 1 .. 4 : b[j] = 0
    <3>1. \A j \in 1 .. 4 : Zero[j] = 0
      BY SMT DEF Zero
    <3> QED BY <1>1, <1>6, <3>1, Words4
  <2>2. back \in Word4 /\ \A j \in 1 .. 4 : back[j] = b[5 - j]
    BY <1>0, <2>1, ReverseIs
  <2>3. \A j \in 1 .. 4 : 5 - j \in 1 .. 4
    BY SMT
  <2>4. \A j \in 1 .. 4 : back[j] = 0
    <3> HIDE DEF back
    <3> QED BY <2>1, <2>2, <2>3
  <2> HIDE DEF back
  <2> QED BY <1>6, <2>2, <2>4 DEF back
<1> QED BY <1>3, <1>4, <1>5, <1>6

LEMMA RipemdPadded ==
  ASSUME NEW digest \in Seq(Word4), Len(digest) = 8
  PROVE  FlattenSeq([w \in 1 .. 16 |-> Reverse(RipemdBlock(digest)[w])]) = PaddedRipemd(Octets(digest))
<1> DEFINE t == [w \in 1 .. 16 |-> Reverse(RipemdBlock(digest)[w])]
           o == Octets(digest)
           a == Octets(t)
           p == PaddedRipemd(o)
<1>1. \A w \in 1 .. 16 :
        /\ t[w] \in Word4
        /\ w <= 8 => w \in 1 .. 8 /\ t[w] = digest[w]
        /\ w = 9 => t[w][1] = 128 /\ t[w][2] = 0 /\ t[w][3] = 0 /\ t[w][4] = 0
        /\ w = 15 => t[w][1] = 0 /\ t[w][2] = 1 /\ t[w][3] = 0 /\ t[w][4] = 0
        /\ ~(w <= 8) /\ w # 9 /\ w # 15 => \A j \in 1 .. 4 : t[w][j] = 0
  BY RipemdWords, Zenon
<1>2. t \in [1 .. 16 -> Word4]
  <2>1. t = [w \in 1 .. 16 |-> t[w]]
    BY Zenon
  <2> HIDE DEF t
  <2> QED BY <1>1, <2>1
<1>3. FlattenSeq(t) = a
  BY DEF Octets
<1> HIDE DEF t
<1>4. t \in Seq(Word4) /\ Len(t) = 16
  <2>1. 16 \in Nat
    BY SMT
  <2> QED BY ONLY <1>2, <2>1, FunctionIsSeq
<1>5. /\ o \in Seq(Int) /\ Len(o) = 32
      /\ \A w \in 1 .. 8, j \in 1 .. 4 : o[4 * (w - 1) + j] = digest[w][j]
  <2>1. Len(digest) # 0 /\ 4 * 8 = 32
    BY SMT
  <2>2. /\ o \in Seq(Int) /\ Len(o) = 4 * Len(digest)
        /\ \A w \in 1 .. Len(digest), j \in 1 .. 4 : o[4 * (w - 1) + j] = digest[w][j]
    BY <2>1, OctetsAre
  <2> HIDE DEF o
  <2> QED BY <2>1, <2>2
<1> HIDE DEF o
<1>6. a \in Seq(Int) /\ Len(a) = 64
  <2>1. Len(t) # 0 /\ 4 * 16 = 64
    BY <1>4, SMT
  <2>2. a \in Seq(Int) /\ Len(a) = 4 * Len(t)
    BY <1>4, <2>1, OctetsAre
  <2> HIDE DEF a
  <2> QED BY <1>4, <2>1, <2>2
<1>7. /\ p \in Seq(Int) /\ Len(p) = 64
      /\ \A n \in 1 .. 64 :
           p[n] = IF n <= 32 THEN o[n] ELSE IF n = 33 THEN 128 ELSE IF n = 58 THEN 1 ELSE 0
  BY <1>5, PaddedRipemdIs
<1> HIDE DEF p
<1>8. ASSUME NEW n \in 1 .. 64
      PROVE  a[n] = p[n]
  <2> DEFINE w == ((n - 1) \div 4) + 1
             j == ((n - 1) % 4) + 1
  <2>1. Len(t) # 0 /\ n \in 1 .. 4 * Len(t)
    BY <1>4, SMT
  <2>2. w \in 1 .. Len(t) /\ j \in 1 .. 4 /\ n = 4 * (w - 1) + j /\ a[n] = t[w][j]
    BY <1>4, <2>1, OctetAt
  <2> HIDE DEF w, j, a
  <2>3. w \in 1 .. 16
    BY <1>4, <2>2
  <2>4. j = 1 \/ j = 2 \/ j = 3 \/ j = 4
    BY ONLY <2>2, SMT
  <2>5. p[n] = IF n <= 32 THEN o[n] ELSE IF n = 33 THEN 128 ELSE IF n = 58 THEN 1 ELSE 0
    BY <1>7
  <2>6. CASE w <= 8
    <3>1. n <= 32
      BY ONLY <2>2, <2>3, <2>6, SMT
    <3>2. w \in 1 .. 8 /\ t[w] = digest[w]
      BY <1>1, <2>3, <2>6
    <3>3. o[4 * (w - 1) + j] = digest[w][j]
      BY <1>5, <2>2, <3>2
    <3> QED BY <2>2, <2>5, <3>1, <3>2, <3>3
  <2>7. CASE w = 9
    <3>1. ~(n <= 32) /\ n # 58 /\ (n = 33 <=> j = 1)
      BY ONLY <2>2, <2>7, SMT
    <3>2. t[w][j] = IF j = 1 THEN 128 ELSE 0
      BY <1>1, <2>3, <2>4, <2>7
    <3> QED BY <2>2, <2>5, <3>1, <3>2
  <2>8. CASE w = 15
    <3>1. ~(n <= 32) /\ n # 33 /\ (n = 58 <=> j = 2)
      BY ONLY <2>2, <2>8, SMT
    <3>2. t[w][j] = IF j = 2 THEN 1 ELSE 0
      BY <1>1, <2>3, <2>4, <2>8
    <3> QED BY <2>2, <2>5, <3>1, <3>2
  <2>9. CASE ~(w <= 8) /\ w # 9 /\ w # 15
    <3>1. ~(n <= 32) /\ n # 33 /\ n # 58
      BY ONLY <2>2, <2>3, <2>9, SMT
    <3>2. t[w][j] = 0
      BY <1>1, <2>2, <2>3, <2>9
    <3> QED BY <2>2, <2>5, <3>1, <3>2
  <2> QED BY <2>6, <2>7, <2>8, <2>9
<1>9. a = p
  <2>1. Len(a) = Len(p) /\ \A n \in 1 .. Len(a) : a[n] = p[n]
    BY <1>6, <1>7, <1>8
  <2>2. a \in Seq(Int) /\ p \in Seq(Int)
    BY <1>6, <1>7
  <2> HIDE DEF a
  <2> QED BY <2>1, <2>2, SeqEqual
<1> QED BY <1>3, <1>9 DEF t, p, o

\* Every key, compressed or not, every hash and every digest is hashed as the
\* octets it stands for, padded to blocks, whatever its bytes (address_hash.cpp,
\* checksum.cpp).
THEOREM MessagesArePaddedThm == MessagesArePadded
<1>1. ASSUME NEW parity \in {0, 1}
      PROVE  LET x == Named(256, 8)
                 y == Named(512 + parity, 8)
             IN  /\ Octets(CompressedBlock(x, y)) =
                      Padded(<<IF y[8][4] % 2 = 0 THEN 2 ELSE 3>> \o Octets(x))
                 /\ Octets(UncompressedBlocks(x, y)[1]) \o Octets(UncompressedBlocks(x, y)[2])
                      = Padded(<<4>> \o Octets(x) \o Octets(y))
  <2> DEFINE x == Named(256, 8)
             y == Named(512 + parity, 8)
  <2>1. 512 + parity \in Int /\ 8 \in Nat /\ 256 \in Int
    BY SMT
  <2>2. x \in Seq(Word4) /\ Len(x) = 8
    BY ONLY <2>1, NamedIs, Zenon DEF x
  <2>3. y \in Seq(Word4) /\ Len(y) = 8
    BY ONLY <2>1, NamedIs, Zenon DEF y
  <2> HIDE DEF x, y
  <2>4. /\ Octets(CompressedBlock(x, y)) =
             Padded(<<IF y[8][4] % 2 = 0 THEN 2 ELSE 3>> \o Octets(x))
        /\ Octets(UncompressedBlocks(x, y)[1]) \o Octets(UncompressedBlocks(x, y)[2])
             = Padded(<<4>> \o Octets(x) \o Octets(y))
    BY <2>2, <2>3, CompressedPadded, UncompressedPadded
  <2> QED BY <2>4 DEF x, y
<1> DEFINE digest == Named(256, 8)
           hash == Named(512, 5)
           c == digest[1]
<1>2. digest \in Seq(Word4) /\ Len(digest) = 8 /\ hash \in Seq(Word4) /\ Len(hash) = 5
  <2>1. \A from \in Int, n \in Nat : Named(from, n) \in Seq(Word4) /\ Len(Named(from, n)) = n
    BY NamedIs
  <2>2. digest \in Seq(Word4) /\ Len(digest) = 8
    <3> DEFINE from == 256
               len == 8
    <3>1. from \in Int /\ len \in Nat
      BY SMT
    <3> HIDE DEF from, len
    <3>2. Named(from, len) \in Seq(Word4) /\ Len(Named(from, len)) = len
      BY ONLY <2>1, <3>1
    <3> QED BY <3>2 DEF from, len, digest
  <2>3. hash \in Seq(Word4) /\ Len(hash) = 5
    <3> DEFINE from == 512
               len == 5
    <3>1. from \in Int /\ len \in Nat
      BY SMT
    <3> HIDE DEF from, len
    <3>2. Named(from, len) \in Seq(Word4) /\ Len(Named(from, len)) = len
      BY ONLY <2>1, <3>1
    <3> QED BY <3>2 DEF from, len, hash
  <2> QED BY <2>2, <2>3
<1> HIDE DEF digest, hash
<1>3. c \in Word4
  <2>1. 1 \in 1 .. Len(digest)
    BY <1>2, SMT
  <2> QED BY <1>2, <2>1, ElementOfSeq
<1>4. FlattenSeq([w \in 1 .. 16 |-> Reverse(RipemdBlock(digest)[w])]) = PaddedRipemd(Octets(digest))
  BY <1>2, RipemdPadded
<1>5. /\ Octets(ChecksumBlock(hash)) = Padded(<<0>> \o Octets(hash))
      /\ Octets(ChecksumBlock2(digest)) = Padded(Octets(digest))
  BY <1>2, ChecksumPadded
<1>6. Octets(AddressWords(hash, c)) = Zeros(8) \o Octets(hash \o <<c>>)
  BY <1>2, <1>3, AddressPadded
<1> QED BY <1>1, <1>4, <1>5, <1>6, Zenon DEF MessagesArePadded, digest, hash
=============================================================================
