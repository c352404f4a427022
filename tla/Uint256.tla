------------------------------- MODULE Uint256 --------------------------------
(***************************************************************************)
(* The unsigned numbers of the host library (secp256k1.h, uint256): arrays *)
(* of NumWords words of WordBits bits, least significant word first.  The  *)
(* loops over words are operators on arrays, and operators on values say   *)
(* what the methods built from them return.                                *)
(***************************************************************************)
EXTENDS Integers, Sequences, FiniteSetsExt

CONSTANTS
  WordBits,     \* bits of a word (32)
  NumWords,     \* words of a number (8)
  Base,         \* 2^32, one more than the largest word
  M,            \* 2^256, one more than the largest number
  C,            \* P = M - Base - C (977)
  P,            \* the prime of the field
  N             \* the order of the group

Bits == WordBits * NumWords

\* The powers of two and of Base, as a table that can be reasoned about.
TwoTo ==
  LET power[n \in 0 .. 2 * Bits] == IF n = 0 THEN 1 ELSE 2 * power[n - 1]
  IN  [n \in 0 .. 2 * Bits |-> power[n]]
BaseTo(n) == TwoTo[WordBits * n]

ASSUME WidthAssumption == /\ WordBits \in Nat \ {0} /\ NumWords \in Nat \ {0}
                          /\ Base = BaseTo(1) /\ M = BaseTo(NumWords)
ASSUME ModulusAssumption == /\ M \in Nat /\ M % 2 = 0
                            /\ P \in Nat /\ P % 2 = 1 /\ 1 < P /\ P < M
ASSUME PrimeFormAssumption == C \in Nat /\ P = M - (Base + C)
ASSUME OrderAssumption == N \in Nat /\ 1 < N /\ N < M /\ M < 2 * N

Numbers == 0 .. M - 1
Words(len) == 0 .. len - 1

\* The number an array of words stands for, and back.
Value(a, len) ==
  LET v[i \in 0 .. len] == IF i = 0 THEN 0 ELSE v[i - 1] + a[i - 1] * BaseTo(i - 1)
  IN  v[len]
ToWords(n, len) == [i \in Words(len) |-> (n \div BaseTo(i)) % Base]

-----------------------------------------------------------------------------
(* Loops over words *)

\* Mutant of Addc: the carry is of the two words only.
AddcOfWords(a, b, carry) == [sum |-> (a + b + carry) % Base, carry |-> ((a + b) \div Base) % 2]

Addc(a, b, carry) == [sum |-> (a + b + carry) % Base, carry |-> ((a + b + carry) \div Base) % 2]

Subc(a, b, borrow) == [sum |-> (a - b - borrow) % Base, carry |-> ((a - b - borrow) \div Base) % 2]

Chain(Op(_, _, _), a, b, len) ==
  LET carry[i \in 0 .. len] == IF i = 0 THEN 0 ELSE Op(a[i - 1], b[i - 1], carry[i - 1]).carry
  IN  [words |-> [i \in Words(len) |-> Op(a[i], b[i], carry[i]).sum], carry |-> carry[len]]
AddWords(a, b, len) == Chain(Addc, a, b, len)
SubWords(a, b, len) == Chain(Subc, a, b, len)

\* One row of the schoolbook product: z + x[i] * y, from word i on.
MultiplyRow(xi, i, y, yLen, z) ==
  LET high[j \in 0 .. yLen] ==
        IF j = 0 THEN 0 ELSE (xi * y[j - 1] + z[i + j - 1] + high[j - 1]) \div Base
  IN  [k \in DOMAIN z |-> IF k \in i .. i + yLen - 1
                          THEN (xi * y[k - i] + z[k] + high[k - i]) % Base
                          ELSE IF k = i + yLen THEN high[yLen] ELSE z[k]]
MultiplyWords(x, xLen, y, yLen) ==
  LET z[i \in 0 .. xLen] ==
        IF i = 0 THEN [k \in Words(xLen + yLen) |-> 0]
        ELSE MultiplyRow(x[i - 1], i - 1, y, yLen, z[i - 1])
  IN  z[xLen]

\* The most significant words that differ decide.
Compare(a, b, len) ==
  LET differ == {i \in Words(len) : a[i] # b[i]}
  IN  IF differ = {} THEN 0
      ELSE IF a[Max(differ)] < b[Max(differ)] THEN -1 ELSE 1
GreaterThanEqualTo(a, b, len) == Compare(a, b, len) >= 0
LessThanEqualTo(a, b, len) == Compare(a, b, len) <= 0

\* Shifts by 1 .. WordBits - 1; a shift by 0 is not defined in the code.
RightShift(x, count) ==
  [i \in Words(NumWords) |->
     x[i] \div TwoTo[count]
       + (IF i < NumWords - 1 THEN (x[i + 1] * TwoTo[WordBits - count]) % Base ELSE 0)]
DivBy2(x) == RightShift(x, 1)

Neg(x) ==
  AddWords([i \in Words(NumWords) |-> Base - 1 - x[i]], ToWords(1, NumWords), NumWords).words

Bit(x, n) ==
  LET k == n % (Bits)
  IN  (x[k \div WordBits] \div TwoTo[k % WordBits]) % 2 = 1
SetBit(x, n, value) ==
  [x EXCEPT ![n \div WordBits] =
     IF Bit(x, n) = value THEN @
     ELSE IF value THEN @ + TwoTo[n % WordBits] ELSE @ - TwoTo[n % WordBits]]
IsNeg(x) == x[NumWords - 1] >= Base \div 2

\* The bits 0 .. bits - 1; all 2^256 - 1 of them is taken for none.
FillBits(bits) ==
  LET n == bits % (Bits)
  IN  [i \in Words(NumWords) |-> IF i < n \div WordBits THEN Base - 1
                                 ELSE IF i = n \div WordBits THEN TwoTo[n % WordBits] - 1 ELSE 0]

ExportBigEndian(x, len) == [i \in Words(len) |-> x[len - i - 1]]
FromBigEndian(a) == [i \in Words(NumWords) |-> a[NumWords - 1 - i]]

-----------------------------------------------------------------------------
(* Methods on values *)

Add(x, y) == (x + y) % M
Sub(x, y) == (x - y) % M
Mul(x, y) == (x * y) % M

\* uint256(int): the low word only, so a negative int is not extended.
FromInt(i) == i % Base

\* Square and multiply: what the loop returns from its locals on.
PowLocals == [n : Nat, square : Nat, product : Nat]
Pow(x, n) ==
  LET power[w \in PowLocals] ==
        IF w.n = 0 THEN w.product
        ELSE power[[n |-> w.n \div 2, square |-> Mul(w.square, w.square),
                    product |-> IF w.n % 2 = 1 THEN Mul(w.product, w.square) ELSE w.product]]
  IN  power[[n |-> n, square |-> x, product |-> 1]]

\* Long division by one word: val is shifted until its first bit is the first
\* bit of a number, and then back while it is above what is left.
DivLocals == [t : Nat, shift : 0 .. Bits - 1, quotient : Nat]
Div(x, val) ==
  LET lead == CHOOSE s \in 0 .. WordBits - 1 : val * TwoTo[s] \in Base \div 2 .. Base - 1
      left[w \in DivLocals] ==
        LET k == val * TwoTo[w.shift]
        IN  IF w.t < val THEN w.quotient
            ELSE IF w.t < k THEN left[[w EXCEPT !.shift = @ - 1]]
            ELSE left[[w EXCEPT !.t = @ - k, !.quotient = Add(@, Pow(2, w.shift))]]
  IN  left[[t |-> x, shift |-> (NumWords - 1) * WordBits + lead, quotient |-> 0]]
Mod(x, val) == Sub(x, Mul(Div(x, val), val))
=============================================================================
