------------------------------ MODULE ModInverse ------------------------------
(***************************************************************************)
(* invModP (secp256k1.cpp): the binary extended Euclidean algorithm, one   *)
(* action per way through its loops.  x1 and x2 have 257 bits and more: s1 *)
(* and s2 are the signed words above the 256-bit numbers.                  *)
(***************************************************************************)
EXTENDS Uint256

VARIABLES
  argument,     \* x
  u, v, x1, x2, \* numbers
  s1, s2,       \* x1Signed, x2Signed
  inverse       \* where the call is

inverseVars == <<argument, u, v, x1, x2, s1, s2, inverse>>

Stages == {"test", "halveU", "halveV", "subtract", "correct", "done"}

InverseInit(x) ==
  /\ argument = x
  /\ u = x /\ v = P
  /\ x1 = 1 /\ s1 = 0
  /\ x2 = 0 /\ s2 = 0
  /\ inverse = "test"

\* x + s * M is halved, after P was added if it is odd: the lowest bit of s
\* moves into x.
Evened(x) == IF x % 2 = 0 THEN x ELSE (x + P) % M
\* Mutant of Carried: the carry of x + P is lost.
CarriedNot(x, s) == s

Carried(x, s) == IF x % 2 = 0 THEN s ELSE s + (x + P) \div M
HalfOf(x, s) == Evened(x) \div 2 + (Carried(x, s) % 2) * (M \div 2)
HalfSigned(x, s) == Carried(x, s) \div 2

\* while(!isOne(u) && !isOne(v)): tested between two rounds only.
Test ==
  /\ inverse = "test"
  /\ inverse' = IF u = 1 \/ v = 1 THEN "correct" ELSE "halveU"
  /\ UNCHANGED <<argument, u, v, x1, x2, s1, s2>>

\* while(is_even(u)), for ever when u is zero
HalveU ==
  /\ inverse = "halveU"
  /\ IF u % 2 = 0
     THEN /\ u' = u \div 2
          /\ x1' = HalfOf(x1, s1) /\ s1' = HalfSigned(x1, s1)
          /\ UNCHANGED inverse
     ELSE inverse' = "halveV" /\ UNCHANGED <<u, x1, s1>>
  /\ UNCHANGED <<argument, v, x2, s2>>

\* while(is_even(v))
HalveV ==
  /\ inverse = "halveV"
  /\ IF v % 2 = 0
     THEN /\ v' = v \div 2
          /\ x2' = HalfOf(x2, s2) /\ s2' = HalfSigned(x2, s2)
          /\ UNCHANGED inverse
     ELSE inverse' = "subtract" /\ UNCHANGED <<v, x2, s2>>
  /\ UNCHANGED <<argument, u, x1, s1>>

Borrow(x, y) == IF x < y THEN 1 ELSE 0

\* The smaller of u and v is taken from the other.
Subtract ==
  /\ inverse = "subtract"
  /\ \/ /\ v <= u
        /\ u' = u - v
        /\ x1' = (x1 - x2) % M /\ s1' = s1 - s2 - Borrow(x1, x2)
        /\ UNCHANGED <<v, x2, s2>>
     \/ /\ u < v
        /\ v' = v - u
        /\ x2' = (x2 - x1) % M /\ s2' = s2 - s1 - Borrow(x2, x1)
        /\ UNCHANGED <<u, x1, s1>>
  /\ inverse' = "test"
  /\ UNCHANGED argument

\* The signed word of the result is brought to zero by multiples of P.
Corrected(x, s) == IF s < 0 THEN (x + P) % M ELSE (x - P) % M

\* Mutant of CorrectedSign: the carries do not reach the signed word.
CorrectedSignKept(x, s) == s

CorrectedSign(x, s) == IF s < 0 THEN s + (x + P) \div M ELSE s - Borrow(x, P)

Correct ==
  /\ inverse = "correct"
  /\ \/ /\ u = 1 /\ s1 # 0
        /\ x1' = Corrected(x1, s1) /\ s1' = CorrectedSign(x1, s1)
        /\ UNCHANGED <<x2, s2, inverse>>
     \/ /\ u # 1 /\ s2 # 0
        /\ x2' = Corrected(x2, s2) /\ s2' = CorrectedSign(x2, s2)
        /\ UNCHANGED <<x1, s1, inverse>>
     \/ /\ IF u = 1 THEN s1 = 0 ELSE s2 = 0
        /\ inverse' = "done"
        /\ UNCHANGED <<x1, s1, x2, s2>>
  /\ UNCHANGED <<argument, u, v>>

Output == IF u = 1 THEN x1 ELSE x2

InverseNext == Test \/ HalveU \/ HalveV \/ Subtract \/ Correct

InverseSpec == (\E x \in Numbers : InverseInit(x)) /\ [][InverseNext]_inverseVars

-----------------------------------------------------------------------------
(* Properties *)

InverseTypeOK ==
  /\ argument \in Numbers
  /\ u \in Numbers /\ v \in Numbers \ {0}
  /\ x1 \in Numbers /\ x2 \in Numbers
  /\ s1 \in Int /\ s2 \in Int
  /\ inverse \in Stages

Congruent(a, b) == \E q \in Int : a = b + q * P

\* What every turn of every loop keeps, carries and borrows included.
Cofactors ==
  /\ Congruent(argument * (x1 + s1 * M), u)
  /\ Congruent(argument * (x2 + s2 * M), v)

\* What invModP returns is an inverse of its argument modulo P.
InverseIsInverse == inverse = "done" => (argument * Output) % P = 1
=============================================================================
