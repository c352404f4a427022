------------------------------- MODULE ModField -------------------------------
(***************************************************************************)
(* Arithmetic modulo the prime P and modulo the group order N on the host  *)
(* (secp256k1.cpp), with the widths of its temporaries.                    *)
(***************************************************************************)
EXTENDS Uint256

\* The two foldings of multiplyModP leave less than twice P.
ASSUME FoldAssumption == /\ Base \in Nat /\ 1 < Base /\ C < Base
                         /\ (Base + C) * (Base + C + 2) <= M

\* addModP, addModN: one subtraction, decided by the carry or by comparison.
AddMod(a, b, m) ==
  LET sum == (a + b) % M
      overflow == a + b >= M
  IN  IF overflow \/ sum >= m THEN (sum - m) % M ELSE sum

\* subModP, subModN: the modulus is added when there was a borrow.
SubMod(a, b, m) == IF a < b THEN (((a - b) % M) + m) % M ELSE a - b

AddModP(a, b) == AddMod(a, b, P)
SubModP(a, b) == SubMod(a, b, P)
\* The negative of zero is P itself.
NegModP(x) == SubModP(P, x)
NegModN(x) == SubMod(N, x, N)

\* The high words times 2^32 + 977, in NumWords + 2 words.
Fold(high) == (C * high + Base * high) % (M * Base * Base)

MultiplyModP(a, b) ==
  LET product == a * b
      sum     == ((product % M) + Fold(product \div M)) % (M * Base * Base)
      total   == (sum % M) + (Fold(sum \div M) % M)
      low     == total % M
  IN  IF total >= M \/ low >= P THEN (low - P) % M ELSE low

\* barrettN, floor(2^512 / N): the quotient by it is one too small at most.
BarrettN == (M * M) \div N
ReduceModN(x) ==
  LET quotient == ((BarrettN * x) \div (M * M)) % M
      diff     == (x - quotient * N) % (M * M)
  IN  IF (diff \div M) % 2 = 1 \/ diff % M >= N THEN ((diff % M) - N) % M ELSE diff % M

MultiplyModN(a, b) ==
  LET product == a * b
  IN  IF product >= M THEN ReduceModN(product)
      ELSE IF product >= N THEN product - N ELSE product

PowModPLocals == [n : Numbers, square : Numbers, product : Numbers]
PowModP(x, n) ==
  LET power[w \in PowModPLocals] ==
        IF w.n = 0 THEN w.product
        ELSE power[[n |-> Div(w.n, 2), square |-> MultiplyModP(w.square, w.square),
                    product |-> IF w.n % 2 = 1 THEN MultiplyModP(w.product, w.square)
                                ELSE w.product]]
  IN  power[[n |-> n, square |-> x, product |-> 1]]

\* The power (P + 1) / 4 is a root if P is 3 modulo 4; 4 is one word.
ASSUME RootAssumption == P % 4 = 3 /\ 4 < Base
SqrtModP(x) == PowModP(x, Div(P + 1, 4))
=============================================================================
