--------------------------------- MODULE Curve --------------------------------
(***************************************************************************)
(* Points of the curve y^2 = x^3 + CurveB on the host (secp256k1.cpp), and *)
(* the two ways from private to public keys: multiplyPoint, one key at a   *)
(* time, and generateKeyPairsBulk, which inverts the differences of all    *)
(* keys at once.  InvModP is what the loop of ModInverse ends with.        *)
(***************************************************************************)
EXTENDS ModField, SequencesExt

CONSTANTS
  CurveB,       \* 7
  GX, GY        \* the generator

\* The table of inverses; zero has none, and invModP(0) does not return.
InverseOf == [x \in 1 .. P - 1 |-> CHOOSE y \in 1 .. P - 1 : (x * y) % P = 1]
InvModP(x) == InverseOf[x % P]

Point(x, y) == [x |-> x, y |-> y]
G == Point(GX, GY)
PointAtInfinity == Point(M - 1, M - 1)
IsPointAtInfinity(p) == p.x = M - 1 /\ p.y = M - 1

CubePlusB(x) == AddModP(MultiplyModP(MultiplyModP(x, x), x), CurveB)
PointExists(p) == MultiplyModP(p.y, p.y) = CubePlusB(p.x)

ASSUME GeneratorAssumption ==
  CurveB \in 0 .. P - 1 /\ GX \in 0 .. P - 1 /\ GY \in 0 .. P - 1 /\ PointExists(G)

-----------------------------------------------------------------------------
(* The group *)

\* The third point on the line of slope s through p and a point with x qx.
OnLine(s, p, qx) ==
  LET rx == SubModP(SubModP(MultiplyModP(s, s), p.x), qx)
  IN  Point(rx, SubModP(MultiplyModP(s, SubModP(p.x, rx)), p.y))

DoublePoint(p) ==
  LET x3 == MultiplyModP(p.x, p.x)
      s  == MultiplyModP(AddModP(AddModP(x3, x3), x3), InvModP(AddModP(p.y, p.y)))
  IN  OnLine(s, p, p.x)

NegPoint(p) == Point(p.x, NegModP(p.y))

\* The order of the tests matters: equal points first, the infinite ones last.
AddPoints(p1, p2) ==
  IF p1 = p2 THEN DoublePoint(p1)
  ELSE IF p1.x = p2.x THEN PointAtInfinity
  ELSE IF IsPointAtInfinity(p1) THEN p2
  ELSE IF IsPointAtInfinity(p2) THEN p1
  ELSE OnLine(MultiplyModP(SubModP(p1.y, p2.y), InvModP(SubModP(p1.x, p2.x))), p1, p2.x)

\* The point of an x and the parity of its y, whether it exists or not.
IsEven(x) == x % 2 = 0
GetY(x, sign) ==
  LET y == SqrtModP(AddModP(PowModP(x, 3), CurveB))
  IN  IF IsEven(y) = (sign = 2) THEN y ELSE SubModP(P, y)
CompressionByte(p) == IF IsEven(p.y) THEN 2 ELSE 3

-----------------------------------------------------------------------------
(* multiplyPoint *)

VARIABLES
  k,            \* the key
  base,         \* the point it multiplies
  sum, d, i     \* locals of the loop

multiplyVars == <<k, base, sum, d, i>>

MultiplyInit(key, p) ==
  /\ k = key /\ base = p
  /\ sum = PointAtInfinity
  /\ d = p
  /\ i = 0

\* The loop ends after the highest word that is not zero.
KeyBits(key) ==
  LET used == {w \in Words(NumWords) : ToWords(key, NumWords)[w] # 0}
  IN  IF used = {} THEN 0 ELSE WordBits * (Max(used) + 1)

KeyBit(key, n) == Bit(ToWords(key, NumWords), n)

MultiplyStep ==
  /\ i < KeyBits(k)
  /\ sum' = IF KeyBit(k, i) THEN AddPoints(sum, d) ELSE sum
  /\ d' = DoublePoint(d)
  /\ i' = i + 1
  /\ UNCHANGED <<k, base>>

-----------------------------------------------------------------------------
(* generateKeyPairsBulk *)

VARIABLES
  privKeys,     \* the keys
  pubKeys,      \* their points so far
  bulkBit,      \* the bit of the keys that is done next
  bulk          \* "run", "hang" in invModP(0), "throw"

bulkVars == <<privKeys, pubKeys, bulkBit, bulk>>

\* The table G, 2G, 4G ...: the base point is the generator.
BulkTable ==
  LET table[n \in 1 .. Bits] ==
        IF n = 1 THEN <<G>>
        ELSE LET before == table[n - 1] IN Append(before, DoublePoint(Last(before)))
  IN  table[Bits]

BulkInit(keys) ==
  /\ privKeys = keys
  /\ pubKeys = [j \in DOMAIN keys |-> PointAtInfinity]
  /\ bulkBit = 0
  /\ bulk = IF \E n \in DOMAIN BulkTable : ~PointExists(BulkTable[n]) THEN "throw" ELSE "run"

\* Mutant of BulkInversion: the walk back multiplies by the wrong factor.
BulkInversionShifted(in) ==
  LET n == Len(in)
      product[j \in 0 .. n] == IF j = 0 THEN 1 ELSE MultiplyModP(product[j - 1], in[j])
      inverse[j \in 1 .. n] ==
        IF j = n THEN InvModP(product[n]) ELSE MultiplyModP(inverse[j + 1], in[j])
  IN  [j \in 1 .. n |-> IF j = 1 THEN inverse[1] ELSE MultiplyModP(product[j - 1], inverse[j])]

\* bulkInversionModP: one inversion, of the product of all; the inverse of a
\* prefix loses its last factor on the way back.
BulkInversion(in) ==
  LET n == Len(in)
      product[j \in 0 .. n] == IF j = 0 THEN 1 ELSE MultiplyModP(product[j - 1], in[j])
      inverse[j \in 1 .. n] ==
        IF j = n THEN InvModP(product[n]) ELSE MultiplyModP(inverse[j + 1], in[j + 1])
  IN  [j \in 1 .. n |-> IF j = 1 THEN inverse[1] ELSE MultiplyModP(product[j - 1], inverse[j])]

\* Keys without the bit, and points at infinity, take part with the run 2.
RunList(n) ==
  [j \in DOMAIN privKeys |->
     IF KeyBit(privKeys[j], n) /\ ~IsPointAtInfinity(pubKeys[j])
     THEN SubModP(pubKeys[j].x, BulkTable[n + 1].x) ELSE 2]

BulkPoint(j, n, invRun) ==
  IF ~KeyBit(privKeys[j], n) THEN pubKeys[j]
  ELSE IF IsPointAtInfinity(pubKeys[j]) THEN BulkTable[n + 1]
  ELSE OnLine(MultiplyModP(SubModP(pubKeys[j].y, BulkTable[n + 1].y), invRun),
              pubKeys[j], BulkTable[n + 1].x)

BulkStep ==
  /\ bulk = "run" /\ bulkBit < Bits
  /\ LET runs == RunList(bulkBit)
     IN  IF \E j \in DOMAIN runs : runs[j] = 0
         THEN bulk' = "hang" /\ UNCHANGED <<pubKeys, bulkBit>>
         ELSE LET inverses == BulkInversion(runs)
                  next     == [j \in DOMAIN privKeys |-> BulkPoint(j, bulkBit, inverses[j])]
              IN  IF \E j \in DOMAIN next :
                       ~IsPointAtInfinity(next[j]) /\ ~PointExists(next[j])
                  THEN bulk' = "throw" /\ UNCHANGED <<pubKeys, bulkBit>>
                  ELSE /\ pubKeys' = next
                       /\ bulkBit' = bulkBit + 1
                       /\ UNCHANGED bulk
  /\ UNCHANGED privKeys
=============================================================================
