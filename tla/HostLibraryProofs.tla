--------------------------- MODULE HostLibraryProofs ------------------------
(***************************************************************************)
(* What the calls of the host library promise, from what is proved of its  *)
(* arithmetic (ArithmeticProofs); and what the set-up of a device          *)
(* promises.                                                               *)
(***************************************************************************)
EXTENDS HostLibrary, ArithmeticProofs, FiniteSetTheorems, SequenceTheorems

-----------------------------------------------------------------------------
(* Remainders *)

\* A multiple of m more changes no remainder.
LEMMA RemainderSame ==
  ASSUME NEW m \in Nat \ {0}, NEW a \in Int, NEW q \in Int, NEW b \in Int, a = b + q * m
  PROVE  a % m = b % m
<1> DEFINE e == b \div m
           r == b % m
           f == q + e
<1>1. b = e * m + r /\ r \in 0 .. m - 1 /\ e \in Int
  BY SMT
<1> HIDE DEF e, r
<1>2. f \in Int /\ a = f * m + r
  BY <1>1, SMT
<1> HIDE DEF f
<1>3. a % m = r
  BY <1>1, <1>2, RemainderOf
<1> QED BY <1>3 DEF r

\* An operand may be reduced first.
LEMMA Reduced ==
  \A m \in Nat \ {0}, a, b \in Int :
         /\ a % m \in 0 .. m - 1
         /\ ((a % m) + b) % m = (a + b) % m /\ (a + (b % m)) % m = (a + b) % m
         /\ ((a % m) - b) % m = (a - b) % m /\ (a - (b % m)) % m = (a - b) % m
         /\ ((a % m) * b) % m = (a * b) % m /\ (a * (b % m)) % m = (a * b) % m
<1> TAKE m \in Nat \ {0}, a, b \in Int
<1> DEFINE ra == a % m
           qa == a \div m
           rb == b % m
           qb == b \div m
<1>1. /\ a = ra + qa * m /\ ra \in 0 .. m - 1 /\ qa \in Int /\ ra \in Int
      /\ b = rb + qb * m /\ rb \in Int /\ qb \in Int
  BY SMT
<1> HIDE DEF ra, qa, rb, qb
<1>4. (ra + b) % m = (a + b) % m
  <2> DEFINE y == ra + b
             z == a + b
             q == qa
  <2>1. y \in Int /\ z \in Int /\ q \in Int /\ z = y + q * m
    BY <1>1, SMT
  <2> HIDE DEF y, z, q
  <2>2. z % m = y % m
    BY <2>1, RemainderSame
  <2> QED BY <2>2 DEF y, z
<1>5. (a + rb) % m = (a + b) % m
  <2> DEFINE y == a + rb
             z == a + b
             q == qb
  <2>1. y \in Int /\ z \in Int /\ q \in Int /\ z = y + q * m
    BY <1>1, SMT
  <2> HIDE DEF y, z, q
  <2>2. z % m = y % m
    BY <2>1, RemainderSame
  <2> QED BY <2>2 DEF y, z
<1>6. (ra - b) % m = (a - b) % m
  <2> DEFINE y == ra - b
             z == a - b
             q == qa
  <2>1. y \in Int /\ z \in Int /\ q \in Int /\ z = y + q * m
    BY <1>1, SMT
  <2> HIDE DEF y, z, q
  <2>2. z % m = y % m
    BY <2>1, RemainderSame
  <2> QED BY <2>2 DEF y, z
<1>7. (a - rb) % m = (a - b) % m
  <2> DEFINE y == a - rb
             z == a - b
             q == -qb
  <2>1. y \in Int /\ z \in Int /\ q \in Int /\ z = y + q * m
    BY <1>1, SMT
  <2> HIDE DEF y, z, q
  <2>2. z % m = y % m
    BY <2>1, RemainderSame
  <2> QED BY <2>2 DEF y, z
<1>8. (ra * b) % m = (a * b) % m
  <2> DEFINE y == ra * b
             z == a * b
             q == qa * b
  <2>1. y \in Int /\ z \in Int /\ q \in Int /\ z = y + q * m
    BY <1>1, SMT
  <2> HIDE DEF y, z, q
  <2>2. z % m = y % m
    BY <2>1, RemainderSame
  <2> QED BY <2>2 DEF y, z
<1>9. (a * rb) % m = (a * b) % m
  <2> DEFINE y == a * rb
             z == a * b
             q == a * qb
  <2>1. y \in Int /\ z \in Int /\ q \in Int /\ z = y + q * m
    BY <1>1, SMT
  <2> HIDE DEF y, z, q
  <2>2. z % m = y % m
    BY <2>1, RemainderSame
  <2> QED BY <2>2 DEF y, z
<1> QED BY <1>1, <1>4, <1>5, <1>6, <1>7, <1>8, <1>9 DEF ra, rb

\* invModP of what is not a multiple of P.
LEMMA InverseIs ==
  ASSUME NEW x \in Int, x % P # 0
  PROVE  InvModP(x) \in 1 .. P - 1 /\ (x * InvModP(x)) % P = 1
<1> DEFINE r == x % P
           y == InvModP(x)
<1>1. P \in Nat \ {0}
  BY FieldConstants
<1>2. r \in 1 .. P - 1
  BY <1>1, SMT
<1>3. y = CHOOSE z \in 1 .. P - 1 : (r * z) % P = 1
  BY <1>2 DEF InvModP, InverseOf
<1>4. y \in 1 .. P - 1 /\ (r * y) % P = 1
  BY <1>2, <1>3, FieldAssumption
<1>5. y \in Int
  BY <1>1, <1>4, SMT
<1>6. (r * y) % P = (x * y) % P
  <2> HIDE DEF y
  <2> QED BY <1>1, <1>5, Reduced
<1> QED BY <1>4, <1>6

\* There are no zero divisors modulo P.
LEMMA NoZeroDivisors ==
  ASSUME NEW a \in Int, NEW b \in Int, (a * b) % P = 0, a % P # 0
  PROVE  b % P = 0
<1> DEFINE y == InvModP(a)
<1>1. P \in Nat \ {0}
  BY FieldConstants
<1>2. y \in Int /\ (a * y) % P = 1
  <2>1. y \in 1 .. P - 1 /\ (a * y) % P = 1
    BY InverseIs
  <2> HIDE DEF y
  <2> QED BY <1>1, <2>1, SMT
<1> HIDE DEF y
<1>3. ((a * b) * y) % P = 0
  <2> DEFINE ab == a * b
  <2>1. ab \in Int /\ ab % P = 0
    BY SMT
  <2> HIDE DEF ab
  <2>2. ((ab % P) * y) % P = (ab * y) % P
    BY <1>1, <1>2, <2>1, Reduced
  <2>3. 0 * y = 0 /\ 0 % P = 0
    BY <1>1, <1>2, SMT
  <2> QED BY <2>1, <2>2, <2>3 DEF ab
<1>4. ((a * y) * b) % P = b % P
  <2> DEFINE ay == a * y
  <2>1. ay \in Int /\ ay % P = 1
    BY <1>2, SMT
  <2> HIDE DEF ay
  <2>2. ((ay % P) * b) % P = (ay * b) % P
    BY <1>1, <2>1, Reduced
  <2>3. 1 * b = b
    BY SMT
  <2> QED BY <2>1, <2>2, <2>3 DEF ay
<1>5. (a * b) * y = (a * y) * b
  BY <1>2, SMT
<1> QED BY <1>3, <1>4, <1>5

\* An inverse modulo P is the only one.
LEMMA OnlyInverse ==
  ASSUME NEW x \in Int, NEW y \in 0 .. P - 1, (x * y) % P = 1
  PROVE  y = InvModP(x)
<1> DEFINE z == InvModP(x)
<1>1. P \in Nat \ {0} /\ y \in Int /\ 1 < P
  BY FieldConstants, SMT
<1>2. x % P # 0
  <2> SUFFICES ASSUME x % P = 0
               PROVE  FALSE
    OBVIOUS
  <2>1. ((x % P) * y) % P = (x * y) % P
    BY <1>1, Reduced
  <2>2. 0 * y = 0 /\ 0 % P = 0
    BY <1>1, SMT
  <2>3. (0 * y) % P = (x * y) % P
    BY <2>1
  <2>4. (x * y) % P = 0
    BY <2>2, <2>3
  <2> QED BY <2>4
<1>3. z \in 1 .. P - 1 /\ (x * z) % P = 1
  BY <1>2, InverseIs
<1> HIDE DEF z
<1>4. z \in Int
  BY <1>1, <1>3, SMT
<1>5. (x * (y - z)) % P = 0
  <2> DEFINE e == x * y
             f == x * z
  <2>1. e \in Int /\ f \in Int /\ e % P = 1 /\ f % P = 1
    BY <1>1, <1>3, <1>4, SMT
  <2>2. x * (y - z) = e - f
    BY <1>1, <1>4, SMT
  <2> HIDE DEF e, f
  <2>3. ((e % P) - f) % P = (e - f) % P
    BY <1>1, <2>1, Reduced
  <2>5. 1 \in Int
    OBVIOUS
  <2>6. (1 - (f % P)) % P = (1 - f) % P
    BY <1>1, <2>1, <2>5, Reduced
  <2>4. (1 - 1) % P = 0
    BY <1>1, SMT
  <2> QED BY <2>1, <2>2, <2>3, <2>4, <2>6
<1>6. (y - z) % P = 0
  <2>1. y - z \in Int
    BY <1>1, <1>4, SMT
  <2> QED BY <1>2, <1>5, <2>1, NoZeroDivisors
<1>7. y = z
  <2> DEFINE q == (y - z) \div P
  <2>1. y - z = P * q /\ q \in Int
    BY <1>1, <1>4, <1>6, SMT
  <2> HIDE DEF q
  <2>2. P * q < P /\ P * q > -P
    BY <1>1, <1>3, <1>4, <2>1, SMT
  <2>3. q < 1 /\ q > -1
    BY <1>1, <2>1, <2>2, SMT
  <2> QED BY <1>1, <1>4, <2>1, <2>3, SMT
<1> QED BY <1>7 DEF z

-----------------------------------------------------------------------------
(* Adding points *)

\* The operations modulo P, of reduced numbers.
LEMMA FieldOps ==
  \A a, b \in 0 .. P - 1 :
    /\ AddModP(a, b) = (a + b) % P /\ AddModP(a, b) \in 0 .. P - 1
    /\ SubModP(a, b) = (a - b) % P /\ SubModP(a, b) \in 0 .. P - 1
    /\ MultiplyModP(a, b) = (a * b) % P /\ MultiplyModP(a, b) \in 0 .. P - 1
<1> TAKE a, b \in 0 .. P - 1
<1>1. P \in Nat \ {0} /\ a \in Int /\ b \in Int
  BY FieldConstants, SMT
<1>2. (a + b) % P \in 0 .. P - 1 /\ (a - b) % P \in 0 .. P - 1
  BY <1>1, SMT
<1>3. (a * b) % P \in 0 .. P - 1
  <2> DEFINE y == a * b
  <2>1. y \in Int
    BY <1>1, SMT
  <2> HIDE DEF y
  <2>2. y % P \in 0 .. P - 1
    BY <1>1, <2>1, SMT
  <2> QED BY <2>2 DEF y
<1> QED BY <1>2, <1>3, FieldOperationsExact

\* A point that is not the infinite one.
IsAffine(p) == p.x \in 0 .. P - 1 /\ p.y \in 0 .. P - 1

\* The third point of a line, as the textbook writes it.
Third(s, p, qx) ==
  LET x == (s * s - p.x - qx) % P IN Point(x, (s * (p.x - x) - p.y) % P)

LEMMA OnLineIs ==
  ASSUME NEW s \in 0 .. P - 1, NEW p, IsAffine(p), NEW qx \in 0 .. P - 1
  PROVE  OnLine(s, p, qx) = Third(s, p, qx)
<1> DEFINE px == p.x
           py == p.y
           ss == s * s
           x  == (ss - px - qx) % P
<1>1. /\ P \in Nat \ {0} /\ s \in Int /\ px \in Int /\ py \in Int /\ qx \in Int /\ ss \in Int
      /\ px \in 0 .. P - 1 /\ py \in 0 .. P - 1
  <2>1. P \in Nat \ {0} /\ px \in 0 .. P - 1 /\ py \in 0 .. P - 1
    BY FieldConstants DEF IsAffine
  <2> HIDE DEF px, py
  <2> QED BY <2>1, SMT
<1>2. SubModP(SubModP(MultiplyModP(s, s), px), qx) = ((((ss % P) - px) % P) - qx) % P
  <2>1. MultiplyModP(s, s) = ss % P /\ ss % P \in 0 .. P - 1
    BY <1>1, FieldOps
  <2> DEFINE e == ss % P
  <2> HIDE DEF e, px
  <2>2. SubModP(e, px) = (e - px) % P /\ SubModP(e, px) \in 0 .. P - 1
    BY <1>1, <2>1, FieldOps DEF e
  <2>3. SubModP(SubModP(e, px), qx) = (SubModP(e, px) - qx) % P
    BY <1>1, <2>2, FieldOps
  <2> QED BY <2>1, <2>2, <2>3 DEF e
<1>3. ((((ss % P) - px) % P) - qx) % P = x
  <2> HIDE DEF px, ss
  <2>1. ((ss % P) - px) % P = (ss - px) % P
    BY <1>1, Reduced
  <2>2. ss - px \in Int
    BY <1>1, SMT
  <2>3. (((ss - px) % P) - qx) % P = ((ss - px) - qx) % P
    BY <1>1, <2>2, Reduced
  <2> QED BY <2>1, <2>3
<1>4. x \in 0 .. P - 1 /\ x \in Int
  <2> HIDE DEF px, ss
  <2>1. x \in 0 .. P - 1
    BY <1>1, SMT
  <2> HIDE DEF x
  <2> QED BY <1>1, <2>1, SMT
<1>5. SubModP(MultiplyModP(s, SubModP(px, x)), py) = (s * (px - x) - py) % P
  <2> HIDE DEF px, py, x
  <2> DEFINE f == px - x
             g == f % P
  <2>1. SubModP(px, x) = g /\ g \in 0 .. P - 1 /\ f \in Int
    BY <1>1, <1>4, FieldOps, SMT
  <2> HIDE DEF f, g
  <2> DEFINE h == (s * g) % P
             e == s * f
  <2>2. MultiplyModP(s, g) = h /\ h \in 0 .. P - 1
    BY <2>1, FieldOps
  <2>3. h = e % P /\ e \in Int
    <3>1. (s * (f % P)) % P = (s * f) % P
      BY <1>1, <2>1, Reduced
    <3>2. s * f \in Int
      BY <1>1, <2>1, SMT
    <3> QED BY <3>1, <3>2 DEF g
  <2> HIDE DEF h, e
  <2>4. SubModP(h, py) = (h - py) % P
    BY <1>1, <2>2, FieldOps
  <2>5. ((e % P) - py) % P = (e - py) % P
    BY <1>1, <2>3, Reduced
  <2> QED BY <2>1, <2>2, <2>3, <2>4, <2>5 DEF e, f
<1> QED BY <1>2, <1>3, <1>5 DEF OnLine, Third

\* Reduced or not, a number has the same inverse.
LEMMA InverseOfReduced == \A x \in Int : InvModP(x % P) = InvModP(x)
<1> TAKE x \in Int
<1>1. P \in Nat \ {0} /\ 0 \in Int
  BY FieldConstants
<1>2. ((x % P) + 0) % P = (x + 0) % P
  BY <1>1, Reduced
<1>3. (x % P) + 0 = x % P /\ x + 0 = x
  BY <1>1, SMT
<1> QED BY <1>2, <1>3 DEF InvModP

\* A point has a tangent that is not vertical.
LEMMA TwiceNotZero ==
  ASSUME NEW y \in 1 .. P - 1
  PROVE  (2 * y) % P # 0 /\ (y + y) % P # 0
<1>1. P \in Nat \ {0} /\ P % 2 = 1 /\ y \in Int /\ y + y = 2 * y /\ 0 < y /\ y < P
  BY FieldConstants, ModulusAssumption, SMT
<1>2. ASSUME (2 * y) % P = 0
      PROVE  FALSE
  <2> DEFINE q == (2 * y) \div P
  <2>1. 2 * y = q * P /\ q \in Int
    BY <1>1, <1>2, SMT
  <2> HIDE DEF q
  <2>2. q * P < 2 * P /\ q * P > 0
    BY <1>1, <2>1, SMT
  <2>3. q = 1
    BY <1>1, <2>1, <2>2, SMT
  <2> QED BY <1>1, <2>1, <2>3, SMT
<1> QED BY <1>1, <1>2

LEMMA ProductIsInt == \A a, b \in Int : a * b \in Int
  BY SMT

\* The slopes, of the tangent and of the line through two points.
LEMMA TangentIs ==
  ASSUME NEW x \in 0 .. P - 1, NEW y \in 1 .. P - 1
  PROVE  LET x3 == MultiplyModP(x, x)
             s  == MultiplyModP(AddModP(AddModP(x3, x3), x3), InvModP(AddModP(y, y)))
         IN  s = ((3 * x * x) * InvModP(2 * y)) % P /\ s \in 0 .. P - 1
<1> DEFINE xx == x * x
           x3 == MultiplyModP(x, x)
           n  == InvModP(2 * y)
           s  == MultiplyModP(AddModP(AddModP(x3, x3), x3), InvModP(AddModP(y, y)))
<1>1. P \in Nat \ {0} /\ x \in Int /\ y \in Int /\ y \in 0 .. P - 1 /\ xx \in Int
  BY FieldConstants, SMT
<1>2. x3 = xx % P /\ x3 \in 0 .. P - 1 /\ x3 \in Int
  <2>1. x3 = xx % P /\ x3 \in 0 .. P - 1
    BY FieldOps
  <2> HIDE DEF x3
  <2> QED BY <1>1, <2>1, SMT
<1> HIDE DEF x3
<1>3. AddModP(AddModP(x3, x3), x3) = (3 * xx) % P /\ (3 * xx) % P \in 0 .. P - 1
  <2> DEFINE e == (x3 + x3) % P
  <2>1. AddModP(x3, x3) = e /\ e \in 0 .. P - 1
    BY <1>2, FieldOps
  <2>2. AddModP(e, x3) = (e + x3) % P /\ AddModP(e, x3) \in 0 .. P - 1
    <3> HIDE DEF e
    <3> QED BY <1>2, <2>1, FieldOps
  <2>3. (e + x3) % P = ((x3 + x3) + x3) % P
    <3>1. x3 + x3 \in Int
      BY <1>2, SMT
    <3> QED BY <1>1, <1>2, <3>1, Reduced
  <2>4. (x3 + x3) + x3 = 3 * x3
    BY <1>2, SMT
  <2>5. (3 * x3) % P = (3 * xx) % P
    <3> HIDE DEF xx
    <3>1. 3 \in Int
      OBVIOUS
    <3>2. (3 * (xx % P)) % P = (3 * xx) % P
      BY <1>1, <3>1, Reduced
    <3> QED BY <1>2, <3>2
  <2> QED BY <2>1, <2>2, <2>3, <2>4, <2>5
<1>4. InvModP(AddModP(y, y)) = n
  <2>1. AddModP(y, y) = (y + y) % P /\ y + y = 2 * y /\ 2 * y \in Int
    BY <1>1, FieldOps, SMT
  <2> QED BY <2>1, InverseOfReduced
<1>5. n \in 0 .. P - 1 /\ n \in Int
  <2>1. 2 * y \in Int /\ (2 * y) % P # 0
    BY <1>1, TwiceNotZero, SMT
  <2>2. n \in 1 .. P - 1
    BY <2>1, InverseIs
  <2> HIDE DEF n
  <2> QED BY <1>1, <2>2, SMT
<1> HIDE DEF n
<1> DEFINE t == 3 * xx
<1>6. t \in Int /\ t = 3 * x * x
  BY <1>1, SMT
<1> HIDE DEF xx
<1>7. AddModP(AddModP(x3, x3), x3) = t % P /\ t % P \in 0 .. P - 1
  BY <1>3
<1> HIDE DEF t
<1>8. s = ((t % P) * n) % P /\ s \in 0 .. P - 1
  BY <1>4, <1>5, <1>7, FieldOps
<1>9. ((t % P) * n) % P = (t * n) % P
  BY <1>1, <1>5, <1>6, Reduced
<1> QED BY <1>6, <1>8, <1>9 DEF x3, n

LEMMA ChordIs ==
  ASSUME NEW px \in 0 .. P - 1, NEW py \in 0 .. P - 1, NEW qx \in 0 .. P - 1, NEW qy \in 0 .. P - 1,
         px # qx
  PROVE  LET s == MultiplyModP(SubModP(py, qy), InvModP(SubModP(px, qx)))
         IN  s = ((py - qy) * InvModP(px - qx)) % P /\ s \in 0 .. P - 1
<1> DEFINE e == px - qx
           f == py - qy
           n == InvModP(e)
<1>1. P \in Nat \ {0} /\ e \in Int /\ f \in Int
  BY FieldConstants, SMT
<1>2. e % P # 0
  <2> SUFFICES ASSUME e % P = 0
               PROVE  FALSE
    OBVIOUS
  <2> DEFINE q == e \div P
  <2>1. e = q * P /\ q \in Int
    BY <1>1, SMT
  <2>2. e < P /\ e > -P /\ e # 0
    BY <1>1, SMT
  <2> HIDE DEF q, e
  <2>3. q < 1 /\ q > -1
    BY <1>1, <2>1, <2>2, SMT
  <2> QED BY <1>1, <2>1, <2>2, <2>3, SMT
<1>3. SubModP(px, qx) = e % P /\ SubModP(py, qy) = f % P /\ SubModP(py, qy) \in 0 .. P - 1
  BY FieldOps
<1>4. InvModP(e % P) = n
  BY <1>1, InverseOfReduced
<1>5. n \in 0 .. P - 1 /\ n \in Int
  <2>1. n \in 1 .. P - 1
    BY <1>1, <1>2, InverseIs
  <2> HIDE DEF n
  <2> QED BY <1>1, <2>1, SMT
<1> HIDE DEF e, f, n
<1>6. MultiplyModP(f % P, n) = ((f % P) * n) % P /\ MultiplyModP(f % P, n) \in 0 .. P - 1
  BY <1>3, <1>5, FieldOps
<1>7. ((f % P) * n) % P = (f * n) % P
  BY <1>1, <1>5, Reduced
<1> QED BY <1>3, <1>4, <1>6, <1>7 DEF e, f, n

\* What is known of a point of the curve.
LEMMA PointIs ==
  ASSUME NEW p \in CurvePoints
  PROVE  /\ IsAffine(p) /\ p.y \in 1 .. P - 1 /\ p.x \in Int /\ p.y \in Int
         /\ p = [x |-> p.x, y |-> p.y]
         /\ p # PointAtInfinity /\ ~IsPointAtInfinity(p) /\ p.x # PointAtInfinity.x
         /\ (p.y * p.y) % P = (p.x * p.x * p.x + CurveB) % P
<1> DEFINE px == p.x
           py == p.y
<1>1. /\ px \in 0 .. P - 1 /\ py \in 1 .. P - 1 /\ p = [x |-> px, y |-> py]
      /\ (py * py) % P = (px * px * px + CurveB) % P
  BY DEF CurvePoints
<1>2. P \in Nat \ {0} /\ P < M /\ M \in Nat
  BY FieldConstants
<1> HIDE DEF px, py
<1>3. px # M - 1 /\ px \in Int /\ py \in Int /\ py \in 0 .. P - 1
  BY <1>1, <1>2, SMT
<1>4. PointAtInfinity.x = M - 1
  BY DEF PointAtInfinity, Point
<1> QED BY <1>1, <1>3, <1>4 DEF IsPointAtInfinity, IsAffine, px, py

\* Numbers below P that differ by a multiple of P are equal.
LEMMA SameBelow ==
  \A a, b \in 0 .. P - 1 : (a - b) % P = 0 => a = b
<1> TAKE a, b \in 0 .. P - 1
<1> SUFFICES ASSUME (a - b) % P = 0
             PROVE  a = b
  OBVIOUS
<1> DEFINE e == a - b
           q == e \div P
<1>1. P \in Nat \ {0} /\ e \in Int /\ e < P /\ e > -P /\ a \in Int /\ b \in Int
  BY FieldConstants, SMT
<1>2. e = q * P /\ q \in Int
  BY <1>1, SMT
<1>3. e = a - b
  OBVIOUS
<1> HIDE DEF e, q
<1>4. q < 1 /\ q > -1
  BY <1>1, <1>2, SMT
<1>5. q = 0
  BY <1>2, <1>4, SMT
<1> QED BY <1>1, <1>2, <1>3, <1>5, SMT

\* Two points with one x are equal or opposite.
LEMMA SameXPoints ==
  ASSUME NEW p \in CurvePoints, NEW q \in CurvePoints, p.x = q.x
  PROVE  p = q \/ (p.y + q.y) % P = 0
<1> DEFINE a == p.y
           b == q.y
           e == a * a
           f == b * b
<1>1. /\ a \in 0 .. P - 1 /\ b \in 0 .. P - 1 /\ e % P = f % P
      /\ p = [x |-> p.x, y |-> a] /\ q = [x |-> p.x, y |-> b]
  BY PointIs DEF IsAffine
<1>2. P \in Nat \ {0}
  BY FieldConstants
<1> HIDE DEF a, b
<1>3. a \in Int /\ b \in Int /\ e \in Int /\ f \in Int /\ (a - b) * (a + b) = e - f
      /\ a - b \in Int /\ a + b \in Int
  BY <1>1, <1>2, SMT
<1> HIDE DEF e, f
<1>4. (e - f) % P = 0
  <2>1. ((e % P) - f) % P = (e - f) % P /\ ((f % P) - f) % P = (f - f) % P
    BY <1>2, <1>3, Reduced
  <2>2. (f - f) % P = 0
    BY <1>2, <1>3, SMT
  <2> QED BY <1>1, <2>1, <2>2
<1>5. CASE (a - b) % P = 0
  BY <1>1, <1>5, SameBelow
<1>6. CASE (a - b) % P # 0
  <2>1. (a + b) % P = 0
    BY <1>3, <1>4, <1>6, NoZeroDivisors
  <2> QED BY <2>1 DEF a, b
<1> QED BY <1>5, <1>6

\* The sum of a point and itself.
LEMMA DoubleIsSum ==
  ASSUME NEW p \in CurvePoints
  PROVE  DoublePoint(p) = GroupSum(p, p) /\ GroupSum(p, p) # PointAtInfinity
<1> DEFINE px == p.x
           py == p.y
           s == ((3 * px * px) * InvModP(2 * py)) % P
           x3 == MultiplyModP(px, px)
<1>1. /\ px \in 0 .. P - 1 /\ py \in 1 .. P - 1 /\ p # PointAtInfinity /\ IsAffine(p)
      /\ (py + py) % P # 0
  BY PointIs, TwiceNotZero DEF IsAffine
<1>2. /\ s = MultiplyModP(AddModP(AddModP(x3, x3), x3), InvModP(AddModP(py, py)))
      /\ s \in 0 .. P - 1
  <2> HIDE DEF px, py
  <2> QED BY <1>1, TangentIs
<1>3. DoublePoint(p) = OnLine(s, p, px)
  BY <1>2 DEF DoublePoint
<1>4. OnLine(s, p, px) = Third(s, p, px)
  <2> HIDE DEF s
  <2> QED BY <1>1, <1>2, OnLineIs
<1>5. GroupSum(p, p) = Third(s, p, px)
  <2>1. Slope(p, p) % P = s
    BY DEF Slope
  <2> HIDE DEF s
  <2> QED BY <1>1, <2>1 DEF GroupSum, Third
<1>6. Third(s, p, px) # PointAtInfinity
  <2> DEFINE x == (s * s - px - px) % P
  <2>1. Third(s, p, px).x = x
    BY DEF Third, Point
  <2> HIDE DEF s, px
  <2>2. s \in Int /\ px \in Int /\ P \in Nat \ {0} /\ P < M /\ M \in Nat
    BY <1>1, <1>2, FieldConstants, SMT
  <2>3. s * s - px - px \in Int
    BY <2>2, SMT
  <2>4. x \in 0 .. P - 1
    <3> DEFINE y == s * s - px - px
    <3> HIDE DEF y
    <3>1. y % P \in 0 .. P - 1
      BY <2>2, <2>3, SMT DEF y
    <3> QED BY <3>1 DEF y
  <2> HIDE DEF x
  <2>5. x # M - 1
    BY <2>2, <2>4, SMT
  <2> QED BY <2>1, <2>5 DEF PointAtInfinity, Point
<1> QED BY <1>3, <1>4, <1>5, <1>6

\* addPoints is the sum, of a point or the infinite one and a point.
LEMMA AddIsSum ==
  ASSUME NEW p \in CurvePoints, NEW q \in CurvePoints
  PROVE  AddPoints(p, q) = GroupSum(p, q)
<1>1. /\ IsAffine(p) /\ p # PointAtInfinity /\ ~IsPointAtInfinity(p)
      /\ IsAffine(q) /\ q # PointAtInfinity /\ ~IsPointAtInfinity(q)
  BY PointIs
<1>2. CASE p = q
  BY <1>2, DoubleIsSum DEF AddPoints
<1>3. CASE p # q /\ p.x = q.x
  BY <1>1, <1>3, SameXPoints DEF AddPoints, GroupSum
<1>4. CASE p # q /\ p.x # q.x
  <2> DEFINE s == ((p.y - q.y) * InvModP(p.x - q.x)) % P
  <2>1. /\ s = MultiplyModP(SubModP(p.y, q.y), InvModP(SubModP(p.x, q.x)))
        /\ s \in 0 .. P - 1
    <3> DEFINE px == p.x
               py == p.y
               qx == q.x
               qy == q.y
    <3>1. px \in 0 .. P - 1 /\ py \in 0 .. P - 1 /\ qx \in 0 .. P - 1 /\ qy \in 0 .. P - 1 /\ px # qx
      BY <1>1, <1>4 DEF IsAffine
    <3> HIDE DEF px, py, qx, qy
    <3>2. LET t == MultiplyModP(SubModP(py, qy), InvModP(SubModP(px, qx)))
          IN  t = ((py - qy) * InvModP(px - qx)) % P /\ t \in 0 .. P - 1
      BY <3>1, ChordIs
    <3> QED BY <3>2 DEF px, py, qx, qy
  <2>2. AddPoints(p, q) = OnLine(s, p, q.x)
    BY <1>1, <1>4, <2>1 DEF AddPoints
  <2>3. OnLine(s, p, q.x) = Third(s, p, q.x)
    <3> HIDE DEF s
    <3>1. q.x \in 0 .. P - 1
      BY <1>1 DEF IsAffine
    <3> QED BY <1>1, <2>1, <3>1, OnLineIs
  <2>4. GroupSum(p, q) = Third(s, p, q.x)
    <3>1. Slope(p, q) % P = s
      BY <1>4 DEF Slope
    <3> HIDE DEF s
    <3> QED BY <1>1, <1>4, <3>1 DEF GroupSum, Third
  <2> QED BY <2>2, <2>3, <2>4
<1> QED BY <1>2, <1>3, <1>4

LEMMA AddInfinity ==
  ASSUME NEW p \in CurvePoints
  PROVE  AddPoints(PointAtInfinity, p) = p /\ AddPoints(p, PointAtInfinity) = p
<1>1. p # PointAtInfinity /\ p.x # PointAtInfinity.x /\ ~IsPointAtInfinity(p)
  BY PointIs
<1>2. IsPointAtInfinity(PointAtInfinity)
  BY DEF IsPointAtInfinity, PointAtInfinity, Point
<1> QED BY <1>1, <1>2 DEF AddPoints

-----------------------------------------------------------------------------
(* Multiples of G *)

LEMMA MultipleIs ==
  \A n \in Nat : /\ Multiple(n) = Multiple(n % N)
                 /\ n % N = 0 => Multiple(n) = PointAtInfinity
                 /\ n % N # 0 => Multiple(n) \in CurvePoints
<1> TAKE n \in Nat
<1> DEFINE r == n % N
<1>1. N \in Nat \ {0} /\ 0 \in Int
  BY FieldConstants
<1>2. r \in 0 .. N - 1 /\ r % N = r
  <2>1. r \in 0 .. N - 1
    BY <1>1, SMT
  <2> HIDE DEF r
  <2>2. r \in Nat /\ r < N
    BY <1>1, <2>1, SMT
  <2> QED BY <1>1, <2>1, <2>2, SmallRemainder
<1> HIDE DEF r
<1>3. Multiple(n) = Multiple(r)
  BY <1>2 DEF Multiple, r
<1>4. r # 0 => r \in 1 .. N - 1
  BY <1>1, <1>2, SMT
<1> QED BY <1>3, <1>4, GroupAssumption DEF r

\* The sum of two multiples is the multiple of the sum.
LEMMA MultipleSum ==
  \A m, n \in Nat : GroupSum(Multiple(m), Multiple(n)) = Multiple(m + n)
<1> TAKE m, n \in Nat
<1> DEFINE r == m % N
           s == n % N
<1>1. N \in Nat \ {0} /\ m \in Int /\ n \in Int
  BY FieldConstants
<1>2. r \in 0 .. N - 1 /\ s \in 0 .. N - 1
  BY <1>1, SMT
<1>3. (r + s) % N = (m + n) % N
  <2>1. ((m % N) + n) % N = (m + n) % N
    BY <1>1, Reduced
  <2> HIDE DEF r
  <2>2. r \in Int
    BY <1>1, <1>2, SMT
  <2>3. (r + (n % N)) % N = (r + n) % N
    BY <1>1, <2>2, Reduced
  <2> QED BY <2>1, <2>3 DEF r
<1>4. Multiple(r + s) = Multiple(m + n)
  BY <1>3 DEF Multiple
<1>5. Multiple(m) = Multiple(r) /\ Multiple(n) = Multiple(s)
  BY MultipleIs
<1> HIDE DEF r, s
<1>6. GroupSum(Multiple(r), Multiple(s)) = Multiple(r + s)
  BY <1>2, GroupAssumption
<1> QED BY <1>4, <1>5, <1>6

\* Twice a multiple is not the infinite point: the order is odd.
LEMMA MultipleTwice ==
  ASSUME NEW n \in Nat, n % N # 0
  PROVE  DoublePoint(Multiple(n)) = Multiple(2 * n) /\ (2 * n) % N # 0 /\ 2 * n \in Nat
<1>1. Multiple(n) \in CurvePoints
  BY MultipleIs
<1>2. n + n = 2 * n /\ 2 * n \in Nat
  BY SMT
<1>3. GroupSum(Multiple(n), Multiple(n)) = Multiple(2 * n)
  BY <1>2, MultipleSum
<1>4. DoublePoint(Multiple(n)) = Multiple(2 * n) /\ Multiple(2 * n) # PointAtInfinity
  BY <1>1, <1>3, DoubleIsSum
<1> QED BY <1>2, <1>4, MultipleIs

\* addPoints on multiples, of which the second is not the infinite point.
LEMMA MultipleAdd ==
  ASSUME NEW m \in Nat, NEW n \in Nat, n % N # 0
  PROVE  AddPoints(Multiple(m), Multiple(n)) = Multiple(m + n)
<1>1. Multiple(n) \in CurvePoints
  BY MultipleIs
<1>2. CASE m % N = 0
  <2>1. Multiple(m) = PointAtInfinity
    BY <1>2, MultipleIs
  <2>2. GroupSum(Multiple(m), Multiple(n)) = Multiple(n)
    BY <2>1 DEF GroupSum
  <2> QED BY <1>1, <2>1, <2>2, AddInfinity, MultipleSum
<1>3. CASE m % N # 0
  <2>1. Multiple(m) \in CurvePoints
    BY <1>3, MultipleIs
  <2> QED BY <1>1, <2>1, AddIsSum, MultipleSum
<1> QED BY <1>2, <1>3

\* Multiples are equal only if their difference is a multiple of the order.
LEMMA MultipleOnce ==
  \A m, n \in 0 .. N - 1 : Multiple(m) = Multiple(n) => m = n
<1>1. ASSUME NEW m \in 0 .. N - 1, NEW n \in 0 .. N - 1, m < n, Multiple(m) = Multiple(n)
      PROVE  FALSE
  <2> DEFINE e == N - n
             f == m + e
  <2>1. /\ N \in Nat \ {0} /\ e \in Nat /\ n \in Nat /\ m \in Nat /\ n + e = N
        /\ f \in 1 .. N - 1 /\ f \in Nat /\ f < N
    BY <1>1, FieldConstants, SMT
  <2>2. Multiple(f) = Multiple(N)
    <3>1. GroupSum(Multiple(m), Multiple(e)) = Multiple(f)
      BY <2>1, MultipleSum
    <3> HIDE DEF e, f
    <3>2. GroupSum(Multiple(n), Multiple(e)) = Multiple(N)
      BY <2>1, MultipleSum
    <3> QED BY <1>1, <3>1, <3>2
  <2> HIDE DEF f, e
  <2>3. f % N = f /\ f # 0 /\ N % N = 0
    BY <2>1, SmallRemainder, SMT
  <2>4. Multiple(f) \in CurvePoints /\ Multiple(N) = PointAtInfinity
    BY <2>1, <2>3, MultipleIs
  <2>5. Multiple(f) # PointAtInfinity
    BY <2>4, PointIs
  <2> QED BY <2>2, <2>4, <2>5
<1>2. ASSUME NEW m \in 0 .. N - 1, NEW n \in 0 .. N - 1, Multiple(m) = Multiple(n)
      PROVE  m = n
  <2>1. ~(m < n) /\ ~(n < m)
    BY <1>1, <1>2
  <2>2. m \in Int /\ n \in Int
    BY FieldConstants, SMT
  <2> QED BY <2>1, <2>2, SMT
<1> QED BY <1>2

\* Multiples with one x: the same point or its opposite.
LEMMA MultipleSameX ==
  ASSUME NEW m \in Nat, NEW n \in Nat, m % N # 0, n % N # 0, Multiple(m).x = Multiple(n).x
  PROVE  m % N = n % N \/ (m + n) % N = 0
<1> DEFINE p == Multiple(m)
           q == Multiple(n)
<1>1. p \in CurvePoints /\ q \in CurvePoints
  BY MultipleIs
<1>2. CASE p = q
  <2>1. Multiple(m % N) = Multiple(n % N)
    BY <1>2, MultipleIs
  <2>2. m % N \in 0 .. N - 1 /\ n % N \in 0 .. N - 1
    BY FieldConstants, SMT
  <2> QED BY <2>1, <2>2, MultipleOnce
<1>3. CASE p # q
  <2>1. (p.y + q.y) % P = 0
    BY <1>1, <1>3, SameXPoints
  <2>2. p # PointAtInfinity /\ q # PointAtInfinity
    BY <1>1, PointIs
  <2>3. GroupSum(p, q) = PointAtInfinity
    BY <2>1, <2>2 DEF GroupSum
  <2>4. Multiple(m + n) = PointAtInfinity /\ m + n \in Nat
    BY <2>3, MultipleSum, SMT
  <2> QED BY <2>4, MultipleIs, PointIs
<1> QED BY <1>2, <1>3

\* Multiples of the generator are on the curve, as PointExists computes it.
LEMMA ExistsIs ==
  ASSUME NEW p \in CurvePoints
  PROVE  PointExists(p)
<1> DEFINE px == p.x
           py == p.y
           a == MultiplyModP(px, px)
           b == MultiplyModP(a, px)
           xx == px * px
<1>1. /\ px \in 0 .. P - 1 /\ py \in 0 .. P - 1 /\ CurveB \in 0 .. P - 1
      /\ px \in Int /\ py \in Int /\ CurveB \in Int /\ P \in Nat \ {0}
      /\ (py * py) % P = (px * px * px + CurveB) % P
  BY PointIs, GeneratorAssumption, FieldConstants, SMT DEF IsAffine
<1> HIDE DEF px, py
<1>2. a = xx % P /\ a \in 0 .. P - 1 /\ MultiplyModP(py, py) = (py * py) % P
  BY <1>1, FieldOps
<1>3. b = (a * px) % P /\ b \in 0 .. P - 1
  BY <1>1, <1>2, FieldOps
<1>4. AddModP(b, CurveB) = (b + CurveB) % P
  BY <1>1, <1>3, FieldOps
<1>5. xx \in Int /\ xx * px \in Int
  BY <1>1, SMT
<1>6. ((xx % P) * px) % P = (xx * px) % P
  BY <1>1, <1>5, Reduced
<1>7. (((xx * px) % P) + CurveB) % P = (xx * px + CurveB) % P
  BY <1>1, <1>5, Reduced
<1>8. px * px * px = xx * px
  OBVIOUS
<1> HIDE DEF xx
<1>9. b = (xx * px) % P
  BY <1>2, <1>3, <1>6
<1>10. AddModP(b, CurveB) = (py * py) % P
  BY <1>1, <1>4, <1>7, <1>8, <1>9
<1> QED BY <1>2, <1>10 DEF PointExists, CubePlusB, px, py

LEMMA NegIsOpposite ==
  ASSUME NEW p \in CurvePoints
  PROVE  AddPoints(p, NegPoint(p)) = PointAtInfinity
<1> DEFINE y == p.y
           n == NegModP(y)
<1>1. y \in 1 .. P - 1 /\ P \in Nat \ {0} /\ P % 2 = 1
  BY PointIs, FieldConstants, ModulusAssumption
<1>2. ~(P < y) /\ P \in Int /\ y \in Int /\ y # P - y
  <2> HIDE DEF y
  <2> QED BY <1>1, SMT
<1>3. n = P - y
  BY <1>2, Zenon DEF NegModP, SubModP, SubMod
<1>4. NegPoint(p) = [x |-> p.x, y |-> n]
  BY DEF NegPoint, Point
<1>5. NegPoint(p).x = p.x /\ NegPoint(p).y # p.y
  BY <1>2, <1>3, <1>4
<1> QED BY <1>5 DEF AddPoints

\* What the calls of a number's point promise.
LEMMA PointOfNumber ==
  ASSUME NEW n \in Nat, n % N # 0
  PROVE  LET p == Multiple(n)
         IN  PointExists(p) /\ AddPoints(p, NegPoint(p)) = PointAtInfinity
             /\ AddPoints(p, p) = Multiple(2 * n) /\ AddPoints(p, PointAtInfinity) = p
<1>1. Multiple(n) \in CurvePoints
  BY MultipleIs
<1>2. n + n = 2 * n
  BY SMT
<1> QED BY <1>1, <1>2, ExistsIs, NegIsOpposite, MultipleAdd, AddInfinity

-----------------------------------------------------------------------------
(* multiplyPoint *)

\* Words that are zero do not count.
LEMMA ValueOfLow ==
  ASSUME NEW len \in Nat, len <= 2 * NumWords, NEW a \in Digits(len), NEW n \in 0 .. len,
         \A j \in n .. len - 1 : a[j] = 0
  PROVE  Value(a, len) = Value(a, n)
<1> DEFINE S == {j \in Nat : n + j <= len => Value(a, n + j) = Value(a, n)}
<1>1. /\ \A j \in 0 .. len - 1 : a[j] \in Int /\ Value(a, j + 1) = Value(a, j) + a[j] * BaseTo(j)
      /\ \A j \in 0 .. len : Value(a, j) \in Int
  BY DigitsAreIntegers, ValueNext
<1>2. 0 \in S
  <2>1. n + 0 = n
    BY SMT
  <2> QED BY <2>1
<1>3. ASSUME NEW j \in Nat, j \in S
      PROVE  j + 1 \in S
  <2> SUFFICES ASSUME n + (j + 1) <= len
               PROVE  Value(a, n + (j + 1)) = Value(a, n)
    OBVIOUS
  <2> DEFINE h == n + j
  <2>1. /\ h \in 0 .. len - 1 /\ h \in n .. len - 1 /\ h <= len /\ n + (j + 1) = h + 1
        /\ h \in Nat /\ h <= 2 * NumWords /\ h \in 0 .. len
    BY WidthIs, SMT
  <2>2. Value(a, h) = Value(a, n)
    BY <1>3, <2>1
  <2> HIDE DEF h
  <2>3. Value(a, h + 1) = Value(a, h) + 0 * BaseTo(h) /\ Value(a, h) \in Int /\ BaseTo(h) \in Nat
    BY <1>1, <2>1, PowersOfBase
  <2>4. Value(a, h + 1) = Value(a, h)
    <3> DEFINE x == BaseTo(h)
               y == Value(a, h)
    <3> HIDE DEF x, y
    <3>1. x \in Nat /\ y \in Int => y + 0 * x = y
      BY SMT
    <3> QED BY <2>3, <3>1 DEF x, y
  <2> QED BY <2>1, <2>2, <2>4
<1>4. Nat \subseteq S
  <2> HIDE DEF S
  <2> QED BY <1>2, <1>3, SetInduction
<1>5. len - n \in Nat /\ n + (len - n) = len
  BY SMT
<1> QED BY <1>4, <1>5

\* The loop of multiplyPoint sees every bit that is set.
LEMMA KeyBitsIs ==
  ASSUME NEW key \in Numbers
  PROVE  /\ KeyBits(key) \in 0 .. Bits
         /\ key % TwoTo[KeyBits(key)] = key
<1> DEFINE x    == ToWords(key, NumWords)
           used == {w \in Words(NumWords) : x[w] # 0}
           n    == IF used = {} THEN 0 ELSE Max(used) + 1
<1>1. /\ NumWords \in Nat \ {0} /\ WordBits \in Nat \ {0} /\ NumWords <= 2 * NumWords
      /\ Bits = WordBits * NumWords /\ key \in Nat
      /\ x \in Digits(NumWords) /\ Value(x, NumWords) = key
  BY WidthIs, NumberIs, NumbersAreWords
<1>2. n \in 0 .. NumWords /\ \A j \in n .. NumWords - 1 : x[j] = 0
  <2>1. CASE used = {}
    <3>1. n = 0 /\ 0 \in 0 .. NumWords
      BY <1>1, <2>1, SMT
    <3>2. \A j \in 0 .. NumWords - 1 : x[j] = 0
      BY <2>1 DEF Words
    <3> QED BY <3>1, <3>2
  <2>2. CASE used # {}
    <3> DEFINE top == Max(used)
    <3>1. used \in SUBSET (0 .. NumWords - 1) /\ NumWords - 1 \in Nat
      BY <1>1, SMT DEF Words
    <3>2. top \in used /\ \A j \in used : j <= top
      <4> HIDE DEF used
      <4> QED BY <2>2, <3>1, MaxIs
    <3>3. top \in 0 .. NumWords - 1 /\ n = top + 1
      BY <2>2, <3>1, <3>2
    <3> HIDE DEF top, n
    <3>4. n \in 0 .. NumWords
      BY <1>1, <3>3, SMT
    <3>5. ASSUME NEW j \in n .. NumWords - 1
          PROVE  x[j] = 0
      <4>1. j \in Words(NumWords) /\ ~(j <= top)
        BY <1>1, <3>3, <3>4, SMT DEF Words
      <4> QED BY <3>2, <4>1
    <3> QED BY <3>4, <3>5
  <2> QED BY <2>1, <2>2
<1>3. KeyBits(key) = WordBits * n
  <2>1. WordBits * 0 = 0
    BY <1>1, SMT
  <2> QED BY <2>1 DEF KeyBits
<1> HIDE DEF x, n
<1>4. n \in Nat /\ n <= NumWords /\ n <= 2 * NumWords /\ n \in 0 .. NumWords
  BY <1>1, <1>2, SMT
<1>5. WordBits * n \in 0 .. Bits
  <2>1. WordBits * n <= WordBits * NumWords /\ WordBits * n \in Nat
    BY <1>1, <1>4, ProductsGrow
  <2>2. WordBits * NumWords \in Nat
    BY <1>1, SMT
  <2> QED BY <1>1, <2>1, <2>2, SMT
<1>6. key % BaseTo(n) = key
  <2>1. Value(x, NumWords) = Value(x, n)
    BY <1>1, <1>2, ValueOfLow
  <2>2. Value(x, n) < BaseTo(n)
    BY <1>1, <1>4, ValueBelow
  <2>3. BaseTo(n) \in Nat \ {0}
    BY <1>4, PowersOfBase
  <2> QED BY <1>1, <2>1, <2>2, <2>3, SmallRemainder
<1> QED BY <1>3, <1>5, <1>6 DEF BaseTo

\* One bit more of a key.
LEMMA NextBit ==
  ASSUME NEW key \in Numbers, NEW n \in 0 .. Bits - 1
  PROVE  /\ TwoTo[n] \in Nat \ {0} /\ TwoTo[n + 1] = 2 * TwoTo[n]
         /\ key % TwoTo[n] \in Nat
         /\ KeyBit(key, n)  => key % TwoTo[n + 1] = (key % TwoTo[n]) + TwoTo[n]
         /\ ~KeyBit(key, n) => key % TwoTo[n + 1] = key % TwoTo[n]
<1> DEFINE t == TwoTo[n]
           r == key % t
           b == (key \div t) % 2
<1>1. t \in Nat \ {0} /\ TwoTo[n + 1] = 2 * t /\ key \in Nat
  <2>1. n \in 0 .. 2 * Bits - 1 /\ n \in 0 .. 2 * Bits
    BY WidthIs, SMT
  <2> QED BY <2>1, NumberIs, PowersOfTwo, TwoToPositive
<1>2. KeyBit(key, n) = (b = 1)
  BY BitIs DEF KeyBit
<1> HIDE DEF t
<1>3. key % (2 * t) = r + b * t
  <2>1. 2 \in Nat \ {0}
    BY SMT
  <2> QED BY <1>1, <2>1, DivideTwice
<1>4. r \in Nat /\ b \in {0, 1}
  <2>1. key \div t \in Int /\ key % t \in Nat
    BY <1>1, SMT
  <2> QED BY <2>1, SMT
<1> HIDE DEF r, b
<1>5. 1 * t = t /\ r + 0 * t = r
  BY <1>1, <1>4, SMT
<1>6. /\ b = 1 => key % (2 * t) = r + t
      /\ b # 1 => key % (2 * t) = r
  BY <1>3, <1>4, <1>5
<1> QED BY <1>1, <1>2, <1>4, <1>6 DEF t, r

MultiplyInv ==
  /\ k \in Numbers /\ i \in 0 .. Bits
  /\ \E m \in Bases : /\ base = Multiple(m)
                      /\ sum = Multiple(m * (k % TwoTo[i]))
                      /\ d = Multiple(m * TwoTo[i])
                      /\ (m * TwoTo[i]) % N # 0

LEMMA MultiplyStarts ==
  ASSUME NEW key \in Numbers, NEW m \in Bases, MultiplyInit(key, Multiple(m))
  PROVE  MultiplyInv
<1>1. m \in Nat /\ m % N # 0 /\ key \in Nat /\ m * 1 = m /\ m * 0 = 0 /\ 0 \in Nat
  BY CallAssumption, NumberIs, SMT
<1>2. TwoTo[0] = 1 /\ key % 1 = 0 /\ 0 \in 0 .. Bits
  BY <1>1, WidthIs, PowersOfTwo, SMT
<1>3. 0 % N = 0
  BY FieldConstants, SMT
<1>4. Multiple(0) = PointAtInfinity
  BY <1>1, <1>3, MultipleIs
<1> QED BY <1>1, <1>2, <1>4 DEF MultiplyInit, MultiplyInv

LEMMA MultiplySteps ==
  ASSUME MultiplyInv, MultiplyStep
  PROVE  MultiplyInv'
<1>1. PICK m \in Bases : /\ base = Multiple(m)
                         /\ sum = Multiple(m * (k % TwoTo[i]))
                         /\ d = Multiple(m * TwoTo[i])
                         /\ (m * TwoTo[i]) % N # 0
  BY DEF MultiplyInv
<1>2. k \in Numbers /\ i \in 0 .. Bits - 1 /\ i' = i + 1 /\ i + 1 \in 0 .. Bits
  <2>1. k \in Numbers /\ i \in 0 .. Bits /\ i < KeyBits(k) /\ i' = i + 1
    BY DEF MultiplyInv, MultiplyStep
  <2>2. KeyBits(k) \in 0 .. Bits /\ Bits \in Nat
    BY <2>1, KeyBitsIs, WidthIs
  <2> QED BY <2>1, <2>2, SMT
<1> DEFINE t == TwoTo[i]
           r == k % t
           e == m * t
           f == m * r
<1>3. /\ t \in Nat \ {0} /\ TwoTo[i + 1] = 2 * t /\ r \in Nat
      /\ KeyBit(k, i)  => k % TwoTo[i + 1] = r + t
      /\ ~KeyBit(k, i) => k % TwoTo[i + 1] = r
  BY <1>2, NextBit
<1>4. m \in Nat
  BY CallAssumption
<1> HIDE DEF t, r
<1>5. /\ e \in Nat /\ f \in Nat /\ f + e = m * (r + t) /\ 2 * e = m * (2 * t)
  BY <1>3, <1>4, SMT
<1>6. /\ base = Multiple(m) /\ sum = Multiple(f) /\ d = Multiple(e) /\ e % N # 0
  BY <1>1 DEF t, r
<1> HIDE DEF e, f
<1>7. AddPoints(sum, d) = Multiple(f + e)
  BY <1>5, <1>6, MultipleAdd
<1>8. DoublePoint(d) = Multiple(2 * e) /\ (2 * e) % N # 0
  BY <1>5, <1>6, MultipleTwice
<1>9. sum' = Multiple(m * (k % TwoTo[i + 1]))
  <2>1. CASE KeyBit(k, i)
    BY <2>1, <1>3, <1>5, <1>7 DEF MultiplyStep
  <2>2. CASE ~KeyBit(k, i)
    BY <2>2, <1>3, <1>6 DEF MultiplyStep, f
  <2> QED BY <2>1, <2>2
<1>10. d' = Multiple(m * TwoTo[i + 1]) /\ (m * TwoTo[i + 1]) % N # 0
  BY <1>3, <1>5, <1>8 DEF MultiplyStep
<1>11. k' = k /\ base' = Multiple(m)
  BY <1>6 DEF MultiplyStep
<1> QED BY <1>2, <1>9, <1>10, <1>11 DEF MultiplyInv

\* What is proved of the loop is what KeysAreMultiples says of it.
LEMMA MultiplyMultiplies ==
  ASSUME MultiplyInv
  PROVE  \E m \in Bases : /\ base = Multiple(m)
                          /\ sum = Multiple(m * (k % TwoTo[i]))
                          /\ d = Multiple(m * TwoTo[i])
                          /\ i = KeyBits(k) => sum = Multiple(m * k)
<1>1. k % TwoTo[KeyBits(k)] = k
  BY KeyBitsIs DEF MultiplyInv
<1> QED BY <1>1 DEF MultiplyInv

-----------------------------------------------------------------------------
(* generateKeyPairsBulk *)

\* No power of two is a multiple of the order, and those below M are below it.
LEMMA PowersOfKeys ==
  \A n \in 0 .. Bits :
    /\ TwoTo[n] \in Nat /\ TwoTo[n] % N # 0
    /\ n # Bits => TwoTo[n + 1] = 2 * TwoTo[n] /\ TwoTo[n] < N /\ 2 * TwoTo[n] <= M
<1>1. /\ \A n \in 0 .. Bits : TwoTo[n] \in Nat
      /\ \A n \in 0 .. Bits - 1 : TwoTo[n + 1] = 2 * TwoTo[n]
      /\ TwoTo[0] = 1
  <2>1. \A n \in 0 .. Bits : n \in 0 .. 2 * Bits
    BY WidthIs, SMT
  <2>2. \A n \in 0 .. Bits - 1 : n \in 0 .. 2 * Bits - 1
    BY WidthIs, SMT
  <2> QED BY <2>1, <2>2, PowersOfTwo, TwoToPositive
<1> DEFINE S == {n \in Nat : n \in 0 .. Bits => TwoTo[n] % N # 0}
<1>2. 0 \in S
  <2>1. 1 % N = 1 /\ 0 \in Nat
    BY FieldConstants, SMT
  <2> QED BY <1>1, <2>1
<1>3. ASSUME NEW n \in Nat, n \in S
      PROVE  n + 1 \in S
  <2> SUFFICES ASSUME n + 1 \in 0 .. Bits
               PROVE  TwoTo[n + 1] % N # 0
    OBVIOUS
  <2>1. n \in 0 .. Bits /\ n \in 0 .. Bits - 1
    BY WidthIs, SMT
  <2> QED BY <1>1, <1>3, <2>1, MultipleTwice
<1>4. Nat \subseteq S
  <2> HIDE DEF S
  <2> QED BY <1>2, <1>3, SetInduction
<1>5. \A n \in 0 .. Bits : TwoTo[n] % N # 0
  BY <1>4
<1> HIDE DEF S
<1>6. ASSUME NEW n \in 0 .. Bits, n # Bits
      PROVE  TwoTo[n + 1] = 2 * TwoTo[n] /\ TwoTo[n] < N /\ 2 * TwoTo[n] <= M
  <2>1. n \in 0 .. Bits - 1 /\ n \in Nat /\ Bits - n \in Nat /\ (Bits - n) - 1 \in Nat
        /\ n + (Bits - n) = Bits /\ 1 + ((Bits - n) - 1) = Bits - n /\ Bits <= 2 * Bits /\ Bits - n <= 2 * Bits
    BY <1>6, WidthIs, SMT
  <2> DEFINE e == Bits - n
  <2>2. TwoTo[n + e] = TwoTo[n] * TwoTo[e]
    <3> HIDE DEF e
    <3> QED BY <2>1, TwoToSum DEF e
  <2>3. TwoTo[1 + (e - 1)] = TwoTo[1] * TwoTo[e - 1]
    <3>1. 1 \in Nat
      OBVIOUS
    <3> QED BY <2>1, <3>1, TwoToSum
  <2>4. TwoTo[1] = 2
    <3>1. 0 \in 0 .. Bits - 1 /\ 0 + 1 = 1 /\ 2 * 1 = 2
      BY WidthIs, SMT
    <3> QED BY <1>1, <3>1
  <2>5. TwoTo[e - 1] \in Nat \ {0} /\ TwoTo[n] \in Nat
    <3>1. e - 1 \in 0 .. 2 * Bits
      BY <2>1, SMT
    <3> QED BY <1>1, <3>1, TwoToPositive
  <2>6. M = TwoTo[Bits]
    BY NumberIs, WidthIs DEF BaseTo
  <2> DEFINE s == TwoTo[n]
             g == TwoTo[e - 1]
  <2>7. M = s * (2 * g)
    BY <2>1, <2>2, <2>3, <2>4, <2>6
  <2>8. s \in Nat /\ g \in Nat /\ 1 <= g
    BY <2>5, SMT
  <2> HIDE DEF s, g
  <2>9. s * (2 * g) = 2 * (s * g) /\ s * 1 = s /\ s * g \in Nat
    BY <2>8, SMT
  <2>10. 1 \in Nat
    OBVIOUS
  <2>11. s * 1 <= s * g
    BY <2>8, <2>10, ProductsGrow
  <2>12. s < N /\ 2 * s <= M
    BY <2>7, <2>8, <2>9, <2>11, FieldConstants, SMT
  <2> QED BY <1>1, <2>1, <2>12 DEF s
<1> QED BY <1>1, <1>5, <1>6

\* The table of generateKeyPairsBulk: the point of every bit.
LEMMA BulkTableIs ==
  BulkTable = [j \in 1 .. Bits |-> Multiple(TwoTo[j - 1])]
<1> DEFINE D == 1 .. Bits
           F == [n \in D |-> [j \in 1 .. n |-> Multiple(TwoTo[j - 1])]]
           Next_(s) == Append(s, DoublePoint(Last(s)))
           table == CHOOSE f : f = [n \in D |-> IF n = 1 THEN <<G>>
                      ELSE LET before == f[n - 1] IN Append(before, DoublePoint(Last(before)))]
<1>1. F[1] = <<G>> /\ 1 \in D
  <2>1. 1 \in D /\ 1 - 1 = 0
    BY WidthIs, SMT
  <2>2. Multiple(TwoTo[0]) = G
    BY PowersOfTwo, GroupAssumption
  <2>3. F[1] = [j \in 1 .. 1 |-> Multiple(TwoTo[j - 1])]
    BY <2>1
  <2>4. \A j \in 1 .. 1 : Multiple(TwoTo[j - 1]) = G
    BY <2>1, <2>2
  <2>5. F[1] = [j \in 1 .. 1 |-> G]
    BY <2>3, <2>4
  <2>6. <<G>> = [j \in 1 .. 1 |-> G]
    OBVIOUS
  <2> QED BY <2>1, <2>5, <2>6
<1>2. ASSUME NEW n \in D, n # 1
      PROVE  n - 1 \in D /\ F[n] = Next_(F[n - 1])
  <2>1. n - 1 \in D /\ n - 1 \in Nat /\ (n - 1) + 1 = n /\ n - 1 # 0
    BY <1>2, WidthIs, SMT
  <2> DEFINE s == F[n - 1]
             q == Multiple(TwoTo[n - 1])
  <2>2. s = [j \in 1 .. n - 1 |-> Multiple(TwoTo[j - 1])]
    BY <2>1
  <2>3. Len(s) = n - 1 /\ s[n - 1] = Multiple(TwoTo[(n - 1) - 1])
    BY <2>1, <2>2, SMT
  <2>4. DoublePoint(Last(s)) = q
    <3> DEFINE e == (n - 1) - 1
    <3>1. e \in 0 .. Bits /\ e # Bits /\ e + 1 = n - 1
      BY <1>2, <2>1, WidthIs, SMT
    <3> HIDE DEF e
    <3>2. TwoTo[n - 1] = 2 * TwoTo[e] /\ TwoTo[e] \in Nat /\ TwoTo[e] % N # 0
      BY <3>1, PowersOfKeys
    <3>3. DoublePoint(Multiple(TwoTo[e])) = q
      BY <3>2, MultipleTwice
    <3> QED BY <2>3, <3>3 DEF Last, e
  <2>5. Append(s, q) = [j \in 1 .. n |-> Multiple(TwoTo[j - 1])]
    <3>2. Append(s, q) = [j \in 1 .. n |-> IF j = n THEN q ELSE s[j]]
      <4> HIDE DEF q, s, D
      <4>1. s = [j \in 1 .. n - 1 |-> s[j]]
        BY <2>2
      <4> QED BY <4>1, <2>1, <2>3, SMT
    <3>3. ASSUME NEW j \in 1 .. n
          PROVE  (IF j = n THEN q ELSE s[j]) = Multiple(TwoTo[j - 1])
      <4>1. j # n => j \in 1 .. n - 1
        BY <2>1, SMT
      <4> QED BY <2>2, <4>1
    <3> HIDE DEF s, q
    <3> QED BY <3>2, <3>3
  <2> QED BY <2>1, <2>4, <2>5
<1> HIDE DEF F, D
<1>3. F = [n \in D |-> IF n = 1 THEN <<G>> ELSE Next_(F[n - 1])]
  <2>1. F = [n \in D |-> F[n]]
    BY DEF F
  <2> QED BY <1>1, <1>2, <2>1
<1>4. table = [n \in D |-> IF n = 1 THEN <<G>> ELSE Next_(table[n - 1])]
  BY <1>3, Zenon
<1>5. BulkTable = table[Bits]
  BY DEF BulkTable, D
<1> HIDE DEF table
<1> DEFINE S == {n \in Nat : n + 1 \in D => table[n + 1] = F[n + 1]}
<1>6. 0 \in S
  <2>1. 0 + 1 = 1 /\ 0 \in Nat
    BY SMT
  <2>2. table[1] = F[1]
    BY <1>1, <1>4
  <2> QED BY <2>1, <2>2
<1>7. ASSUME NEW n \in Nat, n \in S
      PROVE  n + 1 \in S
  <2> SUFFICES ASSUME (n + 1) + 1 \in D
               PROVE  table[(n + 1) + 1] = F[(n + 1) + 1]
    BY SMT
  <2>1. n + 1 \in D /\ (n + 1) + 1 # 1 /\ ((n + 1) + 1) - 1 = n + 1
    BY WidthIs, SMT DEF D
  <2>2. table[n + 1] = F[n + 1]
    BY <1>7, <2>1
  <2> DEFINE m == (n + 1) + 1
  <2> HIDE DEF m
  <2>3. m \in D /\ m # 1 /\ m - 1 = n + 1
    BY <2>1 DEF m
  <2>4. table[m] = Next_(table[m - 1]) /\ F[m] = Next_(F[m - 1])
    BY <1>2, <1>4, <2>3
  <2> QED BY <2>2, <2>3, <2>4 DEF m
<1>8. Nat \subseteq S
  <2> HIDE DEF S
  <2> QED BY <1>6, <1>7, SetInduction
<1>9. table[Bits] = F[Bits]
  <2>1. Bits - 1 \in Nat /\ (Bits - 1) + 1 = Bits /\ Bits \in D
    BY WidthIs, SMT DEF D
  <2> QED BY <1>8, <2>1
<1>10. F[Bits] = [j \in 1 .. Bits |-> Multiple(TwoTo[j - 1])]
  BY WidthIs, SMT DEF F, D
<1> QED BY <1>5, <1>9, <1>10

LEMMA NonZeroIs == \A z \in Int : z % P # 0 => z % P \in 1 .. P - 1
<1> TAKE z \in Int
<1>1. P \in Nat \ {0}
  BY FieldConstants
<1> QED BY <1>1, SMT

LEMMA ProductNotZero ==
  \A a, b \in 1 .. P - 1 :
    MultiplyModP(a, b) = (a * b) % P /\ MultiplyModP(a, b) \in 1 .. P - 1
<1> TAKE a, b \in 1 .. P - 1
<1>1. P \in Nat \ {0} /\ a \in Int /\ b \in Int /\ a \in 0 .. P - 1 /\ b \in 0 .. P - 1 /\ a * b \in Int
  BY FieldConstants, SMT
<1>2. MultiplyModP(a, b) = (a * b) % P
  BY <1>1, FieldOps
<1>3. a % P # 0 /\ b % P # 0
  BY <1>1, SMT
<1>4. (a * b) % P # 0
  BY <1>1, <1>3, NoZeroDivisors
<1> QED BY <1>1, <1>2, <1>4, NonZeroIs

\* The inverse of a product loses a factor when it is multiplied by it.
LEMMA InverseOfPrefix ==
  \A a, b \in 1 .. P - 1 : MultiplyModP(InvModP(MultiplyModP(a, b)), b) = InvModP(a)
                           /\ MultiplyModP(a, InvModP(MultiplyModP(a, b))) = InvModP(b)
<1> TAKE a, b \in 1 .. P - 1
<1> DEFINE c == MultiplyModP(a, b)
           z == InvModP(c)
           ab == a * b
<1>1. P \in Nat \ {0} /\ a \in Int /\ b \in Int /\ a \in 0 .. P - 1 /\ b \in 0 .. P - 1 /\ ab \in Int
  BY FieldConstants, SMT
<1>2. c = ab % P /\ c \in 1 .. P - 1
  BY ProductNotZero
<1>3. c \in Int /\ c % P # 0
  <2> HIDE DEF c
  <2> QED BY <1>1, <1>2, SMT
<1>4. z \in 1 .. P - 1 /\ (c * z) % P = 1
  BY <1>3, InverseIs
<1>5. z \in Int /\ z \in 0 .. P - 1
  <2> HIDE DEF z
  <2> QED BY <1>1, <1>4, SMT
<1> HIDE DEF z
<1>6. (ab * z) % P = 1
  <2>1. ((ab % P) * z) % P = (ab * z) % P
    <3> HIDE DEF ab
    <3> QED BY <1>1, <1>5, Reduced
  <2> QED BY <1>2, <1>4, <2>1
<1>7. MultiplyModP(z, b) = (z * b) % P /\ MultiplyModP(z, b) \in 0 .. P - 1
      /\ MultiplyModP(a, z) = (a * z) % P /\ MultiplyModP(a, z) \in 0 .. P - 1
  BY <1>1, <1>5, FieldOps
<1>8. z * b \in Int /\ a * z \in Int /\ a * (z * b) = ab * z /\ b * (a * z) = ab * z
  BY <1>1, <1>5, SMT
<1>9. (a * MultiplyModP(z, b)) % P = 1
  <2> DEFINE w == z * b
  <2>1. (a * (w % P)) % P = (a * w) % P
    <3> HIDE DEF w
    <3> QED BY <1>1, <1>8, Reduced DEF w
  <2> QED BY <1>6, <1>7, <1>8, <2>1
<1>10. (b * MultiplyModP(a, z)) % P = 1
  <2> DEFINE w == a * z
  <2>1. (b * (w % P)) % P = (b * w) % P
    <3> HIDE DEF w
    <3> QED BY <1>1, <1>8, Reduced DEF w
  <2> QED BY <1>6, <1>7, <1>8, <2>1
<1> QED BY <1>1, <1>7, <1>9, <1>10, OnlyInverse DEF z

\* One inversion gives the inverses of all (bulkInversionModP).
LEMMA BulkInverts ==
  ASSUME NEW n \in Nat, NEW in \in [1 .. n -> 1 .. P - 1], Len(in) = n
  PROVE  BulkInversion(in) = [j \in 1 .. n |-> InvModP(in[j])]
<1> DEFINE D == 0 .. n
           E == 1 .. n
           T == 1 .. P - 1
           product == CHOOSE f : f = [j \in D |-> IF j = 0 THEN 1 ELSE MultiplyModP(f[j - 1], in[j])]
           back == CHOOSE f : f = [j \in E |-> IF j = n THEN InvModP(product[n])
                                                       ELSE MultiplyModP(f[j + 1], in[j + 1])]
           step == [j \in D |-> [y \in T |-> IF j = 0 THEN y ELSE MultiplyModP(y, in[j])]]
<1>1. /\ \A j \in D : j # 0 => j \in E /\ j - 1 \in D
      /\ \A j \in E : j \in D /\ j # 0 /\ j - 1 \in D /\ j \in Nat
      /\ \A j \in E : j # n => j + 1 \in E /\ (j + 1) - 1 = j /\ j + 1 # 0
      /\ 0 \in D /\ n \in D /\ D \in SUBSET Nat
      /\ 1 \in T
  BY FieldConstants, SMT
<1>2. \A j \in D, y \in T : j # 0 => MultiplyModP(y, in[j]) \in T
  BY <1>1, ProductNotZero
<1>3. IsCount(D, T, 1, step)
  <2>1. step \in [D -> [T -> T]]
    <3>1. ASSUME NEW j \in D, NEW y \in T
          PROVE  (IF j = 0 THEN y ELSE MultiplyModP(y, in[j])) \in T
      BY <1>2
    <3> HIDE DEF D, T
    <3> QED BY <3>1
  <2> HIDE DEF D, T, step
  <2> QED BY <1>1, <2>1 DEF IsCount
<1>4. PICK f \in [D -> T] : \A j \in D : f[j] = IF j = 0 THEN 1 ELSE step[j][f[j - 1]]
  <2> HIDE DEF D, T, step
  <2> QED BY <1>3, Iteration
<1>5. \A j \in D : f[j] = IF j = 0 THEN 1 ELSE MultiplyModP(f[j - 1], in[j])
  <2> SUFFICES ASSUME NEW j \in D, j # 0
               PROVE  f[j] = MultiplyModP(f[j - 1], in[j])
    BY <1>4
  <2>1. f[j - 1] \in T
    BY <1>1, <1>4
  <2> HIDE DEF T, D
  <2> QED BY <1>4, <2>1
<1>6. f = [j \in D |-> IF j = 0 THEN 1 ELSE MultiplyModP(f[j - 1], in[j])]
  <2> HIDE DEF D, T
  <2> QED BY <1>4, <1>5
<1>7. product = [j \in D |-> IF j = 0 THEN 1 ELSE MultiplyModP(product[j - 1], in[j])]
  <2> HIDE DEF D
  <2> QED BY <1>6, Zenon
<1>8. BulkInversion(in) = [j \in 1 .. n |-> IF j = 1 THEN back[1] ELSE MultiplyModP(product[j - 1], back[j])]
  BY DEF BulkInversion
<1> HIDE DEF product
<1>9. product \in [D -> T]
  <2>1. ASSUME NEW j \in D \ {0}, product[j - 1] \in T
        PROVE  product[j] \in T
    BY <1>2, <1>7, <2>1
  <2>2. product = [j \in D |-> product[j]] /\ product[0] \in T
    BY <1>1, <1>7
  <2>3. IsCounted(product, D, T)
    <3> HIDE DEF D, T
    <3> QED BY <1>1, <1>3, <2>1, <2>2 DEF IsCounted, IsCount
  <2> HIDE DEF D, T
  <2> QED BY <2>3, IterationType
<1> DEFINE H == [j \in E |-> InvModP(product[j])]
<1>10. ASSUME NEW j \in E
       PROVE  H[j] = IF j = n THEN InvModP(product[n]) ELSE MultiplyModP(H[j + 1], in[j + 1])
  <2>1. CASE j = n
    BY <2>1
  <2>2. CASE j # n
    <3>1. j + 1 \in E /\ j + 1 \in D /\ j \in D /\ (j + 1) - 1 = j /\ j + 1 # 0
      BY <1>1, <2>2
    <3>2. product[j + 1] = MultiplyModP(product[j], in[j + 1])
      BY <1>7, <3>1
    <3>3. product[j] \in T /\ in[j + 1] \in T
      BY <1>9, <3>1
    <3>4. MultiplyModP(InvModP(MultiplyModP(product[j], in[j + 1])), in[j + 1]) = InvModP(product[j])
      BY <3>3, InverseOfPrefix
    <3> QED BY <2>2, <3>1, <3>2, <3>4
  <2> QED BY <2>1, <2>2
<1>11. H = [j \in E |-> IF j = n THEN InvModP(product[n]) ELSE MultiplyModP(H[j + 1], in[j + 1])]
  <2>1. H = [j \in E |-> H[j]]
    OBVIOUS
  <2> HIDE DEF H, E
  <2> QED BY <1>10, <2>1
<1>12. back = [j \in E |-> IF j = n THEN InvModP(product[n]) ELSE MultiplyModP(back[j + 1], in[j + 1])]
  <2> HIDE DEF E, H
  <2> QED BY <1>11, Zenon
<1> HIDE DEF back
<1> DEFINE S == {m \in Nat : n - m \in E => back[n - m] = InvModP(product[n - m])}
<1>13. 0 \in S
  <2>1. n - 0 = n /\ 0 \in Nat
    BY SMT
  <2>2. ASSUME n \in E
        PROVE  back[n] = InvModP(product[n])
    <3> HIDE DEF E
    <3> QED BY <1>12, <2>2
  <2> QED BY <2>1, <2>2
<1>14. ASSUME NEW m \in Nat, m \in S
       PROVE  m + 1 \in S
  <2> DEFINE j == n - (m + 1)
  <2> SUFFICES ASSUME j \in E
               PROVE  back[j] = InvModP(product[j])
    BY SMT
  <2>1. j + 1 = n - m /\ j # n
    BY SMT
  <2> HIDE DEF j
  <2>2. j + 1 \in E /\ (j + 1) - 1 = j /\ j + 1 # 0
    BY <1>1, <2>1
  <2>3. back[j + 1] = H[j + 1]
    BY <1>14, <2>1, <2>2
  <2>4. back[j] = MultiplyModP(back[j + 1], in[j + 1])
    BY <1>12, <2>1
  <2>5. H[j] = MultiplyModP(H[j + 1], in[j + 1])
    BY <1>10, <2>1
  <2> QED BY <2>3, <2>4, <2>5
<1>15. Nat \subseteq S
  <2> HIDE DEF S
  <2> QED BY <1>13, <1>14, SetInduction
<1>16. ASSUME NEW j \in E
       PROVE  back[j] = InvModP(product[j])
  <2>1. n - j \in Nat /\ n - (n - j) = j
    BY SMT
  <2> QED BY <1>15, <2>1
<1>17. ASSUME NEW j \in 1 .. n
       PROVE  (IF j = 1 THEN back[1] ELSE MultiplyModP(product[j - 1], back[j])) = InvModP(in[j])
  <2>1. j \in D /\ j # 0 /\ j - 1 \in D /\ j \in E
    BY <1>1
  <2>2. product[j - 1] \in T /\ in[j] \in T
    BY <1>9, <2>1
  <2>3. product[j] = MultiplyModP(product[j - 1], in[j]) /\ back[j] = InvModP(product[j])
    BY <1>7, <1>16, <2>1
  <2>4. MultiplyModP(product[j - 1], back[j]) = InvModP(in[j])
    BY <2>2, <2>3, InverseOfPrefix
  <2>5. CASE j = 1
    <3>1. product[0] = 1 /\ 1 - 1 = 0
      BY <1>1, <1>7
    <3>2. product[1] = MultiplyModP(1, in[1])
      BY <2>3, <2>5, <3>1
    <3>3. MultiplyModP(1, in[1]) = (1 * in[1]) % P
      BY <1>1, <2>2, <2>5, ProductNotZero
    <3> DEFINE e == in[1]
    <3>4. e \in 1 .. P - 1 /\ P \in Nat \ {0}
      BY <2>2, <2>5, FieldConstants
    <3> HIDE DEF e
    <3>5. (1 * e) % P = e
      <4>1. 1 * e = e /\ e \in Nat /\ e < P
        BY <3>4, SMT
      <4> QED BY <3>4, <4>1, SmallRemainder
    <3> QED BY <2>3, <2>5, <3>2, <3>3, <3>5 DEF e
  <2> QED BY <2>4, <2>5
<1> QED BY <1>8, <1>17

BulkInv ==
  /\ privKeys \in Seq(Numbers) /\ bulkBit \in 0 .. Bits
  /\ pubKeys = [j \in DOMAIN privKeys |-> Multiple(privKeys[j] % TwoTo[bulkBit])]
  /\ bulk \in {"run", "hang"}
  /\ bulk = "hang" => \E j \in DOMAIN privKeys : privKeys[j] = N

LEMMA BulkStarts ==
  ASSUME NEW keys \in KeyLists, BulkInit(keys)
  PROVE  BulkInv
<1>1. keys \in Seq(Numbers)
  BY CallAssumption
<1>2. ASSUME NEW n \in 1 .. Bits
      PROVE  PointExists(Multiple(TwoTo[n - 1]))
  <2>1. n - 1 \in 0 .. Bits
    BY WidthIs, SMT
  <2>2. TwoTo[n - 1] \in Nat /\ TwoTo[n - 1] % N # 0
    BY <2>1, PowersOfKeys
  <2> QED BY <2>2, MultipleIs, ExistsIs
<1>3. bulk = "run"
  <2>1. \A n \in DOMAIN BulkTable : PointExists(BulkTable[n])
    BY <1>2, BulkTableIs
  <2> QED BY <2>1 DEF BulkInit
<1>4. ASSUME NEW key \in Numbers
      PROVE  Multiple(key % TwoTo[0]) = PointAtInfinity
  <2>1. key % 1 = 0
    BY NumberIs, SMT
  <2> QED BY <2>1, PowersOfTwo, GroupAssumption
<1>5. \A j \in DOMAIN keys : keys[j] \in Numbers
  BY <1>1, SMT
<1>6. pubKeys = [j \in DOMAIN privKeys |-> Multiple(privKeys[j] % TwoTo[0])]
  BY <1>4, <1>5, Zenon DEF BulkInit
<1>7. 0 \in 0 .. Bits
  BY WidthIs, SMT
<1> QED BY <1>1, <1>3, <1>6, <1>7 DEF BulkInv, BulkInit

\* The point of a key and the point of its next bit: they are equal in x only
\* if the key is the order.
LEMMA SameXOfBit ==
  ASSUME NEW key \in Numbers, NEW n \in 0 .. Bits - 1, KeyBit(key, n),
         (key % TwoTo[n]) % N # 0,
         Multiple(key % TwoTo[n]).x = Multiple(TwoTo[n]).x
  PROVE  key = N
<1> DEFINE t == TwoTo[n]
           r == key % t
           z == key % TwoTo[n + 1]
<1>1. /\ t \in Nat \ {0} /\ r \in Nat /\ z = r + t /\ n \in 0 .. Bits /\ n # Bits
      /\ n + 1 \in 0 .. Bits /\ TwoTo[n + 1] = 2 * t
      /\ M \in Nat /\ N \in Nat \ {0} /\ M < 2 * N /\ key \in Nat /\ key < M
  <2>1. n \in 0 .. Bits /\ n # Bits /\ n + 1 \in 0 .. Bits
    BY WidthIs, SMT
  <2> QED BY <2>1, NextBit, FieldConstants, NumberIs
<1>2. t < N /\ 2 * t <= M /\ t % N # 0
  BY <1>1, PowersOfKeys
<1>3. r < t
  BY <1>1, SMT
<1> HIDE DEF t, r
<1>4. r % N = r /\ t % N = t /\ r # t /\ (r + t) % N = IF r + t < N THEN r + t ELSE r + t - N
  <2>1. r < N /\ r # t /\ r + t \in Nat /\ r + t < 2 * N
    BY <1>1, <1>2, <1>3, SMT
  <2>2. r % N = r /\ t % N = t
    BY <1>1, <1>2, <2>1, SmallRemainder
  <2>3. r + t < N => (r + t) % N = r + t
    BY <1>1, <2>1, SmallRemainder
  <2>4. r + t >= N => (r + t) % N = r + t - N
    <3> DEFINE s == r + t
    <3>1. s \in 0 .. 2 * N - 1 /\ s \in Nat
      BY <1>1, <2>1, SMT
    <3> HIDE DEF s
    <3>2. s >= N => s % N = s - N
      BY <1>1, <3>1, CarryOf
    <3> QED BY <1>1, <3>2, SMT DEF s
  <2> QED BY <1>1, <2>1, <2>2, <2>3, <2>4, SMT
<1>5. r % N = t % N \/ (r + t) % N = 0
  <2>1. t \in Nat /\ r % N # 0 /\ Multiple(r).x = Multiple(t).x
    BY <1>1 DEF r, t
  <2> QED BY <1>1, <1>2, <2>1, MultipleSameX
<1>6. r + t = N
  BY <1>1, <1>4, <1>5, SMT
<1>7. CASE n + 1 = Bits
  <2>1. TwoTo[n + 1] = M
    BY <1>7, NumberIs, WidthIs DEF BaseTo
  <2>2. key % M = key
    BY NumberIs
  <2> QED BY <1>1, <1>6, <2>1, <2>2
<1>8. CASE n + 1 # Bits
  <2>1. TwoTo[n + 1] < N
    BY <1>1, <1>8, PowersOfKeys
  <2> QED BY <1>1, <1>3, <1>6, <2>1, SMT
<1> QED BY <1>7, <1>8

LEMMA BulkSteps ==
  ASSUME BulkInv, BulkStep
  PROVE  BulkInv'
<1> DEFINE n == bulkBit
           len == Len(privKeys)
           J == 1 .. len
           runs == RunList(n)
           t == TwoTo[n]
           Low(j) == privKeys[j] % TwoTo[n]
           High(j) == privKeys[j] % TwoTo[n + 1]
<1>1. /\ n \in 0 .. Bits - 1 /\ n + 1 \in 0 .. Bits /\ n \in 0 .. Bits /\ n + 1 \in 1 .. Bits
      /\ (n + 1) - 1 = n
      /\ bulk = "run" /\ privKeys' = privKeys /\ privKeys \in Seq(Numbers)
  BY WidthIs, SMT DEF BulkInv, BulkStep
<1>2. /\ len \in Nat /\ DOMAIN privKeys = J /\ \A j \in J : privKeys[j] \in Numbers
  BY <1>1, SMT
<1>3. \A j \in J : pubKeys[j] = Multiple(Low(j))
  BY <1>2 DEF BulkInv
<1>4. BulkTable[n + 1] = Multiple(t)
  BY <1>1, BulkTableIs
<1>5. t \in Nat /\ t % N # 0 /\ Multiple(t) \in CurvePoints
  <2>1. t \in Nat /\ t % N # 0
    BY <1>1, PowersOfKeys
  <2> QED BY <2>1, MultipleIs
<1>6. ASSUME NEW j \in J
      PROVE  /\ Low(j) \in Nat
             /\ KeyBit(privKeys[j], n) => High(j) = Low(j) + t
             /\ ~KeyBit(privKeys[j], n) => High(j) = Low(j)
             /\ Low(j) % N = 0 => Multiple(Low(j)) = PointAtInfinity
             /\ Low(j) % N # 0 => Multiple(Low(j)) \in CurvePoints
             /\ IsPointAtInfinity(Multiple(Low(j))) <=> Low(j) % N = 0
  <2>1. privKeys[j] \in Numbers
    BY <1>2
  <2>2. /\ Low(j) \in Nat
        /\ KeyBit(privKeys[j], n) => High(j) = Low(j) + t
        /\ ~KeyBit(privKeys[j], n) => High(j) = Low(j)
    BY <1>1, <2>1, NextBit
  <2> DEFINE r == Low(j)
  <2> HIDE DEF r
  <2>3. r \in Nat
    BY <2>2 DEF r
  <2>4. /\ r % N = 0 => Multiple(r) = PointAtInfinity
        /\ r % N # 0 => Multiple(r) \in CurvePoints
    BY <2>3, MultipleIs
  <2>5. IsPointAtInfinity(Multiple(r)) <=> r % N = 0
    <3>1. IsPointAtInfinity(PointAtInfinity)
      BY DEF IsPointAtInfinity, PointAtInfinity, Point
    <3> QED BY <2>4, <3>1, PointIs
  <2> QED BY <2>2, <2>4, <2>5 DEF r
<1> DEFINE Takes(j) == KeyBit(privKeys[j], n) /\ Low(j) % N # 0
<1>7. ASSUME NEW j \in J
      PROVE  runs[j] = IF Takes(j) THEN SubModP(Multiple(Low(j)).x, Multiple(t).x) ELSE 2
  <2>1. runs[j] = IF KeyBit(privKeys[j], n) /\ ~IsPointAtInfinity(pubKeys[j])
                  THEN SubModP(pubKeys[j].x, BulkTable[n + 1].x) ELSE 2
    BY <1>2 DEF RunList
  <2> HIDE DEF J, runs, n, Low, t
  <2> QED BY <1>3, <1>4, <1>6, <2>1 DEF t, Low
<1>8. DOMAIN runs = J /\ Len(runs) = len
  <2>1. DOMAIN runs = J
    BY <1>2 DEF RunList
  <2>2. runs = [j \in J |-> runs[j]]
    BY <1>2 DEF RunList
  <2> HIDE DEF runs
  <2>3. Len(runs) = len
    BY <1>2, <2>2, SMT
  <2> QED BY <2>1, <2>3
<1> HIDE DEF runs
<1>9. ASSUME NEW j \in J, Takes(j)
      PROVE  LET px == Multiple(Low(j)).x
                 qx == Multiple(t).x
             IN  /\ px \in 0 .. P - 1 /\ qx \in 0 .. P - 1
                 /\ SubModP(px, qx) = (px - qx) % P /\ SubModP(px, qx) \in 0 .. P - 1
                 /\ SubModP(px, qx) = 0 <=> px = qx
  <2> DEFINE px == Multiple(Low(j)).x
             qx == Multiple(t).x
  <2>1. px \in 0 .. P - 1 /\ qx \in 0 .. P - 1
    <3>1. Multiple(Low(j)) \in CurvePoints
      BY <1>6, <1>9
    <3> HIDE DEF Low, t
    <3> QED BY <1>5, <3>1, PointIs DEF IsAffine
  <2> HIDE DEF px, qx
  <2>2. SubModP(px, qx) = (px - qx) % P /\ SubModP(px, qx) \in 0 .. P - 1
    BY <2>1, FieldOps
  <2>3. (px - qx) % P = 0 => px = qx
    BY <2>1, SameBelow
  <2>4. px = qx => (px - qx) % P = 0
    <3>1. P \in Nat \ {0} /\ px \in Int
      BY <2>1, FieldConstants, SMT
    <3>2. px = qx => px - qx = 0
      BY <3>1, SMT
    <3>3. 0 % P = 0
      BY <3>1, SMT
    <3> QED BY <3>2, <3>3
  <2>5. SubModP(px, qx) = 0 <=> px = qx
    BY <2>2, <2>3, <2>4
  <2> QED BY <2>1, <2>2, <2>5 DEF px, qx
<1>10. CASE \E j \in DOMAIN runs : runs[j] = 0
  <2>1. PICK j \in J : runs[j] = 0
    BY <1>8, <1>10
  <2>2. Takes(j)
    <3>1. 2 # 0
      OBVIOUS
    <3> HIDE DEF Takes
    <3> QED BY <1>7, <2>1, <3>1
  <2>3. SubModP(Multiple(Low(j)).x, Multiple(t).x) = 0
    <3> HIDE DEF Takes
    <3> QED BY <1>7, <2>1, <2>2
  <2>4. Multiple(Low(j)).x = Multiple(t).x
    <3> HIDE DEF Takes
    <3> QED BY <1>9, <2>2, <2>3
  <2>5. privKeys[j] = N
    BY <1>1, <1>2, <2>2, <2>4, SameXOfBit
  <2>6. bulk' = "hang" /\ UNCHANGED <<pubKeys, bulkBit, privKeys>>
    BY <1>10 DEF BulkStep, runs
  <2>7. \E m \in DOMAIN privKeys : privKeys[m] = N
    BY <1>2, <2>5
  <2> QED BY <2>6, <2>7 DEF BulkInv
<1>11. CASE ~\E j \in DOMAIN runs : runs[j] = 0
  <2> DEFINE inverses == BulkInversion(runs)
             next == [j \in DOMAIN privKeys |-> BulkPoint(j, n, inverses[j])]
  <2>1. ASSUME NEW j \in J
        PROVE  runs[j] \in 1 .. P - 1
    <3>1. runs[j] # 0
      BY <1>8, <1>11
    <3>2. P \in Nat \ {0} /\ 2 \in 1 .. P - 1
      <4>1. P \in Nat /\ 1 < P /\ P % 2 = 1
        BY ModulusAssumption
      <4>2. P # 2
        BY <4>1, SMT
      <4> QED BY <4>1, <4>2, SMT
    <3>3. runs[j] \in 0 .. P - 1
      <4>1. Takes(j) => runs[j] \in 0 .. P - 1
        <5> HIDE DEF Takes
        <5> QED BY <1>7, <1>9
      <4>2. ~Takes(j) => runs[j] = 2
        <5> HIDE DEF Takes
        <5> QED BY <1>7
      <4>3. 2 \in 0 .. P - 1
        BY <3>2, SMT
      <4> QED BY <4>1, <4>2, <4>3
    <3> QED BY <3>1, <3>2, <3>3, SMT
  <2>2. inverses = [j \in J |-> InvModP(runs[j])]
    <3>1. runs \in [J -> 1 .. P - 1]
      <4>1. runs = [j \in J |-> runs[j]]
        BY <1>2 DEF RunList, runs
      <4> QED BY <2>1, <4>1
    <3> HIDE DEF len
    <3> QED BY <1>2, <1>8, <3>1, BulkInverts
  <2> HIDE DEF inverses
  <2>3. ASSUME NEW j \in J
        PROVE  BulkPoint(j, n, inverses[j]) = Multiple(High(j))
    <3> DEFINE pub == Multiple(Low(j))
               tbl == Multiple(t)
    <3>1. /\ pubKeys[j] = pub /\ BulkTable[n + 1] = tbl
          /\ Low(j) \in Nat /\ IsPointAtInfinity(pub) <=> Low(j) % N = 0
          /\ AddPoints(pub, tbl) = Multiple(Low(j) + t)
      <4>1. Low(j) \in Nat
        BY <1>6
      <4>2. AddPoints(pub, tbl) = Multiple(Low(j) + t)
        <5> HIDE DEF Low, t
        <5> QED BY <1>5, <4>1, MultipleAdd
      <4> QED BY <1>3, <1>4, <1>6, <4>1, <4>2
    <3>2. CASE ~KeyBit(privKeys[j], n)
      <4>1. BulkPoint(j, n, inverses[j]) = pubKeys[j]
        BY <3>2 DEF BulkPoint
      <4>2. High(j) = Low(j)
        BY <1>6, <3>2
      <4> QED BY <3>1, <4>1, <4>2
    <3>3. CASE KeyBit(privKeys[j], n) /\ Low(j) % N = 0
      <4>1. BulkPoint(j, n, inverses[j]) = tbl
        <5> HIDE DEF pub, tbl, Low, n
        <5>1. KeyBit(privKeys[j], n) /\ IsPointAtInfinity(pubKeys[j])
          BY <3>1, <3>3
        <5> QED BY <3>1, <5>1, Zenon DEF BulkPoint
      <4>2. High(j) = Low(j) + t /\ pub = PointAtInfinity
        BY <1>6, <3>3
      <4>3. AddPoints(PointAtInfinity, tbl) = tbl
        BY <1>5, AddInfinity
      <4> QED BY <3>1, <4>1, <4>2, <4>3
    <3>4. CASE Takes(j)
      <4>1. High(j) = Low(j) + t /\ ~IsPointAtInfinity(pub) /\ ~IsPointAtInfinity(tbl)
        <5>1. ~IsPointAtInfinity(tbl)
          <6> HIDE DEF t
          <6> QED BY <1>5, PointIs
        <5> QED BY <1>6, <3>1, <3>4, <5>1
      <4>2. runs[j] = SubModP(pub.x, tbl.x) /\ runs[j] # 0
        <5>1. runs[j] = SubModP(pub.x, tbl.x)
          BY <1>7, <3>4
        <5>2. runs[j] # 0
          BY <1>8, <1>11
        <5> QED BY <5>1, <5>2
      <4>3. pub.x # tbl.x
        <5>1. SubModP(pub.x, tbl.x) = 0 <=> pub.x = tbl.x
          BY <1>9, <3>4
        <5> QED BY <4>2, <5>1
      <4>4. inverses[j] = InvModP(SubModP(pub.x, tbl.x))
        BY <2>2, <4>2
      <4>5. BulkPoint(j, n, inverses[j]) =
              OnLine(MultiplyModP(SubModP(pub.y, tbl.y), InvModP(SubModP(pub.x, tbl.x))), pub, tbl.x)
        <5> HIDE DEF pub, tbl, Low, n
        <5>1. KeyBit(privKeys[j], n)
          BY <3>4
        <5> QED BY <3>1, <4>1, <4>4, <5>1, Zenon DEF BulkPoint
      <4>6. AddPoints(pub, tbl) =
              OnLine(MultiplyModP(SubModP(pub.y, tbl.y), InvModP(SubModP(pub.x, tbl.x))), pub, tbl.x)
        <5> HIDE DEF pub, tbl
        <5> QED BY <4>1, <4>3, Zenon DEF AddPoints
      <4> QED BY <3>1, <4>1, <4>5, <4>6
    <3> QED BY <3>2, <3>3, <3>4
  <2>4. next = [j \in DOMAIN privKeys |-> Multiple(High(j))]
    <3> HIDE DEF High
    <3> QED BY <1>2, <2>3
  <2>5. ASSUME NEW j \in DOMAIN next
        PROVE  IsPointAtInfinity(next[j]) \/ PointExists(next[j])
    <3>1. j \in J /\ next[j] = Multiple(High(j))
      BY <1>2, <2>4
    <3> DEFINE h == High(j)
    <3>2. h \in Nat
      <4>1. Low(j) + t \in Nat
        <5>1. Low(j) \in Nat
          BY <1>6, <3>1
        <5> HIDE DEF Low, t
        <5> QED BY <1>5, <5>1, SMT
      <4> QED BY <1>6, <3>1, <4>1
    <3> HIDE DEF h
    <3>3. Multiple(h) = PointAtInfinity \/ Multiple(h) \in CurvePoints
      BY <3>2, MultipleIs
    <3>4. IsPointAtInfinity(PointAtInfinity)
      BY DEF IsPointAtInfinity, PointAtInfinity, Point
    <3>5. IsPointAtInfinity(Multiple(h)) \/ PointExists(Multiple(h))
      BY <3>3, <3>4, ExistsIs
    <3> QED BY <3>1, <3>5 DEF h
  <2>6. pubKeys' = next /\ bulkBit' = n + 1 /\ bulk' = bulk
    <3>1. IF \E j \in DOMAIN next : ~IsPointAtInfinity(next[j]) /\ ~PointExists(next[j])
          THEN bulk' = "throw" /\ UNCHANGED <<pubKeys, bulkBit>>
          ELSE pubKeys' = next /\ bulkBit' = bulkBit + 1 /\ UNCHANGED bulk
      BY <1>11 DEF BulkStep, runs, inverses
    <3> HIDE DEF next
    <3> QED BY <2>5, <3>1
  <2>7. pubKeys' = [j \in DOMAIN privKeys |-> Multiple(privKeys[j] % TwoTo[n + 1])]
    BY <2>4, <2>6
  <2> HIDE DEF next
  <2>8. pubKeys' = [j \in DOMAIN privKeys' |-> Multiple(privKeys'[j] % TwoTo[bulkBit'])]
    BY <1>1, <2>6, <2>7
  <2> QED BY <1>1, <2>6, <2>8 DEF BulkInv
<1> QED BY <1>10, <1>11

-----------------------------------------------------------------------------
(* The library *)

\* What holds of the call that is made.
CallInv ==
  /\ call = "invModP" => IInv
  /\ call = "operator" => number \in Numbers
  /\ call = "multiplyPoint" => MultiplyInv
  /\ call = "generateKeyPairsBulk" => BulkInv

LEMMA CallInvariant == Spec => []CallInv
<1>1. Init => CallInv
  <2> SUFFICES ASSUME Init
               PROVE  CallInv
    OBVIOUS
  <2> USE DEF Init, CallInvModP, CallMultiplyPoint, CallBulk, CallOperator, CallDevice
  <2>1. ASSUME call = "invModP"
        PROVE  IInv
    <3>1. PICK x \in Numbers : InverseInit(x)
      BY <2>1
    <3> QED BY <3>1, InitInvariant
  <2>2. ASSUME call = "operator"
        PROVE  number \in Numbers
    BY <2>2
  <2>3. ASSUME call = "multiplyPoint"
        PROVE  MultiplyInv
    <3>1. PICK key \in Numbers, m \in Bases : MultiplyInit(key, Multiple(m))
      BY <2>3
    <3> QED BY <3>1, MultiplyStarts
  <2>4. ASSUME call = "generateKeyPairsBulk"
        PROVE  BulkInv
    <3>1. PICK keys \in KeyLists : BulkInit(keys)
      BY <2>4
    <3> QED BY <3>1, BulkStarts
  <2> QED BY <2>1, <2>2, <2>3, <2>4 DEF CallInv
<1>2. CallInv /\ [Next]_vars => CallInv'
  <2> SUFFICES ASSUME CallInv, [Next]_vars
               PROVE  CallInv'
    OBVIOUS
  <2>1. CASE InvertModP
    <3>1. call' = call /\ call = "invModP" /\ InverseNext /\ IInv
      BY <2>1 DEF InvertModP, CallInv
    <3> QED BY <3>1, NextInvariant DEF CallInv
  <2>2. CASE MultiplyPoint
    <3>1. call' = call /\ call = "multiplyPoint" /\ MultiplyStep /\ MultiplyInv
      BY <2>2 DEF MultiplyPoint, CallInv
    <3> QED BY <3>1, MultiplySteps DEF CallInv
  <2>3. CASE GenerateKeyPairsBulk
    <3>1. call' = call /\ call = "generateKeyPairsBulk" /\ BulkStep /\ BulkInv
      BY <2>3 DEF GenerateKeyPairsBulk, CallInv
    <3> QED BY <3>1, BulkSteps DEF CallInv
  <2>4. CASE SetUpDevices
    BY <2>4 DEF SetUpDevices, CallInv
  <2>5. CASE UNCHANGED vars
    <3>1. UNCHANGED <<call, number>> /\ UNCHANGED inverseVars
          /\ UNCHANGED multiplyVars /\ UNCHANGED bulkVars
      BY <2>5 DEF vars
    <3>2. IInv => IInv'
      BY <3>1, NextInvariant
    <3>3. MultiplyInv => MultiplyInv'
      BY <3>1 DEF MultiplyInv, multiplyVars
    <3>4. BulkInv => BulkInv'
      BY <3>1 DEF BulkInv, bulkVars
    <3> QED BY <3>1, <3>2, <3>3, <3>4 DEF CallInv
  <2> QED BY <2>1, <2>2, <2>3, <2>4, <2>5 DEF Next
<1> QED BY <1>1, <1>2, PTL DEF Spec

\* A multiple of P apart, as a remainder.
LEMMA CongruentRemainder ==
  ASSUME NEW a \in Int, NEW b \in Int, Congruent(a, b)
  PROVE  (a - b) % P = 0
<1> USE ModulusAssumption
<1>1. PICK q \in Int : a = b + q * P
  BY DEF Congruent
<1>2. a - b = q * P /\ P \in Int /\ P > 0
  BY <1>1, SMT
<1>3. (q * P) % P = 0
  BY <1>2, SMT
<1> QED BY <1>2, <1>3

\* For numbers of any width and any odd modulus, invModP keeps its congruences
\* and returns an inverse: a carry or borrow that was lost would break them.
THEOREM InverseIsExactThm == Spec => []InverseIsExact
<1>1. CallInv => InverseIsExact
  <2> SUFFICES ASSUME IInv
               PROVE  /\ InverseTypeOK /\ InverseIsInverse
                      /\ (argument * (x1 + s1 * M) - u) % P = 0
                      /\ (argument * (x2 + s2 * M) - v) % P = 0
    BY DEF CallInv, InverseIsExact
  <2>1. InverseTypeOK /\ Cofactors /\ InverseIsInverse
    BY InvariantInverts DEF IInv
  <2>2. /\ argument * (x1 + s1 * M) \in Int /\ u \in Int
        /\ argument * (x2 + s2 * M) \in Int /\ v \in Int
    BY <2>1, ModulusAssumption, SMT DEF InverseTypeOK, Numbers
  <2> QED BY <2>1, <2>2, CongruentRemainder DEF Cofactors
<1> QED BY <1>1, CallInvariant, PTL

\* The part of ArithmeticIsExact about the operations modulo P and N, negation
\* included, for every number of every width.
THEOREM FieldIsExactThm == \A a \in Numbers : FieldIsExact(a)
<1> SUFFICES ASSUME NEW a \in Numbers
             PROVE  FieldIsExact(a)
  OBVIOUS
<1>1. /\ M \in Nat \ {0} /\ P \in Nat \ {0} /\ P < M /\ M < 2 * P
      /\ N \in Nat \ {0} /\ N < M /\ M < 2 * N /\ P \in Numbers /\ N \in Numbers
      /\ a \in Int /\ 0 <= a
  BY FieldConstants, SMT DEF Numbers
<1>2. ASSUME NEW m \in Numbers, 0 < m, M < 2 * m, a < m
      PROVE  AddMod(a, SubMod(m, a, m), m) = 0
  <2>1. ~(m < a) /\ m \in Int
    BY <1>1, <1>2, SMT DEF Numbers
  <2>2. SubMod(m, a, m) = m - a
    BY <2>1, Zenon DEF SubMod
  <2>3. /\ m - a \in 0 .. m /\ a \in 0 .. m /\ a + (m - a) < 2 * m /\ a + (m - a) = m
        /\ m \in Nat \ {0} /\ 0 \in 0 .. m - 1 /\ m = 1 * m + 0
    BY <1>1, <1>2, <2>1, SMT
  <2>4. AddMod(a, m - a, m) = (a + (m - a)) % m
    BY <1>2, <2>3, AddModExact
  <2>5. m % m = 0
    BY <2>1, <2>3, RemainderOf
  <2> QED BY <2>2, <2>3, <2>4, <2>5
<1>3. a < P => AddModP(a, NegModP(a)) = 0
  BY <1>1, <1>2 DEF AddModP, NegModP, SubModP
<1>4. a < N => AddMod(a, NegModN(a), N) = 0
  <2> SUFFICES ASSUME a < N PROVE AddMod(a, NegModN(a), N) = 0
    OBVIOUS
  <2>1. a % N = a /\ NegModN(a) = SubMod(N, a, N)
    BY <1>1, SmallRemainder, SMT DEF NegModN
  <2> QED BY <1>1, <1>2, <2>1
<1>5. /\ a < P => a \in 0 .. P - 1
      /\ a < N => a \in 0 .. N - 1
  BY <1>1, SMT
<1> QED BY <1>3, <1>4, <1>5, FieldOperationsExact DEF FieldIsExact

\* The part of ArithmeticIsExact about the loops over words: what carries,
\* borrows, shifts, rows and long division return is the number the name of
\* the method says, for every number of every width.
THEOREM WordsAreNumbersThm == \A a \in Numbers : WordsAreNumbers(a)
<1> SUFFICES ASSUME NEW a \in Numbers
             PROVE  WordsAreNumbers(a)
  OBVIOUS
<1> DEFINE L == NumWords
           x == ToWords(a, L)
<1>1. /\ Value(x, L) = a
      /\ Value(Neg(x), L) = (-a) % M
      /\ Value(DivBy2(x), L) = a \div 2
      /\ IsNeg(x) = (a >= M \div 2)
      /\ FromBigEndian(ExportBigEndian(x, L)) = x
  BY NumbersAreWords, NegIs, DivBy2Is, IsNegIs, BigEndianBack
<1>2. \A n \in 1 .. WordBits - 1 : Value(RightShift(x, n), L) = a \div TwoTo[n]
  <2>1. \A n \in 1 .. WordBits - 1 : n \in 1 .. WordBits
    BY WidthIs, SMT
  <2> QED BY <2>1, RightShiftIs
<1>3. \A n \in 0 .. Bits : Value(FillBits(n), L) = TwoTo[n % Bits] - 1
  <2>1. \A n \in 0 .. Bits : n \in Nat
    BY SMT
  <2> QED BY <2>1, FillBitsIs
<1>4. \A n \in 0 .. 2 : Pow(a, n + 1) = (a * Pow(a, n)) % M
  BY PowNext
<1>5. \A n \in 0 .. Bits - 1 : Bit(x, n) = ((a \div TwoTo[n]) % 2 = 1)
  BY BitIs
<1>6. \A n \in 0 .. Bits - 1, b \in BOOLEAN : Bit(SetBit(x, n, b), n) = b
  BY NumbersAreWords, SetBitIs
<1>7. \A val \in 1 .. Base - 1 : Div(a, val) = a \div val /\ Mod(a, val) = a % val
  BY DivModIs
<1>8. \A b \in Samples :
        LET y == ToWords(b, L)
        IN  /\ Value(AddWords(x, y, L).words, L) + M * AddWords(x, y, L).carry = a + b
            /\ Value(SubWords(x, y, L).words, L) = a - b + M * SubWords(x, y, L).carry
            /\ Value(MultiplyWords(x, L, y, L), 2 * L) = a * b
            /\ GreaterThanEqualTo(x, y, L) = (a >= b) /\ LessThanEqualTo(x, y, L) = (a <= b)
  BY CallAssumption, OperationsOnWords
<1> QED BY <1>1, <1>2, <1>3, <1>4, <1>5, <1>6, <1>7, <1>8 DEF WordsAreNumbers

\* Whatever operator is called, the words and the reductions of secp256k1.cpp
\* compute what the integers say.
THEOREM ArithmeticIsExactThm == Spec => []ArithmeticIsExact
<1>1. CallInv => ArithmeticIsExact
  BY WordsAreNumbersThm, FieldIsExactThm DEF CallInv, ArithmeticIsExact
<1> QED BY <1>1, CallInvariant, PTL

\* A key's point is that multiple of the base point, in multiplyPoint and in
\* generateKeyPairsBulk, at every bit; and only a list with the key N hangs.
THEOREM KeysAreMultiplesThm == Spec => []KeysAreMultiples
<1>1. CallInv => KeysAreMultiples
  <2> SUFFICES ASSUME CallInv
               PROVE  KeysAreMultiples
    OBVIOUS
  <2>1. ASSUME call = "operator", number % N # 0
        PROVE  LET p == Multiple(number)
               IN  PointExists(p) /\ AddPoints(p, NegPoint(p)) = PointAtInfinity
                   /\ AddPoints(p, p) = Multiple(2 * number) /\ AddPoints(p, PointAtInfinity) = p
    <3>1. number \in Nat
      BY <2>1, NumberIs DEF CallInv
    <3> QED BY <2>1, <3>1, PointOfNumber
  <2>2. ASSUME call = "multiplyPoint"
        PROVE  \E m \in Bases : /\ base = Multiple(m)
                                /\ sum = Multiple(m * (k % TwoTo[i]))
                                /\ d = Multiple(m * TwoTo[i])
                                /\ i = KeyBits(k) => sum = Multiple(m * k)
    BY <2>2, MultiplyMultiplies DEF CallInv
  <2>3. ASSUME call = "generateKeyPairsBulk"
        PROVE  /\ \A j \in DOMAIN privKeys : pubKeys[j] = Multiple(privKeys[j] % TwoTo[bulkBit])
               /\ bulk # "throw"
               /\ bulk = "hang" => \E j \in DOMAIN privKeys : privKeys[j] = N
    BY <2>3 DEF CallInv, BulkInv
  <2> QED BY <2>1, <2>2, <2>3 DEF KeysAreMultiples
<1> QED BY <1>1, CallInvariant, PTL

-----------------------------------------------------------------------------
(* Tuning *)

Tuned(name) == \E n \in 1 .. NumConfigs : settings[name] = TunerConfig(n)

GridTypes ==
  /\ tuner \in [kernel : Kernels, idx : 1 .. NumConfigs + 1, iteration : Nat,
                best : 1 .. NumConfigs, time : Nat]
  /\ least \in [1 .. NumConfigs -> Nat]
  /\ DOMAIN config = Kernels /\ DOMAIN settings = Kernels
  /\ ready \in BOOLEAN

\* The least times are those of the configurations called so far, the best of
\* them is the tuner's.
TunerIsBest ==
  /\ \A n \in 1 .. NumConfigs : n < tuner.idx => least[n] # NoTime
  /\ tuner.time = NoTime => \A n \in 1 .. NumConfigs : least[n] = NoTime
  /\ tuner.time # NoTime =>
       /\ least[tuner.best] = tuner.time
       /\ \A n \in 1 .. NumConfigs : least[n] # NoTime => least[n] >= tuner.time
  /\ setup = "tune" /\ tuner.idx > NumConfigs => config[tuner.kernel] = TunerConfig(tuner.best)

\* The kernels that are tuned before another, of this device.
Before(name) == CASE name = "increment" -> {}
                  [] name = "double" -> {"increment"}
                  [] OTHER -> {"increment", "double"}
SearchKernels == {"increment", "double", HashKernel}

GridInv ==
  /\ GridTypes
  /\ ~ready => TunerIsBest
  /\ \A name \in Kernels : settings[name] = NoConfig \/ Tuned(name)
  /\ setup \in {"idle", "points", "tune", "ready", "throw"}
  /\ setup \in {"idle", "throw"} => ~ready
  /\ ~ready /\ setup # "tune" => tuner = NewTuner("increment")
  /\ setup = "tune" => /\ ~ready /\ tuner.kernel \in SearchKernels
                       /\ \A name \in Before(tuner.kernel) : config[name] = settings[name] /\ Tuned(name)
  /\ setup = "ready" \/ (setup = "points" /\ ready) =>
       \A name \in SearchKernels : config[name] = settings[name] /\ Tuned(name)

LEMMA ConfigsAreSome == NumConfigs \in Nat \ {0} /\ Times \subseteq Nat \ {0}
<1>1. \A s \in Seq(Nat \ {0}) : s # <<>> => Len(s) \in Nat \ {0}
  BY SMT
<1>2. Len(GridSizes) \in Nat \ {0} /\ Len(BlockSizes) \in Nat \ {0}
  BY <1>1, DeviceAssumption, Zenon
<1>3. NumConfigs \in Nat \ {0}
  BY <1>2, SMT DEF NumConfigs
<1> QED BY <1>3, DeviceAssumption

\* A device without points has a tuner that has called nothing.
LEMMA NewTunerIsBest ==
  ASSUME GridInv,
         setup' \in {"idle", "throw"} \/ (setup' = "points" /\ ~ready'), ~ready',
         tuner' = NewTuner("increment"), least' = [n \in 1 .. NumConfigs |-> NoTime],
         config' \in [Kernels -> {NoConfig}] \/ UNCHANGED config, UNCHANGED settings,
         ready' \in BOOLEAN
  PROVE  GridInv'
<1>1. GridTypes'
  BY ConfigsAreSome, SMT DEF GridInv, GridTypes, NewTuner, Kernels, NoTime
<1>2. TunerIsBest'
  BY ConfigsAreSome, SMT DEF TunerIsBest, NewTuner, NoTime
<1>3. (\A name \in Kernels : settings[name] = NoConfig \/ Tuned(name))'
  BY DEF GridInv, Tuned
<1> QED BY <1>1, <1>2, <1>3 DEF GridInv

LEMMA InitGrids == DeviceInit => GridInv
<1> SUFFICES ASSUME DeviceInit
             PROVE  GridInv
  OBVIOUS
<1>1. GridTypes
  <2>1. tuner \in [kernel : Kernels, idx : 1 .. NumConfigs + 1, iteration : Nat,
                   best : 1 .. NumConfigs, time : Nat]
    BY ConfigsAreSome, SMT DEF DeviceInit, NewTuner, Kernels, NoTime
  <2>2. least = [n \in 1 .. NumConfigs |-> 0] /\ ready = FALSE
    BY DEF DeviceInit, NoTime
  <2>3. DOMAIN config = Kernels /\ DOMAIN settings = Kernels
    BY DEF DeviceInit
  <2> QED BY <2>1, <2>2, <2>3 DEF GridTypes
<1>2. TunerIsBest
  BY ConfigsAreSome, SMT DEF DeviceInit, TunerIsBest, NewTuner, NoTime
<1> QED BY <1>1, <1>2 DEF DeviceInit, GridInv

\* A call of the tuner: the time is compared with the least so far.
LEMMA RunGrids ==
  ASSUME GridInv, Tune
  PROVE  GridInv'
<1>1. PICK t \in Times : Run(t)
  BY DEF Tune
<1>2. /\ setup = "tune" /\ setup' = "tune" /\ tuner.idx <= NumConfigs
      /\ UNCHANGED <<work, ready, settings>> /\ ~ready
  BY DEF Tune, GridInv
<1>3. NumConfigs \in Nat \ {0} /\ t \in Nat \ {0}
  BY ConfigsAreSome
<1> DEFINE faster == tuner.time = NoTime \/ t < tuner.time
           best   == IF faster THEN tuner.idx ELSE tuner.best
           last   == tuner.iteration + 1 = RunsPerConfig
           time   == IF faster THEN t ELSE tuner.time
<1>4. /\ tuner.kernel \in Kernels /\ tuner.idx \in 1 .. NumConfigs /\ tuner.iteration \in Nat
      /\ tuner.best \in 1 .. NumConfigs /\ tuner.time \in Nat
      /\ least \in [1 .. NumConfigs -> Nat]
  BY <1>2, <1>3, SMT DEF GridInv, GridTypes
<1>5. tuner' = [kernel |-> tuner.kernel, idx |-> IF last THEN tuner.idx + 1 ELSE tuner.idx,
                iteration |-> IF last THEN 0 ELSE tuner.iteration + 1,
                best |-> best, time |-> time]
  <2>1. tuner' = [tuner EXCEPT !.best = best, !.time = IF faster THEN t ELSE @,
                               !.iteration = IF last THEN 0 ELSE @ + 1,
                               !.idx = IF last THEN @ + 1 ELSE @]
    BY <1>1 DEF Run
  <2>2. tuner = [kernel |-> tuner.kernel, idx |-> tuner.idx, iteration |-> tuner.iteration,
                 best |-> tuner.best, time |-> tuner.time]
    BY SMT DEF GridInv, GridTypes
  <2> DEFINE w == [kernel |-> tuner.kernel, idx |-> tuner.idx, iteration |-> tuner.iteration,
                   best |-> tuner.best, time |-> tuner.time]
  <2>3. tuner' = [w EXCEPT !.best = best, !.time = IF faster THEN t ELSE @,
                           !.iteration = IF last THEN 0 ELSE @ + 1,
                           !.idx = IF last THEN @ + 1 ELSE @]
    BY <2>1, <2>2, Zenon
  <2> HIDE DEF faster, best, last
  <2> QED BY <2>3 DEF time
<1> DEFINE idx == IF last THEN tuner.idx + 1 ELSE tuner.idx
           iteration == IF last THEN 0 ELSE tuner.iteration + 1
<1>50. /\ best \in 1 .. NumConfigs /\ time \in Nat \ {0}
       /\ idx \in 1 .. NumConfigs + 1 /\ iteration \in Nat
  <2>1. time \in Nat \ {0}
    BY <1>3, <1>4, SMT DEF NoTime
  <2>2. idx \in 1 .. NumConfigs + 1 /\ iteration \in Nat
    <3> HIDE DEF last
    <3> QED BY <1>3, <1>4, SMT
  <2>3. best \in 1 .. NumConfigs
    <3> HIDE DEF faster
    <3> QED BY <1>4
  <2> QED BY <2>1, <2>2, <2>3
<1>6. /\ tuner'.kernel = tuner.kernel /\ tuner'.best = best /\ tuner'.time = time
      /\ tuner'.idx = (IF last THEN tuner.idx + 1 ELSE tuner.idx)
      /\ tuner' \in [kernel : Kernels, idx : 1 .. NumConfigs + 1, iteration : Nat,
                     best : 1 .. NumConfigs, time : Nat]
      /\ time \in Nat \ {0}
  <2>1. tuner' = [kernel |-> tuner.kernel, idx |-> idx, iteration |-> iteration,
                  best |-> best, time |-> time]
    BY <1>5
  <2>2. idx = IF last THEN tuner.idx + 1 ELSE tuner.idx
    OBVIOUS
  <2> HIDE DEF best, time, idx, iteration, last
  <2> QED BY <1>4, <1>50, <2>1, <2>2, SMT
<1>7. /\ config' = [config EXCEPT ![tuner.kernel] =
                      TunerConfig(IF tuner'.idx > NumConfigs THEN best ELSE tuner.idx)]
      /\ least' = [least EXCEPT ![tuner.idx] = IF @ = NoTime \/ t < @ THEN t ELSE @]
  BY <1>1 DEF Run
<1> DEFINE new == IF least[tuner.idx] = NoTime \/ t < least[tuner.idx] THEN t ELSE least[tuner.idx]
<1>8. /\ new \in Nat \ {0} /\ new <= t
      /\ least' \in [1 .. NumConfigs -> Nat]
      /\ \A n \in 1 .. NumConfigs : least'[n] = IF n = tuner.idx THEN new ELSE least[n]
  BY <1>3, <1>4, <1>7, SMT DEF NoTime
<1>9. GridTypes'
  BY <1>2, <1>6, <1>7, <1>8, SMT DEF GridInv, GridTypes
<1>10. TunerIsBest'
  <2>1. TunerIsBest
    BY <1>2 DEF GridInv
  <2>2. ASSUME NEW n \in 1 .. NumConfigs, n < tuner'.idx
        PROVE  least'[n] # NoTime
    <3>1. n = tuner.idx \/ n < tuner.idx
      BY <1>4, <1>6, <2>2, SMT
    <3> QED BY <2>1, <3>1, <1>8, SMT DEF TunerIsBest, NoTime
  <2>3. ASSUME NEW n \in 1 .. NumConfigs, least'[n] # NoTime
        PROVE  least'[n] >= time
    <3>1. CASE n = tuner.idx
      <4>1. least[n] # NoTime => tuner.time # NoTime /\ least[n] >= tuner.time
        BY <2>1 DEF TunerIsBest
      <4> QED BY <1>3, <1>4, <1>8, <3>1, <4>1, SMT DEF NoTime
    <3>2. CASE n # tuner.idx
      <4>1. least'[n] = least[n]
        BY <1>8, <3>2
      <4>2. tuner.time # NoTime /\ least[n] >= tuner.time
        BY <2>1, <2>3, <4>1 DEF TunerIsBest
      <4> QED BY <1>3, <1>4, <4>1, <4>2, SMT
    <3> QED BY <3>1, <3>2
  <2>4. least'[best] = time
    <3>1. CASE faster
      <4>1. least[tuner.idx] # NoTime => tuner.time # NoTime /\ least[tuner.idx] >= tuner.time
        BY <1>4, <2>1 DEF TunerIsBest
      <4> QED BY <1>3, <1>4, <1>8, <3>1, <4>1, SMT DEF NoTime
    <3>2. CASE ~faster
      <4>1. tuner.time # NoTime /\ least[tuner.best] = tuner.time /\ t >= tuner.time
        BY <1>3, <1>4, <2>1, <3>2, SMT DEF TunerIsBest, NoTime
      <4> QED BY <1>3, <1>4, <1>8, <3>2, <4>1, SMT DEF NoTime
    <3> QED BY <3>1, <3>2
  <2>5. tuner'.idx > NumConfigs => config'[tuner'.kernel] = TunerConfig(tuner'.best)
    BY <1>4, <1>6, <1>7 DEF GridInv, GridTypes
  <2>6. tuner'.time # NoTime
    BY <1>6, SMT DEF NoTime
  <2> QED
    <3> HIDE DEF best, time
    <3> QED BY <1>6, <2>2, <2>3, <2>4, <2>5, <2>6 DEF TunerIsBest
<1>11. ASSUME NEW name \in Kernels, name # tuner.kernel
       PROVE  config'[name] = config[name]
  BY <1>7, <1>11 DEF GridInv, GridTypes
<1>12. /\ HashKernel' = HashKernel /\ \A name : Tuned(name)' = Tuned(name)
  BY <1>2 DEF HashKernel, Tuned
<1>13. \A name \in Before(tuner.kernel) : name # tuner.kernel /\ name \in Kernels
  BY DEF Before, Kernels
<1> QED
  <2> HIDE DEF faster, best, last, time, new
  <2> QED BY <1>2, <1>6, <1>9, <1>10, <1>11, <1>12, <1>13 DEF GridInv, SearchKernels

\* The sizes that were found are kept, and the next kernel is tuned.
LEMMA KernelTunedGrids ==
  ASSUME GridInv, KernelTuned
  PROVE  GridInv'
<1>1. NumConfigs \in Nat \ {0}
  BY ConfigsAreSome
<1>2. /\ setup = "tune" /\ tuner.idx > NumConfigs /\ ~ready /\ TunerIsBest
      /\ tuner.kernel \in SearchKernels /\ tuner.kernel \in Kernels
      /\ tuner.best \in 1 .. NumConfigs /\ tuner.idx \in Nat
      /\ \A name \in Before(tuner.kernel) : config[name] = settings[name] /\ Tuned(name)
      /\ settings' = [settings EXCEPT ![tuner.kernel] = config[tuner.kernel]]
      /\ least' = [n \in 1 .. NumConfigs |-> NoTime]
      /\ UNCHANGED <<work, config>>
  BY <1>1, SMT DEF KernelTuned, GridInv, GridTypes
<1>3. config[tuner.kernel] = TunerConfig(tuner.best)
  BY <1>2 DEF TunerIsBest
<1>4. /\ DOMAIN settings' = Kernels
      /\ \A name \in Kernels :
           settings'[name] = IF name = tuner.kernel THEN config[name] ELSE settings[name]
  BY <1>2 DEF GridInv, GridTypes
<1>5. ASSUME NEW name \in Kernels
      PROVE  /\ Tuned(name) => Tuned(name)'
             /\ name = tuner.kernel => Tuned(name)' /\ config'[name] = settings'[name]
             /\ config[name] = settings[name] => config'[name] = settings'[name]
             /\ settings'[name] = NoConfig \/ Tuned(name)'
  BY <1>2, <1>3, <1>4, <1>5 DEF Tuned, GridInv
<1>6. HashKernel' = HashKernel /\ HashKernel \in {"hashCompressed", "hashUncompressed"}
  BY <1>2 DEF HashKernel
<1>7. CASE tuner.kernel = HashKernel
  <2>1. setup' = "points" /\ ready' = TRUE /\ UNCHANGED tuner
    BY <1>7 DEF KernelTuned
  <2>2. Before(tuner.kernel) = {"increment", "double"}
    BY <1>6, <1>7 DEF Before
  <2>3. \A name \in SearchKernels : config'[name] = settings'[name] /\ Tuned(name)'
    BY <1>2, <1>5, <1>6, <1>7, <2>2 DEF SearchKernels, Kernels
  <2>4. GridTypes'
    BY <1>1, <1>2, <1>4, <2>1, SMT DEF GridInv, GridTypes, NoTime
  <2> QED BY <1>5, <1>6, <2>1, <2>3, <2>4 DEF GridInv, SearchKernels
<1>8. CASE tuner.kernel # HashKernel
  <2>1. tuner' = NewTuner(KernelAfter[tuner.kernel]) /\ UNCHANGED <<setup, ready>>
    BY <1>8 DEF KernelTuned
  <2>2. /\ tuner.kernel \in {"increment", "double"}
        /\ KernelAfter[tuner.kernel] \in SearchKernels /\ KernelAfter[tuner.kernel] \in Kernels
        /\ \A name \in Before(KernelAfter[tuner.kernel]) :
             name \in Kernels /\ (name \in Before(tuner.kernel) \/ name = tuner.kernel)
    <3>1. tuner.kernel \in {"increment", "double"}
      BY <1>2, <1>8 DEF SearchKernels
    <3>2. CASE tuner.kernel = "increment"
      BY <3>2 DEF KernelAfter, SearchKernels, Kernels, Before
    <3>3. CASE tuner.kernel = "double"
      <4>1. KernelAfter[tuner.kernel] = HashKernel
        BY <3>3 DEF KernelAfter
      <4>2. Before(HashKernel) = {"increment", "double"}
        BY <1>6 DEF Before
      <4> QED BY <1>6, <3>1, <3>3, <4>1, <4>2 DEF SearchKernels, Kernels, Before
    <3> QED BY <3>1, <3>2, <3>3
  <2>3. /\ tuner'.kernel = KernelAfter[tuner.kernel] /\ tuner'.idx = 1 /\ tuner'.time = NoTime
        /\ tuner' \in [kernel : Kernels, idx : 1 .. NumConfigs + 1, iteration : Nat,
                       best : 1 .. NumConfigs, time : Nat]
    BY <1>1, <2>1, <2>2, SMT DEF NewTuner, NoTime
  <2>4. GridTypes'
    BY <1>1, <1>2, <1>4, <2>1, <2>3, SMT DEF GridInv, GridTypes, NoTime
  <2>5. TunerIsBest'
    BY <1>1, <1>2, <2>3, SMT DEF TunerIsBest, NoTime
  <2>6. \A name \in Before(tuner'.kernel) : config'[name] = settings'[name] /\ Tuned(name)'
    BY <1>2, <1>5, <2>2, <2>3
  <2> QED BY <1>2, <1>5, <1>6, <2>1, <2>2, <2>3, <2>4, <2>5, <2>6 DEF GridInv, SearchKernels
<1> QED BY <1>7, <1>8

LEMMA NextGrids == GridInv /\ [SetUpDevice]_deviceVars => GridInv'
<1> SUFFICES ASSUME GridInv, [SetUpDevice]_deviceVars
             PROVE  GridInv'
  OBVIOUS
<1>1. CASE Begin
  <2>1. /\ setup = "idle" /\ setup' \in {"throw", "points"}
        /\ UNCHANGED <<ready, config, settings, tuner, least>>
    BY <1>1 DEF Begin
  <2>2. ~ready /\ tuner = NewTuner("increment") /\ TunerIsBest
    BY <2>1 DEF GridInv
  <2>3. GridTypes' /\ TunerIsBest'
    BY <2>1, <2>2 DEF GridInv, GridTypes, TunerIsBest
  <2> QED BY <2>1, <2>2, <2>3 DEF GridInv, Tuned
<1>2. ASSUME NEW pc \in {"idle", "throw"}, Destroyed(pc)
      PROVE  GridInv'
  BY <1>2, NewTunerIsBest DEF Destroyed
<1>3. CASE Leave \/ GpuFails
  BY <1>2, <1>3 DEF Leave, GpuFails
<1>4. CASE InitPoints
  <2>1. UNCHANGED <<setup, work, ready, config, settings, tuner, least>>
    BY <1>4 DEF InitPoints
  <2> QED BY <2>1 DEF GridInv, GridTypes, TunerIsBest, Tuned, SearchKernels, HashKernel
<1>5. CASE PointsAreSet
  <2>1. CASE Destroyed("throw")
    BY <1>2, <2>1
  <2>2. CASE ready /\ setup' = "ready" /\ UNCHANGED <<work, ready, config, settings, tuner, least>>
    <3>1. setup = "points"
      BY <1>5 DEF PointsAreSet
    <3> QED BY <2>2, <3>1 DEF GridInv, GridTypes, TunerIsBest, Tuned, SearchKernels, HashKernel
  <2>3. CASE ~ready /\ setup' = "tune" /\ UNCHANGED <<work, ready, config, settings, tuner, least>>
    <3>1. setup = "points" /\ tuner = NewTuner("increment") /\ TunerIsBest
      BY <1>5, <2>3 DEF PointsAreSet, GridInv
    <3>2. tuner'.kernel = "increment" /\ tuner'.idx = 1
      BY <2>3, <3>1 DEF NewTuner
    <3>3. TunerIsBest'
      BY <2>3, <3>1, <3>2, ConfigsAreSome, SMT DEF TunerIsBest
    <3>4. Before(tuner'.kernel) = {} /\ tuner'.kernel \in SearchKernels'
      BY <3>2 DEF Before, SearchKernels
    <3> QED BY <2>3, <3>1, <3>3, <3>4 DEF GridInv, GridTypes, Tuned
  <2>4. CASE /\ AreKernelsTuned /\ LoadTuning /\ ready' = TRUE /\ setup = "points"
             /\ UNCHANGED <<setup, work, settings, tuner, least>>
    <3>1. SearchKernels \subseteq Kernels /\ SearchKernels' = SearchKernels
      BY <2>4 DEF SearchKernels, HashKernel, Kernels
    <3>2. \A name \in SearchKernels : config'[name] = settings'[name] /\ Tuned(name)'
      BY <2>4, <3>1 DEF AreKernelsTuned, LoadTuning, SearchKernels, GridInv, Tuned
    <3>3. GridTypes'
      BY <2>4 DEF LoadTuning, GridInv, GridTypes
    <3> QED BY <2>4, <3>1, <3>2, <3>3 DEF GridInv, Tuned
  <2> QED BY <1>5, <2>1, <2>2, <2>3, <2>4 DEF PointsAreSet
<1>6. CASE Tune
  BY <1>6, RunGrids
<1>7. CASE KernelTuned
  BY <1>7, KernelTunedGrids
<1>8. CASE UNCHANGED deviceVars
  BY <1>8 DEF deviceVars, GridInv, GridTypes, TunerIsBest, Tuned, SearchKernels, HashKernel
<1> QED BY <1>1, <1>3, <1>4, <1>5, <1>6, <1>7, <1>8 DEF SetUpDevice

LEMMA GridInvariant == Spec => []GridInv
<1>1. Init => GridInv
  BY InitGrids DEF Init, CallInvModP, CallMultiplyPoint, CallBulk, CallOperator, CallDevice
<1>2. GridInv /\ [Next]_vars => GridInv'
  <2> SUFFICES ASSUME GridInv, [Next]_vars
               PROVE  [SetUpDevice]_deviceVars
    BY NextGrids
  <2> QED BY DEF Next, InvertModP, MultiplyPoint, GenerateKeyPairsBulk, SetUpDevices, vars
<1> QED BY <1>1, <1>2, PTL DEF Spec

\* For every number of sizes and of calls, and every sequence of times, a tuner
\* holds the fastest of what it has called, all of it when it is done, and the
\* kernels of a device that is ready are called with what the settings hold.
THEOREM GridsAreBestThm == Spec => []GridsAreBest
<1>1. GridInv => GridsAreBest
  <2> SUFFICES ASSUME GridInv
               PROVE  GridsAreBest
    OBVIOUS
  <2>1. NumConfigs \in Nat \ {0} /\ DOMAIN least = 1 .. NumConfigs
    BY ConfigsAreSome DEF GridInv, GridTypes
  <2>2. ASSUME setup = "tune", tuner.time # NoTime
        PROVE  /\ least[tuner.best] = tuner.time
               /\ \A n \in DOMAIN least : least[n] # NoTime => least[n] >= tuner.time
               /\ tuner.idx > NumConfigs =>
                    /\ \A n \in DOMAIN least : least[n] # NoTime
                    /\ config[tuner.kernel] = TunerConfig(tuner.best)
    <3>1. TunerIsBest /\ tuner.idx \in Nat
      BY <2>1, <2>2, SMT DEF GridInv, GridTypes
    <3>2. tuner.idx > NumConfigs => \A n \in 1 .. NumConfigs : n < tuner.idx
      BY <2>1, <3>1, SMT
    <3> QED BY <2>1, <2>2, <3>1, <3>2 DEF TunerIsBest
  <2>3. setup = "ready" => \A name \in SearchKernels : config[name] = settings[name] /\ Tuned(name)
    BY DEF GridInv
  <2> QED BY <2>1, <2>2, <2>3 DEF GridsAreBest, SearchKernels, Tuned
<1> QED BY <1>1, GridInvariant, PTL

-----------------------------------------------------------------------------
(* The kernels on points *)

LEMMA ReducedProduct == \A a, b \in 0 .. P - 1 : MultiplyModP(a, b) \in 0 .. P - 1
  BY FieldOps

LEMMA DeviceInverseIs ==
  \A z \in 0 .. P - 1 : /\ DeviceInverse(z) \in 0 .. P - 1
                        /\ z # 0 => DeviceInverse(z) = InvModP(z)
<1> TAKE z \in 0 .. P - 1
<1>1. P \in Nat \ {0} /\ 1 < P /\ 0 \in 0 .. P - 1 /\ z \in Int
  BY FieldConstants, SMT
<1>2. CASE z = 0
  BY <1>1, <1>2 DEF DeviceInverse
<1>3. CASE z # 0
  <2>1. z % P # 0
    BY <1>1, <1>3, SMT
  <2>2. InvModP(z) \in 1 .. P - 1
    BY <1>1, <2>1, InverseIs
  <2>3. InvModP(z) \in 0 .. P - 1
    BY <1>1, <2>2, SMT
  <2> QED BY <1>3, <2>3 DEF DeviceInverse
<1> QED BY <1>2, <1>3

\* One stride on or back in a batch.
LEMMA Strides ==
  ASSUME NEW last \in Int, NEW dim \in Nat \ {0}
  PROVE  /\ \A j \in -dim .. last : ~(j < 0) => j - dim \in -dim .. last /\ (j - dim) + dim \in Nat
                                               /\ (j - dim) + dim < j + dim
         /\ \A j \in -dim .. last : j + dim \in Nat
         /\ \A j \in 0 .. last : ~(j + dim > last) =>
              /\ j + dim \in 0 .. last /\ last - (j + dim) \in Nat
              /\ last - (j + dim) < last - j
         /\ \A j \in 0 .. last : /\ last - j \in Nat /\ j \in -dim .. last /\ ~(j < 0)
                                 /\ j - dim \in -dim .. last /\ (j + dim) - dim = j
                                 /\ j + dim \in Int
         /\ \A j \in 0 .. last : (j + dim) % dim = j % dim /\ (j - dim) % dim = j % dim
<1>1. dim \in Nat \ {0} /\ 1 \in Int /\ -1 \in Int
  BY SMT
<1>2. ASSUME NEW j \in 0 .. last
      PROVE  (j + dim) % dim = j % dim /\ (j - dim) % dim = j % dim
  <2>1. j \in Int /\ j + dim \in Int /\ j - dim \in Int /\ j + dim = j + 1 * dim /\ j - dim = j + (-1) * dim
    BY SMT
  <2>2. (j + dim) % dim = j % dim
    <3> DEFINE f == j + dim
    <3>1. f \in Int /\ f = j + 1 * dim
      BY <2>1
    <3> HIDE DEF f
    <3>2. f % dim = j % dim
      BY <1>1, <2>1, <3>1, RemainderSame
    <3> QED BY <3>2 DEF f
  <2>3. (j - dim) % dim = j % dim
    <3> DEFINE e == j - dim
    <3>1. e \in Int /\ j \in Int /\ j = e + 1 * dim
      BY SMT
    <3> HIDE DEF e
    <3>2. j % dim = e % dim
      BY <1>1, <3>1, RemainderSame
    <3> QED BY <3>2 DEF e
  <2> QED BY <2>2, <2>3
<1>3. \A j \in -dim .. last : ~(j < 0) => j - dim \in -dim .. last /\ (j - dim) + dim \in Nat
                                               /\ (j - dim) + dim < j + dim
  BY SMT
<1>4. \A j \in -dim .. last : j + dim \in Nat
  BY SMT
<1>5. \A j \in 0 .. last : ~(j + dim > last) =>
              /\ j + dim \in 0 .. last /\ last - (j + dim) \in Nat
              /\ last - (j + dim) < last - j
  BY SMT
<1>6. ASSUME NEW j \in 0 .. last
      PROVE  /\ last - j \in Nat /\ j \in -dim .. last /\ ~(j < 0)
             /\ j - dim \in -dim .. last /\ (j + dim) - dim = j
             /\ j + dim \in Int
  <2>1. last - j \in Nat /\ ~(j < 0) /\ (j + dim) - dim = j /\ j + dim \in Int
    BY SMT
  <2>2. j \in -dim .. last
    BY SMT
  <2>3. j - dim \in -dim .. last
    BY SMT
  <2> QED BY <2>1, <2>2, <2>3
<1> QED BY <1>2, <1>3, <1>4, <1>5, <1>6

\* The two recursions of BatchInverses.
IsChain(chain, in, dim, last) ==
  chain = [j \in -dim .. last |-> IF j < 0 THEN 1 ELSE MultiplyModP(chain[j - dim], in[j])]
IsBack(back, chain, in, dim, last) ==
  back = [j \in 0 .. last |-> IF j + dim > last THEN DeviceInverse(chain[j])
                              ELSE MultiplyModP(back[j + dim], in[j + dim])]

LEMMA BatchHas ==
  ASSUME NEW last \in Int, NEW dim \in Nat \ {0}, NEW in \in [0 .. last -> 0 .. P - 1]
  PROVE  \E chain \in [-dim .. last -> 0 .. P - 1], back \in [0 .. last -> 0 .. P - 1] :
           /\ IsChain(chain, in, dim, last) /\ IsBack(back, chain, in, dim, last)
           /\ BatchInverses(in, dim, last) = [j \in 0 .. last |-> MultiplyModP(chain[j - dim], back[j])]
<1> DEFINE D == -dim .. last
           E == 0 .. last
           T == 0 .. P - 1
           chain == CHOOSE f : f = [j \in D |-> IF j < 0 THEN 1 ELSE MultiplyModP(f[j - dim], in[j])]
           back == CHOOSE f : f = [j \in E |-> IF j + dim > last THEN DeviceInverse(chain[j])
                                               ELSE MultiplyModP(f[j + dim], in[j + dim])]
<1>1. 1 \in T
  BY FieldConstants, SMT
<1>2. /\ \A j \in D : ~(j < 0) => j - dim \in D /\ j \in E /\ (j - dim) + dim < j + dim
      /\ \A j \in D : j + dim \in Nat
      /\ \A j \in E : ~(j + dim > last) => j + dim \in E /\ last - (j + dim) < last - j
      /\ \A j \in E : last - j \in Nat /\ j \in D
  <2>1. \A j \in D : ~(j < 0) => j \in E
    BY SMT
  <2> QED BY <2>1, Strides
<1>3. \E f : IsChain(f, in, dim, last)
  <2> DEFINE stop == {j \in D : j < 0}
             result == [j \in stop |-> 1]
             next == [j \in D \ stop |-> j - dim]
             step == [j \in D |-> [y \in T |-> IF j < 0 THEN y ELSE MultiplyModP(y, in[j])]]
             measure == [j \in D |-> j + dim]
  <2>1. stop \in SUBSET D /\ result \in [stop -> T] /\ measure \in [D -> Nat]
    BY <1>1, <1>2
  <2>2. next \in [D \ stop -> D] /\ \A j \in D \ stop : measure[next[j]] < measure[j]
    BY <1>2
  <2>3. step \in [D -> [T -> T]]
    <3>1. ASSUME NEW j \in D, NEW y \in T
          PROVE  (IF j < 0 THEN y ELSE MultiplyModP(y, in[j])) \in T
      <4>1. ~(j < 0) => in[j] \in T
        BY <1>2
      <4> QED BY <4>1, ReducedProduct
    <3> HIDE DEF D, T
    <3> QED BY <3>1
  <2>4. IsLoop(D, T, stop, result, next, step, measure)
    <3> HIDE DEF D, T, stop, result, next, step, measure
    <3> QED BY <2>1, <2>2, <2>3 DEF IsLoop
  <2>5. PICK f : RunsTo(f, D, T, stop, result, next, step)
    <3> HIDE DEF D, T, stop, result, next, step, measure
    <3> QED BY <2>4, Recursion
  <2>6. f \in [D -> T] /\ \A j \in D : f[j] = IF j < 0 THEN 1 ELSE MultiplyModP(f[j - dim], in[j])
    <3>1. f \in [D -> T] /\ \A j \in D : f[j] = IF j \in stop THEN result[j] ELSE step[j][f[next[j]]]
      BY <2>5 DEF RunsTo
    <3>2. ASSUME NEW j \in D, j < 0
          PROVE  f[j] = 1
      BY <3>1, <3>2
    <3>3. ASSUME NEW j \in D, ~(j < 0)
          PROVE  f[j] = MultiplyModP(f[j - dim], in[j])
      <4>1. j \notin stop /\ next[j] = j - dim /\ j - dim \in D
        BY <1>2, <3>3
      <4>2. f[j - dim] \in T
        BY <3>1, <4>1
      <4>3. f[j] = step[j][f[j - dim]]
        <5> HIDE DEF stop, result, next, step, D, T
        <5> QED BY <3>1, <4>1
      <4> HIDE DEF D, T
      <4> QED BY <3>3, <4>2, <4>3
    <3> HIDE DEF D, T
    <3> QED BY <3>1, <3>2, <3>3
  <2>7. f = [j \in D |-> IF j < 0 THEN 1 ELSE MultiplyModP(f[j - dim], in[j])]
    <3> HIDE DEF D, T
    <3> QED BY <2>6
  <2> QED BY <2>7 DEF IsChain
<1>4. chain = [j \in D |-> IF j < 0 THEN 1 ELSE MultiplyModP(chain[j - dim], in[j])]
  <2>1. PICK f : f = [j \in D |-> IF j < 0 THEN 1 ELSE MultiplyModP(f[j - dim], in[j])]
    BY <1>3 DEF IsChain
  <2> HIDE DEF D
  <2> QED BY <2>1, Zenon
<1> HIDE DEF chain
<1>5. chain \in [D -> T]
  <2> DEFINE S == {m \in Nat : \A j \in D : j + dim < m => chain[j] \in T}
  <2>1. 0 \in S
    <3>1. \A m \in Nat : ~(m < 0)
      BY SMT
    <3> QED BY <1>2, <3>1
  <2>2. ASSUME NEW m \in Nat, m \in S
        PROVE  m + 1 \in S
    <3> SUFFICES ASSUME NEW j \in D, j + dim < m + 1
                 PROVE  chain[j] \in T
      BY SMT
    <3>1. CASE j < 0
      BY <1>1, <1>4, <3>1
    <3>2. CASE ~(j < 0)
      <4>1. j - dim \in D /\ (j - dim) + dim < m /\ j \in E
        <5>1. j - dim \in D /\ (j - dim) + dim < j + dim /\ j + dim \in Nat /\ j \in E
              /\ (j - dim) + dim \in Nat
          BY <1>2, <3>2
        <5> QED BY <5>1, SMT
      <4>2. chain[j - dim] \in T /\ in[j] \in T
        BY <2>2, <4>1
      <4>3. chain[j] = MultiplyModP(chain[j - dim], in[j])
        BY <1>4, <3>2
      <4> HIDE DEF T
      <4> QED BY <4>2, <4>3, ReducedProduct DEF T
    <3> QED BY <3>1, <3>2
  <2>3. Nat \subseteq S
    <3> HIDE DEF S
    <3> QED BY <2>1, <2>2, SetInduction
  <2>4. ASSUME NEW j \in D
        PROVE  chain[j] \in T
    <3>1. (j + dim) + 1 \in Nat /\ j + dim < (j + dim) + 1
      BY <1>2, SMT
    <3> QED BY <2>3, <3>1
  <2> HIDE DEF D, T, S
  <2> QED BY <1>4, <2>4
<1>6. \E f : IsBack(f, chain, in, dim, last)
  <2> DEFINE stop == {j \in E : j + dim > last}
             result == [j \in stop |-> DeviceInverse(chain[j])]
             next == [j \in E \ stop |-> j + dim]
             step == [j \in E |-> [y \in T |-> IF j + dim > last THEN y ELSE MultiplyModP(y, in[j + dim])]]
             measure == [j \in E |-> last - j]
  <2>1. stop \in SUBSET E /\ result \in [stop -> T] /\ measure \in [E -> Nat]
    <3>1. ASSUME NEW j \in E
          PROVE  DeviceInverse(chain[j]) \in T
      <4>1. chain[j] \in T
        BY <1>2, <1>5
      <4> QED BY <4>1, DeviceInverseIs
    <3> QED BY <1>2, <3>1
  <2>2. next \in [E \ stop -> E] /\ \A j \in E \ stop : measure[next[j]] < measure[j]
    BY <1>2
  <2>3. step \in [E -> [T -> T]]
    <3>1. ASSUME NEW j \in E, NEW y \in T
          PROVE  (IF j + dim > last THEN y ELSE MultiplyModP(y, in[j + dim])) \in T
      <4>1. ~(j + dim > last) => in[j + dim] \in T
        BY <1>2
      <4> QED BY <4>1, ReducedProduct
    <3> HIDE DEF E, T
    <3> QED BY <3>1
  <2>4. IsLoop(E, T, stop, result, next, step, measure)
    <3> HIDE DEF E, T, stop, result, next, step, measure
    <3> QED BY <2>1, <2>2, <2>3 DEF IsLoop
  <2>5. PICK f : RunsTo(f, E, T, stop, result, next, step)
    <3> HIDE DEF E, T, stop, result, next, step, measure
    <3> QED BY <2>4, Recursion
  <2>6. f \in [E -> T] /\ \A j \in E : f[j] = IF j + dim > last THEN DeviceInverse(chain[j])
                                              ELSE MultiplyModP(f[j + dim], in[j + dim])
    <3>1. f \in [E -> T] /\ \A j \in E : f[j] = IF j \in stop THEN result[j] ELSE step[j][f[next[j]]]
      BY <2>5 DEF RunsTo
    <3>2. ASSUME NEW j \in E, j + dim > last
          PROVE  f[j] = DeviceInverse(chain[j])
      BY <3>1, <3>2
    <3>3. ASSUME NEW j \in E, ~(j + dim > last)
          PROVE  f[j] = MultiplyModP(f[j + dim], in[j + dim])
      <4>1. j \notin stop /\ next[j] = j + dim /\ j + dim \in E
        BY <1>2, <3>3
      <4>2. f[j + dim] \in T
        BY <3>1, <4>1
      <4>3. f[j] = step[j][f[j + dim]]
        <5> HIDE DEF stop, result, next, step, E, T
        <5> QED BY <3>1, <4>1
      <4> HIDE DEF E, T
      <4> QED BY <3>3, <4>2, <4>3
    <3> HIDE DEF E, T
    <3> QED BY <3>1, <3>2, <3>3
  <2>7. f = [j \in E |-> IF j + dim > last THEN DeviceInverse(chain[j])
                         ELSE MultiplyModP(f[j + dim], in[j + dim])]
    <3> HIDE DEF E, T
    <3> QED BY <2>6
  <2> QED BY <2>7 DEF IsBack
<1>7. back = [j \in E |-> IF j + dim > last THEN DeviceInverse(chain[j])
                          ELSE MultiplyModP(back[j + dim], in[j + dim])]
  <2>1. PICK f : f = [j \in E |-> IF j + dim > last THEN DeviceInverse(chain[j])
                                  ELSE MultiplyModP(f[j + dim], in[j + dim])]
    BY <1>6 DEF IsBack
  <2> HIDE DEF E
  <2> QED BY <2>1, Zenon
<1>8. BatchInverses(in, dim, last) = [j \in 0 .. last |-> MultiplyModP(chain[j - dim], back[j])]
  BY DEF BatchInverses, chain
<1> HIDE DEF back
<1>9. back \in [E -> T]
  <2> DEFINE S == {m \in Nat : \A j \in E : last - j < m => back[j] \in T}
  <2>1. 0 \in S
    <3>1. \A m \in Nat : ~(m < 0)
      BY SMT
    <3> QED BY <1>2, <3>1
  <2>2. ASSUME NEW m \in Nat, m \in S
        PROVE  m + 1 \in S
    <3> SUFFICES ASSUME NEW j \in E, last - j < m + 1
                 PROVE  back[j] \in T
      BY SMT
    <3>1. CASE j + dim > last
      <4>1. chain[j] \in T
        BY <1>2, <1>5
      <4> QED BY <1>7, <3>1, <4>1, DeviceInverseIs
    <3>2. CASE ~(j + dim > last)
      <4>1. j + dim \in E /\ last - (j + dim) < m
        <5>1. j + dim \in E /\ last - (j + dim) < last - j /\ last - j \in Nat
              /\ last - (j + dim) \in Nat
          BY <1>2, <3>2
        <5> QED BY <5>1, SMT
      <4>2. back[j + dim] \in T /\ in[j + dim] \in T
        BY <2>2, <4>1
      <4>3. back[j] = MultiplyModP(back[j + dim], in[j + dim])
        BY <1>7, <3>2
      <4> HIDE DEF T
      <4> QED BY <4>2, <4>3, ReducedProduct DEF T
    <3> QED BY <3>1, <3>2
  <2>3. Nat \subseteq S
    <3> HIDE DEF S
    <3> QED BY <2>1, <2>2, SetInduction
  <2>4. ASSUME NEW j \in E
        PROVE  back[j] \in T
    <3>1. (last - j) + 1 \in Nat /\ last - j < (last - j) + 1
      BY <1>2, SMT
    <3> QED BY <2>3, <3>1
  <2> HIDE DEF E, T, S
  <2> QED BY <1>7, <2>4
<1> QED BY <1>4, <1>5, <1>7, <1>8, <1>9 DEF IsChain, IsBack

\* The inverses of a batch: reduced, and right where no factor of the thread's
\* batch is zero.
LEMMA BatchIs ==
  ASSUME NEW last \in Int, NEW dim \in Nat \ {0}, NEW in \in [0 .. last -> 0 .. P - 1]
  PROVE  \A j \in 0 .. last :
           /\ BatchInverses(in, dim, last)[j] \in 0 .. P - 1
           /\ (\A m \in 0 .. last : m % dim = j % dim => in[m] # 0)
                => BatchInverses(in, dim, last)[j] = InvModP(in[j])
<1> DEFINE D == -dim .. last
           E == 0 .. last
           T == 0 .. P - 1
           U == 1 .. P - 1
           Whole(j) == \A m \in E : m % dim = j % dim => in[m] # 0
<1>1. PICK chain \in [D -> T], back \in [E -> T] :
           /\ IsChain(chain, in, dim, last) /\ IsBack(back, chain, in, dim, last)
           /\ BatchInverses(in, dim, last) = [j \in E |-> MultiplyModP(chain[j - dim], back[j])]
  BY BatchHas
<1>2. /\ \A j \in D : chain[j] = IF j < 0 THEN 1 ELSE MultiplyModP(chain[j - dim], in[j])
      /\ \A j \in E : back[j] = IF j + dim > last THEN DeviceInverse(chain[j])
                                ELSE MultiplyModP(back[j + dim], in[j + dim])
  <2>1. chain = [j \in D |-> IF j < 0 THEN 1 ELSE MultiplyModP(chain[j - dim], in[j])]
    BY <1>1 DEF IsChain
  <2>2. back = [j \in E |-> IF j + dim > last THEN DeviceInverse(chain[j])
                              ELSE MultiplyModP(back[j + dim], in[j + dim])]
    BY <1>1 DEF IsBack
  <2> HIDE DEF D, E
  <2> QED BY <2>1, <2>2
<1>3. /\ \A j \in D : ~(j < 0) => j - dim \in D /\ j \in E /\ (j - dim) + dim < j + dim
      /\ \A j \in D : j + dim \in Nat
      /\ \A j \in E : ~(j + dim > last) => j + dim \in E /\ last - (j + dim) < last - j
      /\ \A j \in E : last - j \in Nat /\ j \in D /\ ~(j < 0) /\ j - dim \in D /\ (j + dim) - dim = j
      /\ \A j \in E : (j + dim) % dim = j % dim /\ (j - dim) % dim = j % dim
  <2>1. \A j \in D : ~(j < 0) => j \in E
    BY SMT
  <2> QED BY <2>1, Strides
<1>4. \A z \in T : z # 0 => z \in U
  BY SMT
<1>5. 1 \in U /\ \A z \in U : z # 0 /\ z \in T
  BY FieldConstants, SMT
<1>6. \A j \in E : Whole(j) => in[j] \in U
  BY <1>4
<1>7. \A j \in D : (j < 0 \/ Whole(j)) => chain[j] \in U
  <2> DEFINE S == {m \in Nat : \A j \in D : j + dim < m /\ (j < 0 \/ Whole(j)) => chain[j] \in U}
  <2>1. 0 \in S
    <3>1. \A m \in Nat : ~(m < 0)
      BY SMT
    <3> QED BY <1>3, <3>1
  <2>2. ASSUME NEW m \in Nat, m \in S
        PROVE  m + 1 \in S
    <3>0. m + 1 \in Nat
      BY SMT
    <3> SUFFICES ASSUME NEW j \in D, j + dim < m + 1, j < 0 \/ Whole(j)
                 PROVE  chain[j] \in U
      BY <3>0
    <3>1. CASE j < 0
      BY <1>2, <1>5, <3>1
    <3>2. CASE ~(j < 0)
      <4>1. j - dim \in D /\ (j - dim) + dim < m /\ j \in E /\ (j - dim) % dim = j % dim
        <5>1. j - dim \in D /\ (j - dim) + dim < j + dim /\ j + dim \in Nat /\ j \in E
              /\ (j - dim) + dim \in Nat /\ (j - dim) % dim = j % dim
          BY <1>3, <3>2
        <5> QED BY <5>1, SMT
      <4>2. Whole(j) /\ Whole(j - dim)
        BY <3>2, <4>1
      <4>3. chain[j - dim] \in U /\ in[j] \in U
        <5>1. chain[j - dim] \in U
          <6> HIDE DEF Whole, D, U
          <6> QED BY <2>2, <4>1, <4>2
        <5> QED BY <1>6, <4>1, <4>2, <5>1
      <4>4. chain[j] = MultiplyModP(chain[j - dim], in[j])
        BY <1>2, <3>2
      <4> HIDE DEF U
      <4> QED BY <4>3, <4>4, ProductNotZero DEF U
    <3> QED BY <3>1, <3>2
  <2>3. Nat \subseteq S
    <3> HIDE DEF S
    <3> QED BY <2>1, <2>2, SetInduction
  <2> SUFFICES ASSUME NEW j \in D, j < 0 \/ Whole(j)
               PROVE  chain[j] \in U
    OBVIOUS
  <2>4. (j + dim) + 1 \in Nat /\ j + dim < (j + dim) + 1
    BY <1>3, SMT
  <2>5. (j + dim) + 1 \in S
    <3> HIDE DEF S
    <3> QED BY <2>3, <2>4
  <2> HIDE DEF Whole, D, U
  <2> QED BY <2>4, <2>5
<1>8. \A j \in E : Whole(j) => back[j] = InvModP(chain[j])
  <2> DEFINE S == {m \in Nat : \A j \in E : last - j < m /\ Whole(j) => back[j] = InvModP(chain[j])}
  <2>1. 0 \in S
    <3>1. \A m \in Nat : ~(m < 0)
      BY SMT
    <3> QED BY <1>3, <3>1
  <2>2. ASSUME NEW m \in Nat, m \in S
        PROVE  m + 1 \in S
    <3>0. m + 1 \in Nat
      BY SMT
    <3> SUFFICES ASSUME NEW j \in E, last - j < m + 1, Whole(j)
                 PROVE  back[j] = InvModP(chain[j])
      BY <3>0
    <3>1. CASE j + dim > last
      <4>1. chain[j] \in U
        BY <1>3, <1>7
      <4>2. chain[j] \in T /\ chain[j] # 0
        BY <1>5, <4>1
      <4> QED BY <1>2, <3>1, <4>2, DeviceInverseIs
    <3>2. CASE ~(j + dim > last)
      <4> DEFINE next == j + dim
      <4>1. next \in E /\ last - next < m /\ next % dim = j % dim /\ next - dim = j
            /\ next \in D /\ ~(next < 0)
        <5>1. j + dim \in E /\ last - (j + dim) < last - j /\ last - j \in Nat
              /\ (j + dim) % dim = j % dim /\ (j + dim) - dim = j
          BY <1>3, <3>2
        <5>2. last - (j + dim) \in Nat /\ j + dim \in D /\ ~(j + dim < 0)
          BY <1>3, <5>1
        <5> QED BY <5>1, <5>2, SMT
      <4>2. Whole(next)
        BY <4>1
      <4> HIDE DEF next
      <4>3. back[next] = InvModP(chain[next])
        <5> HIDE DEF Whole, E
        <5> QED BY <2>2, <4>1, <4>2
      <4>4. chain[next] = MultiplyModP(chain[j], in[next])
        BY <1>2, <4>1
      <4>5. chain[j] \in U /\ in[next] \in U
        <5> HIDE DEF Whole, D, E, U
        <5> QED BY <1>3, <1>6, <1>7, <4>1, <4>2
      <4>6. back[j] = MultiplyModP(back[next], in[next])
        BY <1>2, <3>2 DEF next
      <4>7. MultiplyModP(InvModP(MultiplyModP(chain[j], in[next])), in[next]) = InvModP(chain[j])
        BY <4>5, InverseOfPrefix
      <4> QED BY <4>3, <4>4, <4>6, <4>7
    <3> QED BY <3>1, <3>2
  <2>3. Nat \subseteq S
    <3> HIDE DEF S
    <3> QED BY <2>1, <2>2, SetInduction
  <2> SUFFICES ASSUME NEW j \in E, Whole(j)
               PROVE  back[j] = InvModP(chain[j])
    OBVIOUS
  <2>4. (last - j) + 1 \in Nat /\ last - j < (last - j) + 1
    BY <1>3, SMT
  <2>5. (last - j) + 1 \in S
    <3> HIDE DEF S
    <3> QED BY <2>3, <2>4
  <2> HIDE DEF Whole, E
  <2> QED BY <2>4, <2>5
<1> SUFFICES ASSUME NEW j \in E
             PROVE  /\ BatchInverses(in, dim, last)[j] \in T
                    /\ Whole(j) => BatchInverses(in, dim, last)[j] = InvModP(in[j])
  OBVIOUS
<1>9. j \in D /\ ~(j < 0) /\ j - dim \in D /\ (j - dim) % dim = j % dim
  BY <1>3
<1>10. BatchInverses(in, dim, last)[j] = MultiplyModP(chain[j - dim], back[j])
  BY <1>1
<1>11. chain[j - dim] \in T /\ back[j] \in T
  BY <1>9
<1>12. BatchInverses(in, dim, last)[j] \in T
  <2> HIDE DEF T
  <2> QED BY <1>10, <1>11, ReducedProduct DEF T
<1>13. ASSUME Whole(j)
       PROVE  BatchInverses(in, dim, last)[j] = InvModP(in[j])
  <2>1. Whole(j - dim)
    BY <1>9, <1>13
  <2>2. chain[j - dim] \in U /\ in[j] \in U /\ back[j] = InvModP(chain[j])
    <3> HIDE DEF Whole, D, E, U
    <3> QED BY <1>6, <1>7, <1>8, <1>9, <1>13, <2>1
  <2>3. chain[j] = MultiplyModP(chain[j - dim], in[j])
    BY <1>2, <1>9
  <2>4. MultiplyModP(chain[j - dim], InvModP(MultiplyModP(chain[j - dim], in[j]))) = InvModP(in[j])
    BY <2>2, InverseOfPrefix
  <2> QED BY <1>10, <2>2, <2>3, <2>4
<1> QED BY <1>12, <1>13

\* What is inverted is zero only where a point with the x of q is not doubled.
LEMMA DifferenceIs ==
  ASSUME NEW q \in CurvePoints, NEW p, IsAffine(p)
  PROVE  /\ Difference(q, p, TRUE) \in 0 .. P - 1 /\ Difference(q, p, TRUE) # 0
         /\ Difference(q, p, FALSE) \in 0 .. P - 1
         /\ q.x # p.x => Difference(q, p, FALSE) # 0
<1> DEFINE qx == q.x
           qy == q.y
           px == p.x
<1>1. /\ qx \in 0 .. P - 1 /\ qy \in 1 .. P - 1 /\ px \in 0 .. P - 1
  BY PointIs DEF IsAffine
<1>2. qy \in 0 .. P - 1
  <2> HIDE DEF qy
  <2> QED BY <1>1, SMT
<1> HIDE DEF qx, qy, px
<1>3. AddModP(qy, qy) \in 0 .. P - 1 /\ AddModP(qy, qy) # 0
  BY <1>1, <1>2, FieldOps, TwiceNotZero
<1>4. SubModP(qx, px) \in 0 .. P - 1 /\ SubModP(qx, px) = (qx - px) % P
  BY <1>1, FieldOps
<1>5. qx # px => SubModP(qx, px) # 0
  BY <1>1, <1>4, SameBelow
<1> QED BY <1>3, <1>4, <1>5 DEF Difference, qx, qy, px

\* Whatever it is given, a kernel writes reduced numbers.
LEMMA SumIsReduced ==
  ASSUME NEW q \in CurvePoints, NEW p, IsAffine(p), NEW inv \in 0 .. P - 1, NEW double \in BOOLEAN
  PROVE  IsAffine(SumWith(q, p, inv, double))
<1> DEFINE square == MultiplyModP(p.x, p.x)
           rise == IF double /\ q.x = p.x THEN AddModP(square, AddModP(square, square))
                   ELSE SubModP(q.y, p.y)
           s == MultiplyModP(rise, inv)
           rx == SubModP(SubModP(MultiplyModP(s, s), q.x), p.x)
           ry == SubModP(MultiplyModP(s, SubModP(q.x, rx)), q.y)
<1>1. /\ q.x \in 0 .. P - 1 /\ q.y \in 0 .. P - 1 /\ p.x \in 0 .. P - 1 /\ p.y \in 0 .. P - 1
  BY PointIs DEF IsAffine
<1>2. rise \in 0 .. P - 1
  BY <1>1, FieldOps
<1> HIDE DEF rise
<1>3. s \in 0 .. P - 1
  BY <1>2, FieldOps
<1> HIDE DEF s
<1>4. rx \in 0 .. P - 1
  <2>1. MultiplyModP(s, s) \in 0 .. P - 1
    BY <1>3, FieldOps
  <2>2. SubModP(MultiplyModP(s, s), q.x) \in 0 .. P - 1
    BY <1>1, <2>1, FieldOps
  <2> QED BY <1>1, <2>2, FieldOps
<1> HIDE DEF rx
<1>5. ry \in 0 .. P - 1
  <2>1. SubModP(q.x, rx) \in 0 .. P - 1
    BY <1>1, <1>4, FieldOps
  <2>2. MultiplyModP(s, SubModP(q.x, rx)) \in 0 .. P - 1
    BY <1>3, <2>1, FieldOps
  <2> QED BY <1>1, <2>2, FieldOps
<1> HIDE DEF ry
<1>6. SumWith(q, p, inv, double) = [x |-> rx, y |-> ry]
  BY Zenon DEF SumWith, OnLine, Point, rise, s, rx, ry
<1> QED BY <1>4, <1>5, <1>6 DEF IsAffine

\* Thrice a number, in either order.
LEMMA ThriceIs ==
  ASSUME NEW a \in 0 .. P - 1
  PROVE  AddModP(a, AddModP(a, a)) = AddModP(AddModP(a, a), a)
<1> DEFINE b == AddModP(a, a)
<1>1. b \in 0 .. P - 1
  BY FieldOps
<1> HIDE DEF b
<1>2. AddModP(a, b) = (a + b) % P /\ AddModP(b, a) = (b + a) % P
  BY <1>1, FieldOps
<1>3. a + b = b + a
  BY <1>1, SMT
<1> QED BY <1>2, <1>3 DEF b

\* With the inverse of the difference, q is added, or doubled.
LEMMA SumIs ==
  ASSUME NEW q \in CurvePoints, NEW p \in CurvePoints, NEW double \in BOOLEAN,
         q.x # p.x \/ (double /\ p = q)
  PROVE  SumWith(q, p, InvModP(Difference(q, p, double)), double) = AddPoints(q, p)
<1>1. ~IsPointAtInfinity(p) /\ ~IsPointAtInfinity(q) /\ q.x \in 0 .. P - 1
  BY PointIs DEF IsAffine
<1>2. CASE q.x # p.x
  <2>1. Difference(q, p, double) = SubModP(q.x, p.x)
    BY <1>2 DEF Difference
  <2>2. SumWith(q, p, InvModP(Difference(q, p, double)), double) =
          OnLine(MultiplyModP(SubModP(q.y, p.y), InvModP(SubModP(q.x, p.x))), q, p.x)
    BY <1>2, <2>1, Zenon DEF SumWith
  <2>3. q # p
    BY <1>2
  <2>4. AddPoints(q, p) =
          OnLine(MultiplyModP(SubModP(q.y, p.y), InvModP(SubModP(q.x, p.x))), q, p.x)
    BY <1>1, <1>2, <2>3, Zenon DEF AddPoints
  <2> QED BY <2>2, <2>4
<1>3. CASE double /\ p = q
  <2> DEFINE a == MultiplyModP(q.x, q.x)
  <2>1. a \in 0 .. P - 1
    BY <1>1, FieldOps
  <2>2. AddModP(a, AddModP(a, a)) = AddModP(AddModP(a, a), a)
    BY <2>1, ThriceIs
  <2>3. Difference(q, p, double) = AddModP(q.y, q.y)
    BY <1>3 DEF Difference
  <2>4. SumWith(q, p, InvModP(Difference(q, p, double)), double) =
          OnLine(MultiplyModP(AddModP(a, AddModP(a, a)), InvModP(AddModP(q.y, q.y))), q, q.x)
    BY <1>3, <2>3, Zenon DEF SumWith
  <2>5. AddPoints(q, p) = DoublePoint(q)
    BY <1>3 DEF AddPoints
  <2>6. DoublePoint(q) =
          OnLine(MultiplyModP(AddModP(AddModP(a, a), a), InvModP(AddModP(q.y, q.y))), q, q.x)
    BY DEF DoublePoint
  <2> HIDE DEF a
  <2> QED BY <2>2, <2>4, <2>5, <2>6
<1> QED BY <1>2, <1>3

\* The host's point of a key, as sanity_check and the incrementor use it.
LEMMA HostPointIs ==
  ASSUME NEW key \in Numbers
  PROVE  HostPoint(key) = Multiple(key)
<1> DEFINE D == 0 .. Bits
           F == [n \in D |-> Multiple(key % TwoTo[n])]
           After(n, p) == IF KeyBit(key, n - 1) THEN AddPoints(p, BulkTable[n]) ELSE p
           partial == CHOOSE f : f = [n \in D |-> IF n = 0 THEN PointAtInfinity
                        ELSE IF KeyBit(key, n - 1) THEN AddPoints(f[n - 1], BulkTable[n]) ELSE f[n - 1]]
<1>1. 0 \in D /\ Bits \in D /\ F[0] = PointAtInfinity
  <2>1. 0 \in D /\ Bits \in D /\ key % 1 = 0
    BY WidthIs, NumberIs, SMT
  <2> QED BY <2>1, PowersOfTwo, GroupAssumption
<1>2. ASSUME NEW n \in D, n # 0
      PROVE  n - 1 \in D /\ F[n] = After(n, F[n - 1])
  <2> DEFINE e == n - 1
  <2>1. e \in 0 .. Bits - 1 /\ e \in D /\ e + 1 = n /\ n \in 1 .. Bits /\ e # Bits
    BY <1>2, WidthIs, SMT
  <2>2. BulkTable[n] = Multiple(TwoTo[e])
    BY <2>1, BulkTableIs
  <2> HIDE DEF e
  <2> DEFINE t == TwoTo[e]
             r == key % t
  <2>3. /\ t \in Nat /\ t % N # 0 /\ r \in Nat
        /\ KeyBit(key, e)  => key % TwoTo[n] = r + t
        /\ ~KeyBit(key, e) => key % TwoTo[n] = r
    BY <2>1, NextBit, PowersOfKeys
  <2> HIDE DEF t, r
  <2>4. AddPoints(Multiple(r), Multiple(t)) = Multiple(r + t)
    BY <2>3, MultipleAdd
  <2>5. F[e] = Multiple(r) /\ F[n] = Multiple(key % TwoTo[n])
    BY <2>1 DEF r, t
  <2> HIDE DEF F
  <2>6. F[n] = IF KeyBit(key, e) THEN AddPoints(F[e], BulkTable[n]) ELSE F[e]
    BY <2>2, <2>3, <2>4, <2>5 DEF t
  <2> QED BY <2>1, <2>6 DEF e
<1> HIDE DEF F, D
<1>3. F = [n \in D |-> IF n = 0 THEN PointAtInfinity
                       ELSE IF KeyBit(key, n - 1) THEN AddPoints(F[n - 1], BulkTable[n]) ELSE F[n - 1]]
  <2>1. F = [n \in D |-> F[n]]
    BY DEF F
  <2> QED BY <1>1, <1>2, <2>1
<1>4. partial = [n \in D |-> IF n = 0 THEN PointAtInfinity
                 ELSE IF KeyBit(key, n - 1) THEN AddPoints(partial[n - 1], BulkTable[n]) ELSE partial[n - 1]]
  BY <1>3, Zenon
<1>5. HostPoint(key) = partial[Bits]
  BY DEF HostPoint, D
<1> HIDE DEF partial
<1> DEFINE S == {n \in Nat : n \in D => partial[n] = F[n]}
<1>6. 0 \in S
  <2>1. 0 \in Nat
    OBVIOUS
  <2> QED BY <1>1, <1>4, <2>1
<1>7. ASSUME NEW n \in Nat, n \in S
      PROVE  n + 1 \in S
  <2>1. n + 1 \in Nat /\ n + 1 # 0 /\ (n + 1) - 1 = n /\ (n + 1 \in D => n \in D)
    BY WidthIs, SMT DEF D
  <2> SUFFICES ASSUME n + 1 \in D
               PROVE  partial[n + 1] = F[n + 1]
    BY <2>1
  <2> DEFINE m == n + 1
  <2>2. m \in D /\ m # 0 /\ m - 1 = n /\ partial[n] = F[n]
    BY <1>7, <2>1
  <2> HIDE DEF m
  <2>3. partial[m] = After(m, partial[m - 1])
    BY <1>4, <2>2
  <2>4. F[m] = After(m, F[m - 1])
    BY <1>2, <2>2
  <2> QED BY <2>2, <2>3, <2>4 DEF m
<1>8. Nat \subseteq S
  <2> HIDE DEF S
  <2> QED BY <1>6, <1>7, SetInduction
<1>9. partial[Bits] = F[Bits]
  <2>1. Bits \in Nat
    BY WidthIs
  <2> QED BY <1>1, <1>8, <2>1
<1>10. F[Bits] = Multiple(key)
  <2>1. TwoTo[Bits] = M /\ key % M = key
    BY NumberIs, WidthIs DEF BaseTo
  <2> QED BY <1>1, <2>1 DEF F
<1> QED BY <1>5, <1>9, <1>10

LEMMA SizeOfIndices == \A n \in Nat : Cardinality(0 .. n - 1) = n /\ Cardinality(0 .. n - 1) - 1 = n - 1
<1> TAKE n \in Nat
<1>1. 0 \in Int /\ n - 1 \in Int
  BY SMT
<1>2. Cardinality(0 .. n - 1) = IF 0 > n - 1 THEN 0 ELSE (n - 1) - 0 + 1
  BY <1>1, FS_Interval
<1>3. Cardinality(0 .. n - 1) = n
  BY <1>2, SMT
<1> QED BY <1>3

\* One call of init_public_keys, for points whose keys are below the order.
LEMMA InitPublicKeysIs ==
  ASSUME NEW n \in Nat, NEW start \in Nat, start + n <= N, NEW bit \in 0 .. Bits - 1, NEW ps,
         ps = [j \in 0 .. n - 1 |-> Multiple((start + j) % TwoTo[bit])]
  PROVE  InitPublicKeys(ps, start, bit) =
           [j \in 0 .. n - 1 |-> Multiple((start + j) % TwoTo[bit + 1])]
<1> DEFINE J == 0 .. n - 1
           t == TwoTo[bit]
           q == BulkTable[bit + 1]
           Low(j) == (start + j) % TwoTo[bit]
           High(j) == (start + j) % TwoTo[bit + 1]
           set == {j \in DOMAIN ps : KeyBit((start + j) % M, bit)}
           fresh == {j \in set : IsPointAtInfinity(ps[j])}
           added == AddToPoints(ps, q, set \ fresh, set \ fresh, InitThreads, TRUE)
<1>1. InitPublicKeys(ps, start, bit) = [j \in DOMAIN ps |-> IF j \in fresh THEN q ELSE added[j]]
  BY DEF InitPublicKeys
<1>2. /\ bit + 1 \in 1 .. Bits /\ (bit + 1) - 1 = bit /\ bit \in 0 .. Bits /\ bit # Bits
      /\ N \in Nat \ {0} /\ N < M /\ M \in Nat
  BY WidthIs, FieldConstants, SMT
<1>3. q = Multiple(t) /\ t \in Nat /\ t % N # 0 /\ q \in CurvePoints
  <2>1. q = Multiple(t)
    BY <1>2, BulkTableIs
  <2>2. t \in Nat /\ t % N # 0
    BY <1>2, PowersOfKeys
  <2> QED BY <2>1, <2>2, MultipleIs
<1>4. DOMAIN ps = J /\ \A j \in J : ps[j] = Multiple(Low(j))
  OBVIOUS
<1>5. ASSUME NEW j \in J
      PROVE  /\ start + j \in Numbers /\ (start + j) % M = start + j /\ start + j # N
  <2>1. start + j \in Nat /\ start + j < N /\ start + j < M
    BY <1>2, SMT
  <2>2. start + j \in Numbers
    BY <1>2, <2>1, SMT DEF Numbers
  <2>3. M \in Nat \ {0}
    BY FieldConstants
  <2>4. (start + j) % M = start + j
    BY <2>1, <2>3, SmallRemainder
  <2>5. start + j # N
    BY <1>2, <2>1, SMT
  <2> QED BY <2>2, <2>4, <2>5
<1> DEFINE HasBit(j) == KeyBit(start + j, bit)
<1>6. ASSUME NEW j \in J
      PROVE  /\ Low(j) \in Nat
             /\ HasBit(j) => High(j) = Low(j) + t
             /\ ~HasBit(j) => High(j) = Low(j)
             /\ Low(j) % N = 0 => Multiple(Low(j)) = PointAtInfinity
             /\ Low(j) % N # 0 => Multiple(Low(j)) \in CurvePoints
             /\ IsPointAtInfinity(Multiple(Low(j))) <=> Low(j) % N = 0
  <2>1. start + j \in Numbers
    BY <1>5
  <2>2. /\ Low(j) \in Nat
        /\ HasBit(j) => High(j) = Low(j) + t
        /\ ~HasBit(j) => High(j) = Low(j)
    BY <2>1, NextBit
  <2> DEFINE r == Low(j)
  <2> HIDE DEF r
  <2>3. r \in Nat
    BY <2>2 DEF r
  <2>4. /\ r % N = 0 => Multiple(r) = PointAtInfinity
        /\ r % N # 0 => Multiple(r) \in CurvePoints
    BY <2>3, MultipleIs
  <2>5. IsPointAtInfinity(Multiple(r)) <=> r % N = 0
    <3>1. IsPointAtInfinity(PointAtInfinity)
      BY DEF IsPointAtInfinity, PointAtInfinity, Point
    <3> QED BY <2>4, <3>1, PointIs
  <2> QED BY <2>2, <2>4, <2>5 DEF r
<1>7. ASSUME NEW j \in J
      PROVE  /\ j \in set <=> HasBit(j)
             /\ j \in fresh <=> HasBit(j) /\ Low(j) % N = 0
  <2>1. j \in set <=> HasBit(j)
    BY <1>4, <1>5
  <2>2. IsPointAtInfinity(ps[j]) <=> Low(j) % N = 0
    BY <1>4, <1>6
  <2> HIDE DEF set, Low, HasBit
  <2> QED BY <2>1, <2>2
<1> DEFINE factors == [j \in DOMAIN ps |-> IF j \in set \ fresh THEN Difference(q, ps[j], TRUE) ELSE 1]
           inverses == BatchInverses(factors, InitThreads, Cardinality(DOMAIN ps) - 1)
<1>8. added = [j \in DOMAIN ps |-> IF j \in set \ fresh THEN SumWith(q, ps[j], inverses[j], TRUE) ELSE ps[j]]
  BY DEF AddToPoints
<1> HIDE DEF set, fresh, added, q
<1>9. ASSUME NEW j \in J, j \in set \ fresh
      PROVE  /\ ps[j] \in CurvePoints /\ ps[j] = Multiple(Low(j)) /\ Low(j) % N # 0 /\ HasBit(j)
             /\ q.x # ps[j].x /\ IsAffine(ps[j])
  <2>1. HasBit(j) /\ Low(j) % N # 0
    BY <1>7, <1>9
  <2>2. ps[j] \in CurvePoints /\ ps[j] = Multiple(Low(j))
    BY <1>4, <1>6, <2>1
  <2>3. q.x # ps[j].x
    <3> DEFINE key == start + j
    <3>1. key \in Numbers /\ key # N /\ KeyBit(key, bit) /\ (key % TwoTo[bit]) % N # 0
      BY <1>5, <2>1
    <3>2. ps[j] = Multiple(key % TwoTo[bit])
      BY <2>2
    <3> HIDE DEF key
    <3> QED BY <1>3, <3>1, <3>2, SameXOfBit
  <2> QED BY <2>1, <2>2, <2>3, PointIs
<1>10. Cardinality(DOMAIN ps) - 1 = n - 1
  BY <1>4, SizeOfIndices
<1>11. ASSUME NEW j \in J
       PROVE  factors[j] \in 0 .. P - 1 /\ factors[j] # 0
  <2>1. 1 \in 0 .. P - 1 /\ 1 # 0
    BY FieldConstants, SMT
  <2>2. CASE j \in set \ fresh
    <3>1. factors[j] = Difference(q, ps[j], TRUE)
      BY <1>4, <2>2
    <3>2. IsAffine(ps[j])
      BY <1>9, <2>2
    <3> QED BY <1>3, <3>1, <3>2, DifferenceIs
  <2>3. CASE j \notin set \ fresh
    BY <1>4, <2>1, <2>3
  <2> QED BY <2>2, <2>3
<1>12. ASSUME NEW j \in J
       PROVE  inverses[j] = InvModP(factors[j])
  <2>1. factors \in [0 .. n - 1 -> 0 .. P - 1]
    BY <1>4, <1>11
  <2>2. n - 1 \in Int /\ InitThreads \in Nat \ {0}
    BY DeviceAssumption, SMT
  <2>3. \A m \in 0 .. n - 1 : factors[m] # 0
    BY <1>11
  <2> HIDE DEF factors
  <2>4. BatchInverses(factors, InitThreads, n - 1)[j] = InvModP(factors[j])
    BY <2>1, <2>2, <2>3, BatchIs
  <2> QED BY <1>10, <2>4
<1> HIDE DEF inverses
<1>13. ASSUME NEW j \in J
       PROVE  (IF j \in fresh THEN q ELSE added[j]) = Multiple(High(j))
  <2>1. CASE ~HasBit(j)
    <3>1. j \notin fresh /\ j \notin set
      BY <1>7, <2>1
    <3>2. added[j] = ps[j]
      BY <1>4, <1>8, <3>1
    <3> QED BY <1>4, <1>6, <2>1, <3>1, <3>2
  <2>2. CASE HasBit(j) /\ Low(j) % N = 0
    <3>1. j \in fresh
      BY <1>7, <2>2
    <3>2. Multiple(Low(j)) = PointAtInfinity /\ High(j) = Low(j) + t /\ Low(j) \in Nat
      BY <1>6, <2>2
    <3>3. AddPoints(Multiple(Low(j)), Multiple(t)) = Multiple(Low(j) + t)
      <4> HIDE DEF Low, t
      <4> QED BY <1>3, <3>2, MultipleAdd
    <3>4. AddPoints(PointAtInfinity, q) = q
      BY <1>3, AddInfinity
    <3> QED BY <1>3, <3>1, <3>2, <3>3, <3>4
  <2>3. CASE HasBit(j) /\ Low(j) % N # 0
    <3>1. j \in set \ fresh /\ j \notin fresh
      BY <1>7, <2>3
    <3>2. added[j] = SumWith(q, ps[j], inverses[j], TRUE)
      BY <1>4, <1>8, <3>1
    <3>3. inverses[j] = InvModP(Difference(q, ps[j], TRUE))
      BY <1>4, <1>12, <3>1
    <3>4. ps[j] \in CurvePoints /\ q.x # ps[j].x /\ ps[j] = Multiple(Low(j))
      BY <1>9, <3>1
    <3>5. added[j] = AddPoints(q, ps[j])
      BY <1>3, <3>2, <3>3, <3>4, SumIs
    <3>6. High(j) = Low(j) + t /\ Low(j) \in Nat
      BY <1>6, <2>3
    <3>7. AddPoints(Multiple(t), Multiple(Low(j))) = Multiple(Low(j) + t)
      <4> DEFINE r == Low(j)
      <4>1. r \in Nat /\ r % N # 0
        BY <2>3, <3>6
      <4> HIDE DEF r
      <4>2. t + r = r + t
        BY <1>3, <4>1, SMT
      <4> HIDE DEF t
      <4>3. AddPoints(Multiple(t), Multiple(r)) = Multiple(t + r)
        BY <1>3, <4>1, MultipleAdd DEF t
      <4> QED BY <4>2, <4>3 DEF r
    <3> QED BY <1>3, <3>1, <3>4, <3>5, <3>6, <3>7
  <2> QED BY <2>1, <2>2, <2>3
<1> HIDE DEF High
<1>14. InitPublicKeys(ps, start, bit) = [j \in J |-> Multiple(High(j))]
  BY <1>1, <1>4, <1>13
<1> QED BY <1>14 DEF High

-----------------------------------------------------------------------------
(* The points of a device *)

\* The keys after one call of a kernel that increments.
MovedKeys(n, dim, double) ==
  IF double THEN K(n)!IncrementKeysWithDouble(keyOf, dim)
  ELSE WithoutStrays(K(n)!IncrementKeys(keyOf, dim), HostPoint(n), dim)

\* Points of n keys, garbage apart.
PointsOfKeys(n) ==
  /\ DOMAIN points = 0 .. n - 1 /\ keyOf \in [0 .. n - 1 -> Nat]
  /\ \A j \in 0 .. n - 1 : IsAffine(points[j]) /\ (keyOf[j] # 0 => points[j] = Multiple(keyOf[j]))

\* No point of the batch of j is the incrementor, or garbage with its x.
NoZeroDifference(j, n, dim) ==
  \A m \in 0 .. n - 1 : m % dim = j % dim =>
    keyOf[m] # n /\ (keyOf[m] = 0 => points[m].x # HostPoint(n).x)

\* Multiples with the same x are the same, below the order.
LEMMA OtherX ==
  ASSUME NEW a \in Nat, NEW b \in Nat, a # 0, b # 0, a + b < N, a # b
  PROVE  Multiple(a).x # Multiple(b).x
<1>1. N \in Nat \ {0} /\ a < N /\ b < N /\ a + b \in Nat /\ a + b # 0
  BY FieldConstants, SMT
<1>2. a % N = a /\ b % N = b
  BY <1>1, SmallRemainder
<1>3. (a + b) % N = a + b
  BY <1>1, SmallRemainder
<1> QED BY <1>1, <1>2, <1>3, MultipleSameX

LEMMA MovedKeysAre ==
  ASSUME NEW n \in Nat, NEW dim \in Nat \ {0}, NEW double \in BOOLEAN, PointsOfKeys(n)
  PROVE  /\ MovedKeys(n, dim, double) = [j \in 0 .. n - 1 |-> MovedKeys(n, dim, double)[j]]
         /\ \A j \in 0 .. n - 1 :
              \/ j < dim /\ MovedKeys(n, dim, double)[j] = keyOf[j]
              \/ ~(j < dim) /\ MovedKeys(n, dim, double)[j] = 0
              \/ /\ ~(j < dim) /\ MovedKeys(n, dim, double)[j] = keyOf[j] + n
                 /\ keyOf[j] # 0 /\ (~double => NoZeroDifference(j, n, dim))
<1>1. Indices = 0 .. n - 1
  BY DEF PointsOfKeys, Indices
<1>2. ASSUME NEW m \in 0 .. n - 1, NEW j \in 0 .. n - 1
      PROVE  j < dim <=> ~(j >= dim)
  BY SMT
<1>3. CASE double
  <2>1. MovedKeys(n, dim, double) =
          [j \in 0 .. n - 1 |-> IF j < dim \/ keyOf[j] = 0 THEN keyOf[j] ELSE keyOf[j] + n]
    BY <1>3 DEF MovedKeys, K!IncrementKeysWithDouble, K!Indices, K!Garbage
  <2> HIDE DEF MovedKeys
  <2> QED BY <1>3, <2>1
<1>4. CASE ~double
  <2> DEFINE q == HostPoint(n)
             keys == K(n)!IncrementKeys(keyOf, dim)
  <2>1. keys = [j \in 0 .. n - 1 |->
                  IF j < dim THEN keyOf[j]
                  ELSE IF keyOf[j] = 0 \/ \E m \in 0 .. n - 1 : m % dim = j % dim /\ keyOf[m] = n
                  THEN 0 ELSE keyOf[j] + n]
    BY DEF K!IncrementKeys, K!ZeroDifference, K!Indices, K!Garbage
  <2>2. MovedKeys(n, dim, double) =
          [j \in 0 .. n - 1 |->
             IF j >= dim /\ \E m \in 0 .. n - 1 : m % dim = j % dim /\ keyOf[m] = 0 /\ points[m].x = q.x
             THEN 0 ELSE keys[j]]
    BY <1>1, <1>4 DEF MovedKeys, WithoutStrays
  <2> HIDE DEF MovedKeys, q, keys
  <2> QED BY <1>2, <2>1, <2>2 DEF NoZeroDifference, q
<1> QED BY <1>3, <1>4

\* One call of increment_keys or increment_keys_with_double.
LEMMA IncrementIs ==
  ASSUME NEW n \in Nat \ {0}, NEW dim \in Nat \ {0}, NEW double \in BOOLEAN, n < N,
         PointsOfKeys(n), \A j \in 0 .. n - 1 : keyOf[j] + n < N
  PROVE  /\ DOMAIN Increment(points, HostPoint(n), dim, double) = 0 .. n - 1
         /\ DOMAIN MovedKeys(n, dim, double) = 0 .. n - 1
         /\ \A j \in 0 .. n - 1 :
              /\ MovedKeys(n, dim, double)[j] \in {0, keyOf[j], keyOf[j] + n}
              /\ IsAffine(Increment(points, HostPoint(n), dim, double)[j])
              /\ MovedKeys(n, dim, double)[j] # 0 =>
                   Increment(points, HostPoint(n), dim, double)[j] = Multiple(MovedKeys(n, dim, double)[j])
<1> DEFINE J == 0 .. n - 1
           q == HostPoint(n)
           new == Increment(points, q, dim, double)
           keys == MovedKeys(n, dim, double)
           written == {j \in DOMAIN points : j >= dim}
           factors == [j \in DOMAIN points |->
                         IF j \in DOMAIN points THEN Difference(q, points[j], double) ELSE 1]
           inverses == BatchInverses(factors, dim, Cardinality(DOMAIN points) - 1)
<1>1. /\ DOMAIN points = J /\ keyOf \in [J -> Nat]
      /\ \A j \in J : IsAffine(points[j]) /\ (keyOf[j] # 0 => points[j] = Multiple(keyOf[j]))
  BY DEF PointsOfKeys
<1>2. /\ N \in Nat \ {0} /\ n % N = n /\ n \in Numbers
  <2>1. N \in Nat \ {0} /\ N < M /\ M \in Nat
    BY FieldConstants, SMT
  <2>2. n % N = n
    BY <2>1, SmallRemainder
  <2>3. n \in Numbers
    BY <2>1, SMT DEF Numbers
  <2> QED BY <2>1, <2>2, <2>3
<1>3. q = Multiple(n) /\ q \in CurvePoints
  <2>1. q = Multiple(n)
    BY <1>2, HostPointIs
  <2> QED BY <1>2, <2>1, MultipleIs
<1>4. new = [j \in J |-> IF j \in written THEN SumWith(q, points[j], inverses[j], double) ELSE points[j]]
  BY <1>1 DEF Increment, AddToPoints
<1>5. Cardinality(DOMAIN points) - 1 = n - 1 /\ n - 1 \in Int
  BY <1>1, SizeOfIndices, SMT
<1> HIDE DEF q
<1>6. factors \in [0 .. n - 1 -> 0 .. P - 1] /\ \A j \in J : factors[j] = Difference(q, points[j], double)
  <2>1. \A j \in J : factors[j] = Difference(q, points[j], double)
    BY <1>1
  <2>2. \A j \in J : Difference(q, points[j], double) \in 0 .. P - 1
    BY <1>1, <1>3, DifferenceIs
  <2> QED BY <1>1, <2>1, <2>2
<1> HIDE DEF factors
<1>7. \A j \in J : inverses[j] \in 0 .. P - 1
  BY <1>5, <1>6, BatchIs
<1>8. ASSUME NEW j \in J, \A m \in J : m % dim = j % dim => factors[m] # 0
      PROVE  inverses[j] = InvModP(Difference(q, points[j], double))
  <2>1. BatchInverses(factors, dim, n - 1)[j] = InvModP(factors[j])
    BY <1>5, <1>6, <1>8, BatchIs
  <2> QED BY <1>5, <1>6, <2>1
<1> HIDE DEF inverses
<1>9. ASSUME NEW j \in J
      PROVE  IsAffine(new[j])
  <2>1. IsAffine(SumWith(q, points[j], inverses[j], double))
    BY <1>1, <1>3, <1>7, SumIsReduced
  <2> QED BY <1>1, <1>4, <2>1
<1>10. /\ DOMAIN keys = J
       /\ \A j \in J :
              \/ j < dim /\ keys[j] = keyOf[j]
              \/ ~(j < dim) /\ keys[j] = 0
              \/ ~(j < dim) /\ keys[j] = keyOf[j] + n /\ keyOf[j] # 0 /\ (~double => NoZeroDifference(j, n, dim))
  BY MovedKeysAre
<1> HIDE DEF keys, new
<1>11. ASSUME NEW j \in J, ~(j < dim), keys[j] = keyOf[j] + n, keyOf[j] # 0,
              ~double => NoZeroDifference(j, n, dim)
       PROVE  new[j] = Multiple(keys[j])
  <2> DEFINE a == keyOf[j]
  <2>1. a \in Nat /\ a # 0 /\ a + n < N /\ points[j] = Multiple(a) /\ n + a = keys[j] /\ a < N
    BY <1>1, <1>2, <1>11, SMT
  <2>2. a % N = a
    BY <1>2, <2>1, SmallRemainder
  <2>3. points[j] \in CurvePoints
    BY <2>1, <2>2, MultipleIs
  <2>4. j \in written
    <3>1. j >= dim
      BY <1>11, SMT
    <3> QED BY <1>1, <3>1
  <2>5. \A m \in J : m % dim = j % dim => factors[m] # 0
    <3>1. CASE double
      BY <1>1, <1>3, <1>6, <3>1, DifferenceIs
    <3>2. CASE ~double
      <4> SUFFICES ASSUME NEW m \in J, m % dim = j % dim
                   PROVE  factors[m] # 0
        OBVIOUS
      <4>1. keyOf[m] # n /\ (keyOf[m] = 0 => points[m].x # q.x)
        BY <1>11, <3>2 DEF NoZeroDifference, q
      <4>2. q.x # points[m].x
        <5>1. CASE keyOf[m] = 0
          BY <4>1, <5>1
        <5>2. CASE keyOf[m] # 0
          <6>1. keyOf[m] \in Nat /\ keyOf[m] + n < N /\ points[m] = Multiple(keyOf[m])
            BY <1>1, <5>2
          <6>2. Multiple(keyOf[m]).x # Multiple(n).x
            BY <4>1, <5>2, <6>1, OtherX
          <6> QED BY <1>3, <6>1, <6>2
        <5> QED BY <5>1, <5>2
      <4>3. Difference(q, points[m], FALSE) # 0
        BY <1>1, <1>3, <4>2, DifferenceIs
      <4>4. factors[m] = Difference(q, points[m], FALSE)
        BY <1>6, <3>2
      <4> QED BY <4>3, <4>4
    <3> QED BY <3>1, <3>2
  <2>6. q.x # points[j].x \/ (double /\ points[j] = q)
    <3>1. CASE a # n
      <4>1. Multiple(a).x # Multiple(n).x
        BY <2>1, <3>1, OtherX
      <4> QED BY <1>3, <2>1, <4>1
    <3>2. CASE a = n
      <4>1. points[j] = q
        BY <1>3, <2>1, <3>2
      <4>2. double
        BY <1>11, <3>2 DEF NoZeroDifference
      <4> QED BY <4>1, <4>2
    <3> QED BY <3>1, <3>2
  <2>7. new[j] = SumWith(q, points[j], InvModP(Difference(q, points[j], double)), double)
    BY <1>4, <1>8, <2>4, <2>5 DEF new
  <2>8. new[j] = AddPoints(q, points[j])
    BY <1>3, <2>3, <2>6, <2>7, SumIs
  <2>9. AddPoints(Multiple(n), Multiple(a)) = Multiple(n + a)
    BY <2>1, <2>2, MultipleAdd
  <2> QED BY <1>3, <2>1, <2>8, <2>9
<1>12. ASSUME NEW j \in J, j < dim
       PROVE  new[j] = points[j]
  <2>1. j \notin written
    BY <1>12, SMT
  <2> QED BY <1>4, <2>1 DEF new
<1>13. ASSUME NEW j \in J
       PROVE  keys[j] \in {0, keyOf[j], keyOf[j] + n} /\ (keys[j] # 0 => new[j] = Multiple(keys[j]))
  BY <1>1, <1>10, <1>11, <1>12
<1> QED BY <1>4, <1>9, <1>10, <1>13 DEF keys, new, q

\* The calls of a kernel that is tuned, and how often tuning has moved points.
AllCalls == RunsPerConfig * NumConfigs
CallsOf(c) == RunsPerConfig * (c.idx - 1) + c.iteration
Moves == IF tuner.kernel = "increment" THEN CallsOf(tuner)
         ELSE IF tuner.kernel = "double" THEN AllCalls + CallsOf(tuner)
         ELSE 2 * AllCalls

\* A device with n points has room to tune below the order; while its points
\* are set they are at the low bits of their keys, while it is tuned at most
\* at the keys that its calls have moved them to.
PointsAreOn(n) ==
  /\ DOMAIN points = 0 .. n - 1 /\ work.first \in Nat \ {0}
  /\ work.first + n * (1 + 2 * AllCalls) < N
  /\ setup = "points" =>
       /\ initBit \in 0 .. Bits
       /\ keyOf = [j \in 0 .. n - 1 |-> (work.first + j) % TwoTo[initBit]]
       /\ points = [j \in 0 .. n - 1 |-> Multiple((work.first + j) % TwoTo[initBit])]
  /\ setup = "tune" =>
       /\ PointsOfKeys(n)
       /\ \A j \in 0 .. n - 1 : keyOf[j] <= work.first + j + n * Moves
       /\ tuner.iteration < RunsPerConfig
       /\ tuner.idx > NumConfigs => tuner.iteration = 0
  /\ setup = "ready" =>
       /\ keyOf = [j \in 0 .. n - 1 |-> work.first + j]
       /\ points = [j \in 0 .. n - 1 |-> Multiple(work.first + j)]

PointInv ==
  /\ setup \in {"idle", "throw"} => points = <<>> /\ keyOf = <<>> /\ initBit = 0
  /\ setup \in {"points", "tune", "ready"} => \E n \in Nat \ {0} : PointsAreOn(n)

LEMMA CallsAreSome ==
  /\ AllCalls \in Nat \ {0} /\ RunsPerConfig \in Nat \ {0} /\ NumConfigs \in Nat \ {0}
  /\ \A idx \in 1 .. NumConfigs, it \in 0 .. RunsPerConfig - 1 :
       /\ RunsPerConfig * (idx - 1) + it \in Nat
       /\ RunsPerConfig * (idx - 1) + it + 1 <= AllCalls
       /\ it + 1 = RunsPerConfig =>
            RunsPerConfig * ((idx + 1) - 1) + 0 = RunsPerConfig * (idx - 1) + it + 1
  /\ RunsPerConfig * ((NumConfigs + 1) - 1) + 0 = AllCalls
  /\ RunsPerConfig * (1 - 1) + 0 = 0
<1>1. RunsPerConfig \in Nat \ {0} /\ NumConfigs \in Nat \ {0}
  BY DeviceAssumption, ConfigsAreSome
<1> DEFINE r == RunsPerConfig
           c == NumConfigs
<1>2. r \in Nat \ {0} /\ c \in Nat \ {0}
  BY <1>1
<1> HIDE DEF r, c
<1>3. r * c \in Nat \ {0}
  BY <1>2, SMT
<1>4. ASSUME NEW idx \in 1 .. c, NEW it \in 0 .. r - 1
      PROVE  /\ r * (idx - 1) + it \in Nat
             /\ r * (idx - 1) + it + 1 <= r * c
             /\ it + 1 = r => r * ((idx + 1) - 1) + 0 = r * (idx - 1) + it + 1
  <2> DEFINE e == idx - 1
             f == c - idx
  <2>1. e \in Nat /\ f \in Nat /\ c = e + f + 1 /\ (idx + 1) - 1 = e + 1
    BY <1>2, SMT
  <2> HIDE DEF e, f
  <2>2. r * e \in Nat /\ r * f \in Nat
    BY <1>2, <2>1, SMT
  <2>3. r * (e + f + 1) = r * e + r * f + r /\ r * (e + 1) = r * e + r
    BY <1>2, <2>1, SMT
  <2> DEFINE re == r * e
             rf == r * f
  <2>4. r * c = re + rf + r /\ r * ((idx + 1) - 1) = re + r /\ r * (idx - 1) = re
    BY <2>1, <2>3 DEF e
  <2>5. re \in Nat /\ rf \in Nat
    BY <2>2
  <2> HIDE DEF re, rf
  <2>6. re + it \in Nat /\ re + it + 1 <= re + rf + r /\ (it + 1 = r => (re + r) + 0 = re + it + 1)
    BY <1>2, <2>5, SMT
  <2> QED BY <2>4, <2>6
<1>5. r * ((c + 1) - 1) + 0 = r * c /\ r * (1 - 1) + 0 = 0
  BY <1>2, SMT
<1> QED BY <1>1, <1>3, <1>4, <1>5 DEF AllCalls, r, c

\* The grids are sizes of the lists.
LEMMA ThreadsAreSome ==
  \A idx \in 1 .. NumConfigs : Threads(TunerConfig(idx)) \in Nat \ {0}
<1> SUFFICES ASSUME NEW idx \in 1 .. NumConfigs
             PROVE  Threads(TunerConfig(idx)) \in Nat \ {0}
  OBVIOUS
<1> DEFINE grids == Len(GridSizes)
           blocks == Len(BlockSizes)
           g == (idx - 1) \div blocks
           b == (idx - 1) % blocks
<1>1. \A s \in Seq(Nat \ {0}) : s # <<>> => Len(s) \in Nat \ {0}
  BY SMT
<1>2. grids \in Nat \ {0} /\ blocks \in Nat \ {0}
  BY <1>1, DeviceAssumption, Zenon
<1>3. NumConfigs = grids * blocks
  BY DEF NumConfigs
<1> HIDE DEF grids, blocks
<1>4. grids * blocks \in Nat
  BY <1>2, SMT
<1> DEFINE all == grids * blocks
<1>5. all \in Nat /\ idx \in 1 .. all
  BY <1>3, <1>4
<1> HIDE DEF all
<1>6. idx - 1 \in Nat /\ idx - 1 < all
  BY <1>5, SMT
<1> DEFINE e == idx - 1
<1>7. e \in Nat /\ e < all
  BY <1>6
<1> HIDE DEF e
<1>8. e \div blocks \in Nat /\ e % blocks \in 0 .. blocks - 1 /\ e = blocks * (e \div blocks) + (e % blocks)
  BY <1>2, <1>7, SMT
<1>9. e \div blocks < grids
  <2> DEFINE q == e \div blocks
  <2>1. q \in Nat /\ blocks * q <= e
    <3> DEFINE bq == blocks * q
               rest == e % blocks
    <3>1. e = bq + rest /\ rest \in Nat /\ q \in Nat
      BY <1>2, <1>8, SMT
    <3>2. bq \in Nat
      BY <1>2, <3>1, SMT
    <3> HIDE DEF bq, rest
    <3> QED BY <3>1, <3>2, SMT DEF bq
  <2> HIDE DEF q
  <2>2. ASSUME q >= grids
        PROVE  FALSE
    <3>1. blocks * q >= blocks * grids
      BY <1>2, <2>1, <2>2, SMT
    <3>2. blocks * grids = all
      BY <1>2, SMT DEF all
    <3> QED BY <1>2, <1>7, <2>1, <3>1, <3>2, SMT
  <2> QED BY <1>2, <2>1, <2>2, SMT DEF q
<1>10. g + 1 \in 1 .. grids /\ b + 1 \in 1 .. blocks
  BY <1>2, <1>8, <1>9, SMT DEF e
<1>11. GridSizes \in Seq(Nat \ {0}) /\ BlockSizes \in Seq(Nat \ {0})
  BY DeviceAssumption
<1>12. \A s \in Seq(Nat \ {0}), j \in Nat : j \in 1 .. Len(s) => s[j] \in Nat \ {0}
  BY SMT
<1> HIDE DEF g, b
<1>13. g + 1 \in Nat /\ b + 1 \in Nat
  BY <1>2, <1>10, SMT
<1>14. GridSizes[g + 1] \in Nat \ {0} /\ BlockSizes[b + 1] \in Nat \ {0}
  BY <1>10, <1>11, <1>12, <1>13, Zenon DEF grids, blocks
<1>15. Threads(TunerConfig(idx)) = GridSizes[g + 1] * BlockSizes[b + 1]
  BY DEF Threads, TunerConfig, Sized, g, b, blocks
<1> DEFINE x == GridSizes[g + 1]
           y == BlockSizes[b + 1]
<1>16. x \in Nat \ {0} /\ y \in Nat \ {0}
  BY <1>14
<1> HIDE DEF x, y
<1>17. x * y \in Nat \ {0}
  BY <1>16, SMT
<1> QED BY <1>15, <1>17 DEF x, y

\* What a call of the tuner counts.
LEMMA RunCounts ==
  ASSUME GridInv, Tune
  PROVE  /\ tuner'.kernel = tuner.kernel
         /\ tuner.iteration + 1 = RunsPerConfig => tuner'.idx = tuner.idx + 1 /\ tuner'.iteration = 0
         /\ tuner.iteration + 1 # RunsPerConfig => tuner'.idx = tuner.idx /\ tuner'.iteration = tuner.iteration + 1
<1>1. PICK t \in Times : Run(t)
  BY DEF Tune
<1> DEFINE faster == tuner.time = NoTime \/ t < tuner.time
           best   == IF faster THEN tuner.idx ELSE tuner.best
           last   == tuner.iteration + 1 = RunsPerConfig
           w == [kernel |-> tuner.kernel, idx |-> tuner.idx, iteration |-> tuner.iteration,
                 best |-> tuner.best, time |-> tuner.time]
<1>2. tuner' = [tuner EXCEPT !.best = best, !.time = IF faster THEN t ELSE @,
                             !.iteration = IF last THEN 0 ELSE @ + 1,
                             !.idx = IF last THEN @ + 1 ELSE @]
  BY <1>1 DEF Run
<1>3. tuner = w
  BY SMT DEF GridInv, GridTypes
<1>4. tuner' = [w EXCEPT !.best = best, !.time = IF faster THEN t ELSE @,
                         !.iteration = IF last THEN 0 ELSE @ + 1,
                         !.idx = IF last THEN @ + 1 ELSE @]
  BY <1>2, <1>3, Zenon
<1> HIDE DEF faster, best, last
<1>5. tuner' = [kernel |-> tuner.kernel, idx |-> IF last THEN tuner.idx + 1 ELSE tuner.idx,
                iteration |-> IF last THEN 0 ELSE tuner.iteration + 1,
                best |-> best, time |-> IF faster THEN t ELSE tuner.time]
  BY <1>4
<1>6. /\ tuner'.kernel = tuner.kernel
      /\ tuner'.idx = (IF last THEN tuner.idx + 1 ELSE tuner.idx)
      /\ tuner'.iteration = (IF last THEN 0 ELSE tuner.iteration + 1)
  BY <1>5
<1> QED BY <1>6 DEF last

\* Keys below the order modulo the powers of two.
LEMMA KeysOfBits ==
  ASSUME NEW key \in Nat, key < N
  PROVE  key % TwoTo[0] = 0 /\ key % TwoTo[Bits] = key
<1>1. TwoTo[0] = 1 /\ TwoTo[Bits] = M
  BY PowersOfTwo, WidthAssumption DEF BaseTo, Bits
<1>2. key < M /\ M \in Nat \ {0} /\ key % 1 = 0
  BY FieldConstants, SMT
<1> QED BY <1>1, <1>2, SmallRemainder

LEMMA NothingMultiple == Multiple(0) = PointAtInfinity
  BY GroupAssumption

\* The room to tune leaves the keys of the first step below the order.
LEMMA RoomForKeys ==
  ASSUME NEW n \in Nat \ {0}, NEW first \in Nat, first + n * (1 + 2 * AllCalls) < N
  PROVE  /\ first + n <= N /\ n < N
         /\ \A j \in 0 .. n - 1 : first + j \in Nat /\ first + j < N
         /\ \A c \in Nat, j \in 0 .. n - 1, key \in Nat :
              c + 1 <= 2 * AllCalls /\ key <= first + j + n * c => key + n < N
<1> DEFINE all == 2 * AllCalls
<1>1. all \in Nat /\ N \in Nat
  BY CallsAreSome, FieldConstants, SMT
<1>2. first + n * (1 + all) < N
  OBVIOUS
<1> HIDE DEF all
<1> DEFINE na == n * all
<1>3. na \in Nat /\ n * (1 + all) = n + na
  BY <1>1, SMT
<1> HIDE DEF na
<1>4. first + n + na < N
  BY <1>1, <1>2, <1>3, SMT
<1>5. ASSUME NEW c \in Nat, NEW j \in 0 .. n - 1, NEW key \in Nat, c + 1 <= all, key <= first + j + n * c
      PROVE  key + n < N
  <2> DEFINE nc == n * c
             f == all - (c + 1)
             nf == n * f
  <2>1. f \in Nat /\ all = c + 1 + f
    BY <1>1, <1>5, SMT
  <2> HIDE DEF f
  <2>2. nc \in Nat /\ nf \in Nat /\ n * (c + 1 + f) = nc + n + nf
    BY <2>1, SMT
  <2>3. na = nc + n + nf
    BY <2>1, <2>2 DEF na
  <2>4. key <= first + j + nc
    BY <1>5
  <2> HIDE DEF nc, nf
  <2> QED BY <1>1, <1>4, <2>2, <2>3, <2>4, SMT
<1>6. first + n <= N /\ n < N /\ \A j \in 0 .. n - 1 : first + j \in Nat /\ first + j < N
  BY <1>1, <1>3, <1>4, SMT
<1> QED BY <1>5, <1>6 DEF all

LEMMA InitPointsSet == DeviceInit => PointInv
  BY DEF DeviceInit, PointInv

LEMMA DestroyedPoints ==
  ASSUME NEW pc \in {"idle", "throw"}, Destroyed(pc)
  PROVE  PointInv'
  BY DEF Destroyed, PointInv

\* The key of each point starts without bits.
LEMMA BeginPoints ==
  ASSUME PointInv, Begin
  PROVE  PointInv'
<1>1. setup = "idle" /\ points = <<>> /\ keyOf = <<>> /\ initBit = 0 /\ UNCHANGED initBit
  BY DEF PointInv, Begin
<1>2. PICK item \in Items, usage \in MemUsages :
        \/ setup' = "throw" /\ UNCHANGED <<work, points, keyOf>>
        \/ /\ ~Refused(item, usage)
           /\ setup' = "points"
           /\ \E compressed \in Compressions(item.target) :
                work' = [first |-> item.first, last |-> item.last, key |-> item.key,
                         compressed |-> compressed]
           /\ LET indices == 0 .. NumPointsOf(MemUsage(usage)) - 1
              IN  points' = [j \in indices |-> PointAtInfinity] /\ keyOf' = [j \in indices |-> 0]
  BY DEF Begin
<1>3. CASE setup' = "throw" /\ UNCHANGED <<work, points, keyOf>>
  BY <1>1, <1>3 DEF PointInv
<1>4. CASE setup' # "throw"
  <2> DEFINE n == NumPointsOf(MemUsage(usage))
             first == item.first
  <2>1. /\ ~Refused(item, usage) /\ setup' = "points" /\ work'.first = first
        /\ points' = [j \in 0 .. n - 1 |-> PointAtInfinity] /\ keyOf' = [j \in 0 .. n - 1 |-> 0]
    BY <1>2, <1>4
  <2>2. n # 0 /\ ~(first < 1)
    BY <2>1 DEF Refused, InvalidItem
  <2>3. first \in Int /\ n \in Nat /\ first + n * (1 + 2 * AllCalls) < N
    BY ItemAssumption DEF AllCalls
  <2> HIDE DEF n, first
  <2>4. n \in Nat \ {0} /\ first \in Nat \ {0}
    BY <2>2, <2>3, SMT
  <2>5. \A j \in 0 .. n - 1 : first + j \in Nat /\ first + j < N
    BY <2>3, <2>4, RoomForKeys
  <2>6. \A j \in 0 .. n - 1 : (first + j) % TwoTo[0] = 0
    BY <2>5, KeysOfBits
  <2>7. /\ keyOf' = [j \in 0 .. n - 1 |-> (first + j) % TwoTo[0]]
        /\ points' = [j \in 0 .. n - 1 |-> Multiple((first + j) % TwoTo[0])]
    BY <2>1, <2>6, NothingMultiple
  <2>8. 0 \in 0 .. Bits
    BY WidthIs, SMT
  <2>9. PointsAreOn(n)'
    BY <1>1, <2>1, <2>3, <2>4, <2>7, <2>8 DEF PointsAreOn
  <2> QED BY <2>1, <2>4, <2>9 DEF PointInv
<1> QED BY <1>2, <1>3, <1>4

\* One more bit is the point of one more power of two.
LEMMA InitPointsPoints ==
  ASSUME PointInv, InitPoints
  PROVE  PointInv'
<1>1. /\ setup = "points" /\ initBit < Bits
      /\ points' = InitPublicKeys(points, work.first, initBit)
      /\ keyOf' = [j \in Indices |-> (work.first + j) % TwoTo[initBit + 1]]
      /\ initBit' = initBit + 1
      /\ UNCHANGED <<setup, work>>
  BY DEF InitPoints
<1>2. PICK n \in Nat \ {0} : PointsAreOn(n)
  BY <1>1 DEF PointInv
<1>3. /\ DOMAIN points = 0 .. n - 1 /\ work.first \in Nat \ {0}
      /\ work.first + n * (1 + 2 * AllCalls) < N
      /\ initBit \in 0 .. Bits
      /\ points = [j \in 0 .. n - 1 |-> Multiple((work.first + j) % TwoTo[initBit])]
  BY <1>1, <1>2 DEF PointsAreOn
<1>4. initBit \in 0 .. Bits - 1 /\ initBit + 1 \in 0 .. Bits
  BY <1>1, <1>3, WidthIs, SMT
<1>5. work.first + n <= N
  BY <1>3, RoomForKeys
<1>6. points' = [j \in 0 .. n - 1 |-> Multiple((work.first + j) % TwoTo[initBit + 1])]
  <2> DEFINE start == work.first
             bit == initBit
  <2>1. /\ start \in Nat /\ start + n <= N /\ bit \in 0 .. Bits - 1 /\ n \in Nat
        /\ points = [j \in 0 .. n - 1 |-> Multiple((start + j) % TwoTo[bit])]
    BY <1>3, <1>4, <1>5
  <2> DEFINE before == [j \in 0 .. n - 1 |-> Multiple((start + j) % TwoTo[bit])]
             after == [j \in 0 .. n - 1 |-> Multiple((start + j) % TwoTo[bit + 1])]
  <2> HIDE DEF start, bit
  <2>2. ASSUME NEW ps, ps = before
        PROVE  InitPublicKeys(ps, start, bit) = after
    BY <2>1, <2>2, InitPublicKeysIs
  <2> HIDE DEF before, after
  <2>3. InitPublicKeys(points, start, bit) = after
    BY <2>1, <2>2 DEF before
  <2>4. InitPublicKeys(points, start, bit) = [j \in 0 .. n - 1 |-> Multiple((start + j) % TwoTo[bit + 1])]
    BY <2>3 DEF after
  <2> QED BY <1>1, <2>4 DEF start, bit
<1>7. keyOf' = [j \in 0 .. n - 1 |-> (work.first + j) % TwoTo[initBit + 1]]
  BY <1>1, <1>3 DEF Indices
<1>8. PointsAreOn(n)'
  BY <1>1, <1>3, <1>4, <1>6, <1>7 DEF PointsAreOn
<1> QED BY <1>1, <1>2, <1>8 DEF PointInv

\* After the last bit the points are those of their keys.
LEMMA PointsAreSetPoints ==
  ASSUME GridInv, PointInv, PointsAreSet
  PROVE  PointInv'
<1>1. setup = "points" /\ initBit = Bits
  BY DEF PointsAreSet
<1>2. PICK n \in Nat \ {0} : PointsAreOn(n)
  BY <1>1 DEF PointInv
<1> DEFINE first == work.first
           J == 0 .. n - 1
<1>3. /\ DOMAIN points = J /\ first \in Nat \ {0}
      /\ first + n * (1 + 2 * AllCalls) < N
      /\ keyOf = [j \in J |-> (first + j) % TwoTo[Bits]]
      /\ points = [j \in J |-> Multiple((first + j) % TwoTo[Bits])]
  BY <1>1, <1>2 DEF PointsAreOn
<1>4. \A j \in J : first + j \in Nat /\ first + j < N
  BY <1>3, RoomForKeys
<1>5. \A j \in J : (first + j) % TwoTo[Bits] = first + j /\ (first + j) % TwoTo[0] = 0
  BY <1>4, KeysOfBits
<1>6. /\ keyOf = [j \in J |-> first + j]
      /\ points = [j \in J |-> Multiple(first + j)]
  BY <1>3, <1>5
<1>7. CASE Destroyed("throw")
  BY <1>7, DestroyedPoints
<1>8. CASE setup' = "ready" /\ UNCHANGED <<work, points, keyOf>>
  <2>1. work'.first = first /\ DOMAIN points' = J
    BY <1>3, <1>8
  <2>2. PointsAreOn(n)'
    BY <1>3, <1>6, <1>8, <2>1 DEF PointsAreOn
  <2> QED BY <1>8, <2>2 DEF PointInv
<1>9. CASE setup' = "tune" /\ ~ready /\ UNCHANGED <<work, points, keyOf, tuner>>
  <2>1. /\ tuner' = tuner /\ tuner = NewTuner("increment")
    BY <1>1, <1>9 DEF GridInv
  <2>2. tuner'.kernel = "increment" /\ tuner'.idx = 1 /\ tuner'.iteration = 0
    BY <2>1 DEF NewTuner
  <2>3. Moves' = 0
    BY <2>2, CallsAreSome DEF Moves, CallsOf
  <2>4. ASSUME NEW j \in J
        PROVE  /\ keyOf[j] \in Nat /\ keyOf[j] <= first + j + n * 0
               /\ points[j] = Multiple(keyOf[j]) /\ IsAffine(points[j])
    <3> DEFINE key == first + j
    <3>1. keyOf[j] = key /\ points[j] = Multiple(key) /\ key \in Nat /\ key < N
      BY <1>4, <1>6
    <3>2. key # 0
      BY <1>3, SMT
    <3> HIDE DEF key
    <3>3. key <= key + n * 0
      BY <3>1, SMT
    <3>4. key % N = key
      BY <3>1, FieldConstants, SmallRemainder
    <3>5. IsAffine(Multiple(key))
      BY <3>1, <3>2, <3>4, MultipleIs, PointIs
    <3> QED BY <3>1, <3>3, <3>5 DEF key
  <2>5. PointsOfKeys(n)'
    BY <1>3, <1>6, <1>9, <2>4 DEF PointsOfKeys
  <2>6. \A j \in J : keyOf'[j] <= work'.first + j + n * Moves'
    BY <1>9, <2>3, <2>4
  <2>7. tuner'.iteration < RunsPerConfig /\ (tuner'.idx > NumConfigs => tuner'.iteration = 0)
    BY <2>2, CallsAreSome, SMT
  <2>8. PointsAreOn(n)'
    BY <1>3, <1>9, <2>5, <2>6, <2>7 DEF PointsAreOn
  <2> QED BY <1>9, <2>8 DEF PointInv
<1>10. CASE ready' = TRUE /\ setup' = "points" /\ ResetPoints /\ UNCHANGED work
  <2>1. /\ work'.first = first /\ initBit' = 0
        /\ keyOf' = [j \in J |-> 0] /\ points' = [j \in J |-> PointAtInfinity]
    BY <1>3, <1>10 DEF ResetPoints, Indices
  <2>2. /\ keyOf' = [j \in J |-> (first + j) % TwoTo[0]]
        /\ points' = [j \in J |-> Multiple((first + j) % TwoTo[0])]
    BY <1>5, <2>1, NothingMultiple
  <2>3. 0 \in 0 .. Bits /\ DOMAIN points' = J
    BY <2>2, WidthIs, SMT
  <2>4. PointsAreOn(n)'
    BY <1>3, <1>10, <2>1, <2>2, <2>3 DEF PointsAreOn
  <2> QED BY <1>10, <2>4 DEF PointInv
<1> QED BY <1>1, <1>7, <1>8, <1>9, <1>10 DEF PointsAreSet

\* A call moves the points by n keys at most, or makes them garbage.
LEMMA TunePoints ==
  ASSUME GridInv, PointInv, Tune
  PROVE  PointInv'
<1>1. /\ setup = "tune" /\ setup' = "tune" /\ tuner.idx <= NumConfigs /\ UNCHANGED work
  BY DEF Tune
<1>2. PICK n \in Nat \ {0} : PointsAreOn(n)
  BY <1>1 DEF PointInv
<1> DEFINE first == work.first
           J == 0 .. n - 1
           dim == Threads(TunerConfig(tuner.idx))
           it == tuner.iteration
           idx == tuner.idx
<1>3. /\ DOMAIN points = J /\ first \in Nat \ {0}
      /\ first + n * (1 + 2 * AllCalls) < N
      /\ PointsOfKeys(n)
      /\ \A j \in J : keyOf[j] <= first + j + n * Moves
      /\ it < RunsPerConfig
  BY <1>1, <1>2 DEF PointsAreOn
<1>4. /\ tuner.kernel \in SearchKernels /\ idx \in 1 .. NumConfigs /\ it \in 0 .. RunsPerConfig - 1
      /\ dim \in Nat \ {0}
  <2>1. /\ tuner.kernel \in SearchKernels /\ tuner.idx \in 1 .. NumConfigs + 1 /\ tuner.iteration \in Nat
    BY <1>1, SMT DEF GridInv, GridTypes
  <2>2. idx \in 1 .. NumConfigs /\ it \in 0 .. RunsPerConfig - 1
    BY <1>1, <1>3, <2>1, CallsAreSome, SMT
  <2> QED BY <2>1, <2>2, ThreadsAreSome
<1>5. CallKernel(dim)
  BY DEF Tune, Run
<1> HIDE DEF dim
<1>6. /\ tuner'.kernel = tuner.kernel
      /\ it + 1 = RunsPerConfig => tuner'.idx = idx + 1 /\ tuner'.iteration = 0
      /\ it + 1 # RunsPerConfig => tuner'.idx = idx /\ tuner'.iteration = it + 1
  BY RunCounts
<1>7. /\ CallsOf(tuner) \in Nat /\ CallsOf(tuner) + 1 <= AllCalls
      /\ CallsOf(tuner') = CallsOf(tuner) + 1
      /\ tuner'.iteration < RunsPerConfig
      /\ tuner'.idx > NumConfigs => tuner'.iteration = 0
  <2> HIDE DEF it, idx
  <2>1. RunsPerConfig * (idx - 1) + it \in Nat /\ RunsPerConfig * (idx - 1) + it + 1 <= AllCalls
    BY <1>4, CallsAreSome
  <2>2. CallsOf(tuner) = RunsPerConfig * (idx - 1) + it
    BY DEF CallsOf, idx, it
  <2>3. CASE it + 1 = RunsPerConfig
    <3>1. RunsPerConfig * ((idx + 1) - 1) + 0 = RunsPerConfig * (idx - 1) + it + 1
      BY <1>4, <2>3, CallsAreSome
    <3>2. CallsOf(tuner') = RunsPerConfig * ((idx + 1) - 1) + 0
      BY <1>6, <2>3 DEF CallsOf
    <3>3. 0 < RunsPerConfig
      BY CallsAreSome, SMT
    <3> QED BY <1>6, <2>1, <2>2, <2>3, <3>1, <3>2, <3>3
  <2>4. CASE it + 1 # RunsPerConfig
    <3> DEFINE before == RunsPerConfig * (idx - 1)
    <3>1. CallsOf(tuner') = before + (it + 1)
      BY <1>6, <2>4 DEF CallsOf
    <3>2. before \in Int
      BY <1>4, CallsAreSome, SMT
    <3> HIDE DEF before
    <3>3. before + (it + 1) = before + it + 1
      BY <1>4, <3>2, SMT
    <3>4. it + 1 < RunsPerConfig /\ ~(idx > NumConfigs)
      BY <1>4, <2>4, CallsAreSome, SMT
    <3> QED BY <1>6, <2>1, <2>2, <2>4, <3>1, <3>3, <3>4 DEF before
  <2> QED BY <2>3, <2>4
<1>8. work'.first = first /\ HashKernel' = HashKernel
  BY <1>1 DEF HashKernel
<1>9. CASE tuner.kernel = HashKernel
  <2>1. UNCHANGED <<points, keyOf>>
    BY <1>5, <1>9 DEF CallKernel
  <2>2. HashKernel # "increment" /\ HashKernel # "double"
    BY DEF HashKernel
  <2>3. Moves' = Moves
    BY <1>6, <1>9, <2>2 DEF Moves
  <2>4. PointsAreOn(n)'
    BY <1>1, <1>3, <1>7, <1>8, <2>1, <2>3 DEF PointsAreOn, PointsOfKeys
  <2> QED BY <1>1, <2>4 DEF PointInv
<1>10. CASE tuner.kernel # HashKernel
  <2> DEFINE double == tuner.kernel = "double"
             new == Increment(points, HostPoint(n), dim, double)
             keys == MovedKeys(n, dim, double)
  <2>1. tuner.kernel \in {"increment", "double"}
    BY <1>4, <1>10 DEF SearchKernels
  <2>2. Cardinality(Indices) = n
    BY <1>3, SizeOfIndices DEF Indices
  <2>3. points' = new /\ keyOf' = keys
    BY <1>5, <1>10, <2>2 DEF CallKernel, MovedKeys
  <2>4. Moves \in Nat /\ Moves + 1 <= 2 * AllCalls /\ Moves' = Moves + 1
    <3>1. AllCalls \in Nat
      BY CallsAreSome
    <3>2. CASE tuner.kernel = "increment"
      <4>1. Moves = CallsOf(tuner) /\ Moves' = CallsOf(tuner')
        BY <1>6, <3>2 DEF Moves
      <4>2. CallsOf(tuner) + 1 <= 2 * AllCalls
        BY <1>7, <3>1, SMT
      <4> QED BY <1>7, <4>1, <4>2
    <3>3. CASE tuner.kernel = "double"
      <4>1. Moves = AllCalls + CallsOf(tuner) /\ Moves' = AllCalls + CallsOf(tuner')
        BY <1>6, <3>3 DEF Moves
      <4> DEFINE calls == CallsOf(tuner)
      <4>2. calls \in Nat /\ calls + 1 <= AllCalls /\ CallsOf(tuner') = calls + 1
        BY <1>7
      <4> HIDE DEF calls
      <4>3. /\ AllCalls + calls \in Nat /\ AllCalls + calls + 1 <= 2 * AllCalls
            /\ AllCalls + (calls + 1) = AllCalls + calls + 1
        BY <3>1, <4>2, SMT
      <4> QED BY <4>1, <4>2, <4>3 DEF calls
    <3> QED BY <2>1, <3>2, <3>3
  <2> DEFINE moved == Moves
  <2>5. moved \in Nat /\ moved + 1 <= 2 * AllCalls /\ \A j \in J : keyOf[j] \in Nat /\ keyOf[j] <= first + j + n * moved
    BY <1>3, <2>4 DEF PointsOfKeys
  <2> HIDE DEF moved, first
  <2>6. n < N /\ \A j \in J : keyOf[j] + n < N
    BY <1>3, <2>5, RoomForKeys DEF first
  <2> HIDE DEF double
  <2>7. double \in BOOLEAN
    BY DEF double
  <2>8. /\ DOMAIN new = J /\ DOMAIN keys = J
        /\ \A j \in J : /\ keys[j] \in {0, keyOf[j], keyOf[j] + n}
                        /\ IsAffine(new[j])
                        /\ keys[j] # 0 => new[j] = Multiple(keys[j])
    BY <1>3, <1>4, <2>6, <2>7, IncrementIs
  <2>9. keys = [j \in 0 .. n - 1 |-> keys[j]]
    <3>1. n \in Nat /\ dim \in Nat \ {0} /\ PointsOfKeys(n)
      BY <1>3, <1>4
    <3> QED BY <2>7, <3>1, MovedKeysAre
  <2> HIDE DEF keys, new
  <2>10. \A j \in J : keys[j] \in Nat /\ keys[j] <= first + j + n * (moved + 1)
    <3> SUFFICES ASSUME NEW j \in J
                 PROVE  keys[j] \in Nat /\ keys[j] <= first + j + n * (moved + 1)
      OBVIOUS
    <3> DEFINE nm == n * moved
               before == keyOf[j]
    <3>1. nm \in Nat /\ n * (moved + 1) = nm + n
      BY <2>5, SMT
    <3>2. before \in Nat /\ before <= first + j + nm /\ first \in Nat /\ keys[j] \in {0, before, before + n}
      BY <1>3, <2>5, <2>8 DEF first
    <3> HIDE DEF nm, before
    <3>3. keys[j] \in Nat /\ keys[j] <= first + j + (nm + n)
      BY <3>1, <3>2, SMT
    <3> QED BY <3>1, <3>3
  <2>11. PointsOfKeys(n)'
    <3>1. keys \in [0 .. n - 1 -> Nat]
      BY <2>9, <2>10
    <3> QED BY <2>3, <2>8, <3>1 DEF PointsOfKeys
  <2>12. \A j \in J : keyOf'[j] <= work'.first + j + n * Moves'
    BY <1>8, <2>3, <2>4, <2>10 DEF moved, first
  <2>13. PointsAreOn(n)'
    BY <1>1, <1>3, <1>7, <1>8, <2>3, <2>8, <2>11, <2>12 DEF PointsAreOn, first
  <2> QED BY <1>1, <2>13 DEF PointInv
<1> QED BY <1>9, <1>10

\* The points are where they were for the next kernel, or are set anew.
LEMMA KernelTunedPoints ==
  ASSUME GridInv, PointInv, KernelTuned
  PROVE  PointInv'
<1>1. setup = "tune" /\ tuner.idx > NumConfigs /\ UNCHANGED work
  BY DEF KernelTuned
<1>2. PICK n \in Nat \ {0} : PointsAreOn(n)
  BY <1>1 DEF PointInv
<1> DEFINE first == work.first
           J == 0 .. n - 1
<1>3. /\ DOMAIN points = J /\ first \in Nat \ {0} /\ work'.first = first
      /\ first + n * (1 + 2 * AllCalls) < N
      /\ PointsOfKeys(n)
      /\ \A j \in J : keyOf[j] <= first + j + n * Moves
      /\ tuner.iteration = 0
  BY <1>1, <1>2 DEF PointsAreOn
<1>4. CASE tuner.kernel = HashKernel
  <2>1. setup' = "points" /\ ResetPoints
    BY <1>4 DEF KernelTuned
  <2>2. initBit' = 0 /\ keyOf' = [j \in J |-> 0] /\ points' = [j \in J |-> PointAtInfinity]
    BY <1>3, <2>1 DEF ResetPoints, Indices
  <2>3. \A j \in J : (first + j) % TwoTo[0] = 0
    BY <1>3, RoomForKeys, KeysOfBits
  <2>4. /\ keyOf' = [j \in J |-> (first + j) % TwoTo[0]]
        /\ points' = [j \in J |-> Multiple((first + j) % TwoTo[0])]
    BY <2>2, <2>3, NothingMultiple
  <2>5. 0 \in 0 .. Bits /\ DOMAIN points' = J
    BY <2>2, WidthIs, SMT
  <2>6. PointsAreOn(n)'
    BY <1>3, <2>1, <2>2, <2>4, <2>5 DEF PointsAreOn
  <2> QED BY <2>1, <2>6 DEF PointInv
<1>5. CASE tuner.kernel # HashKernel
  <2>1. /\ tuner' = NewTuner(KernelAfter[tuner.kernel]) /\ setup' = "tune"
        /\ UNCHANGED <<points, keyOf>>
    BY <1>1, <1>5 DEF KernelTuned
  <2>2. tuner.kernel \in SearchKernels /\ tuner.idx = NumConfigs + 1
    BY <1>1, CallsAreSome, SMT DEF GridInv, GridTypes
  <2>3. tuner'.kernel = KernelAfter[tuner.kernel] /\ tuner'.idx = 1 /\ tuner'.iteration = 0
    BY <2>1 DEF NewTuner
  <2>4. CallsOf(tuner') = 0 /\ CallsOf(tuner) = AllCalls /\ AllCalls \in Nat
    BY <1>3, <2>2, <2>3, CallsAreSome DEF CallsOf
  <2>5. AllCalls + 0 = AllCalls /\ AllCalls + AllCalls = 2 * AllCalls
    BY <2>4, SMT
  <2>6. HashKernel # "increment" /\ HashKernel # "double"
    BY DEF HashKernel
  <2>7. Moves' = Moves
    <3>1. CASE tuner.kernel = "increment"
      <4>1. tuner'.kernel = "double"
        BY <2>3, <3>1 DEF KernelAfter
      <4> QED BY <2>4, <2>5, <3>1, <4>1 DEF Moves
    <3>2. CASE tuner.kernel = "double"
      <4>1. tuner'.kernel = HashKernel
        BY <2>3, <3>2 DEF KernelAfter
      <4> QED BY <2>4, <2>5, <2>6, <3>2, <4>1 DEF Moves
    <3> QED BY <1>5, <2>2, <3>1, <3>2 DEF SearchKernels
  <2>8. tuner'.iteration < RunsPerConfig
    BY <2>3, CallsAreSome, SMT
  <2>9. PointsAreOn(n)'
    BY <1>3, <2>1, <2>3, <2>7, <2>8 DEF PointsAreOn, PointsOfKeys
  <2> QED BY <2>1, <2>9 DEF PointInv
<1> QED BY <1>4, <1>5

LEMMA NextPoints == GridInv /\ PointInv /\ [SetUpDevice]_deviceVars => PointInv'
<1> SUFFICES ASSUME GridInv, PointInv, [SetUpDevice]_deviceVars
             PROVE  PointInv'
  OBVIOUS
<1>1. CASE Begin
  BY <1>1, BeginPoints
<1>2. CASE Leave \/ GpuFails
  BY <1>2, DestroyedPoints DEF Leave, GpuFails
<1>3. CASE InitPoints
  BY <1>3, InitPointsPoints
<1>4. CASE PointsAreSet
  BY <1>4, PointsAreSetPoints
<1>5. CASE Tune
  BY <1>5, TunePoints
<1>6. CASE KernelTuned
  BY <1>6, KernelTunedPoints
<1>7. CASE UNCHANGED deviceVars
  <2>1. UNCHANGED <<setup, work, points, keyOf, initBit, tuner>>
    BY <1>7 DEF deviceVars
  <2> QED BY <2>1 DEF PointInv, PointsAreOn, PointsOfKeys, Moves, CallsOf
<1> QED BY <1>1, <1>2, <1>3, <1>4, <1>5, <1>6, <1>7 DEF SetUpDevice

LEMMA PointInvariant == Spec => []PointInv
<1>1. Init => PointInv
  BY InitPointsSet DEF Init, CallInvModP, CallMultiplyPoint, CallBulk, CallOperator, CallDevice
<1>2. GridInv /\ PointInv /\ [Next]_vars => PointInv'
  <2> SUFFICES ASSUME GridInv, PointInv, [Next]_vars
               PROVE  [SetUpDevice]_deviceVars
    BY NextPoints
  <2> QED BY DEF Next, InvertModP, MultiplyPoint, GenerateKeyPairsBulk, SetUpDevices, vars
<1> QED BY <1>1, <1>2, GridInvariant, PTL DEF Spec

\* However many points a device has and however long it is tuned, the kernels
\* move its points as PointKernels says, its kernels get the best grids, and
\* when init returns every point is at its key of the item.
THEOREM DeviceIsSetUpThm == Spec => []DeviceIsSetUp
<1>1. GridInv /\ PointInv => PointsAreKeys
  <2> SUFFICES ASSUME GridInv, PointInv, NEW j \in Indices,
                      setup = "points" \/ keyOf[j] # K(1)!Garbage
               PROVE  points[j] = Multiple(keyOf[j])
    BY DEF PointsAreKeys
  <2>1. setup = "points" \/ keyOf[j] # 0
    BY DEF K!Garbage
  <2>2. CASE setup \in {"idle", "throw"}
    BY <2>2 DEF PointInv, Indices
  <2>3. CASE setup \in {"points", "tune", "ready"}
    <3>1. PICK n \in Nat \ {0} : PointsAreOn(n)
      BY <2>3 DEF PointInv
    <3>2. j \in 0 .. n - 1
      BY <3>1 DEF PointsAreOn, Indices
    <3> QED BY <2>1, <2>3, <3>1, <3>2 DEF PointsAreOn, PointsOfKeys
  <2> QED BY <2>2, <2>3 DEF GridInv
<1>2. PointInv => (setup = "ready" => \A j \in Indices : points[j] = Multiple(work.first + j))
  <2> SUFFICES ASSUME PointInv, setup = "ready", NEW j \in Indices
               PROVE  points[j] = Multiple(work.first + j)
    OBVIOUS
  <2>1. PICK n \in Nat \ {0} : PointsAreOn(n)
    BY DEF PointInv
  <2> QED BY <2>1 DEF PointsAreOn, Indices
<1>3. GridInv /\ PointInv /\ GridsAreBest => DeviceIsSetUp
  BY <1>1, <1>2 DEF DeviceIsSetUp
<1> QED BY <1>3, GridInvariant, PointInvariant, GridsAreBestThm, PTL

-----------------------------------------------------------------------------
(* Powers *)

\* The powers of x, unreduced: what powModP computes modulo P.
PowersOf(x) == CHOOSE f : f = [n \in Nat |-> IF n = 0 THEN 1 ELSE x * f[n - 1]]

LEMMA PowersAre ==
  ASSUME NEW x \in Int
  PROVE  /\ \A n \in Nat : PowersOf(x)[n] \in Int
         /\ PowersOf(x)[0] = 1
         /\ \A n \in Nat : PowersOf(x)[n + 1] = x * PowersOf(x)[n]
<1> DEFINE step == [n \in Nat |-> [y \in Int |-> x * y]]
           f == PowersOf(x)
<1>1. IsCount(Nat, Int, 1, step)
  <2>1. \A n \in Nat \ {0} : n - 1 \in Nat
    BY SMT
  <2>2. \A y \in Int : x * y \in Int
    BY SMT
  <2> QED BY <2>1, <2>2 DEF IsCount
<1>2. PICK g \in [Nat -> Int] : \A n \in Nat : g[n] = IF n = 0 THEN 1 ELSE step[n][g[n - 1]]
  <2> DEFINE D == Nat
             T == Int
  <2>1. IsCount(D, T, 1, step)
    BY <1>1
  <2> HIDE DEF step, D, T
  <2>2. \E g \in [D -> T] : \A n \in D : g[n] = IF n = 0 THEN 1 ELSE step[n][g[n - 1]]
    BY <2>1, Iteration
  <2> QED BY <2>2 DEF D, T
<1>3. \A n \in Nat \ {0} : n - 1 \in Nat /\ g[n - 1] \in Int
  BY <1>2, SMT
<1>4. g = [n \in Nat |-> IF n = 0 THEN 1 ELSE x * g[n - 1]]
  BY <1>2, <1>3
<1>5. f = [n \in Nat |-> IF n = 0 THEN 1 ELSE x * f[n - 1]]
  BY <1>4, Zenon DEF PowersOf
<1> HIDE DEF f
<1>6. IsCounted(f, Nat, Int)
  <2>1. \A n \in Nat \ {0} : n - 1 \in Nat
    BY SMT
  <2>2. f = [n \in Nat |-> f[n]] /\ f[0] = 1
    BY <1>5
  <2>3. \A n \in Nat \ {0} : f[n] = x * f[n - 1]
    BY <1>5
  <2>4. \A y \in Int : x * y \in Int
    BY SMT
  <2> QED BY <2>1, <2>2, <2>3, <2>4 DEF IsCounted
<1>7. f \in [Nat -> Int]
  BY <1>6, IterationType
<1>8. \A n \in Nat : n + 1 \in Nat /\ n + 1 # 0 /\ (n + 1) - 1 = n
  BY SMT
<1>9. f[0] = 1 /\ \A n \in Nat : f[n + 1] = x * f[n]
  BY <1>5, <1>8
<1> QED BY <1>7, <1>9 DEF f

LEMMA PowerOfSum ==
  ASSUME NEW x \in Int, NEW m \in Nat
  PROVE  \A n \in Nat : PowersOf(x)[m + n] = PowersOf(x)[m] * PowersOf(x)[n]
<1> DEFINE f == PowersOf(x)
           S == {n \in Nat : f[m + n] = f[m] * f[n]}
<1>1. /\ \A n \in Nat : f[n] \in Int
      /\ f[0] = 1 /\ \A n \in Nat : f[n + 1] = x * f[n]
  BY PowersAre
<1> HIDE DEF f
<1>2. 0 \in S
  <2>1. m + 0 = m /\ f[m] * 1 = f[m]
    BY <1>1, SMT
  <2> QED BY <1>1, <2>1
<1>3. ASSUME NEW n \in Nat, n \in S
      PROVE  n + 1 \in S
  <2>1. m + (n + 1) = (m + n) + 1 /\ m + n \in Nat /\ n + 1 \in Nat
    BY SMT
  <2>2. f[m + (n + 1)] = x * (f[m] * f[n]) /\ f[n + 1] = x * f[n]
    BY <1>1, <1>3, <2>1
  <2>3. x * (f[m] * f[n]) = f[m] * (x * f[n])
    BY <1>1, SMT
  <2> QED BY <2>1, <2>2, <2>3
<1>4. Nat \subseteq S
  <2> HIDE DEF S
  <2> QED BY <1>2, <1>3, SetInduction
<1> QED BY <1>4 DEF f

LEMMA PowerOfSquare ==
  ASSUME NEW x \in Int
  PROVE  \A n \in Nat : PowersOf(x * x)[n] = PowersOf(x)[2 * n]
<1> DEFINE xx == x * x
           f == PowersOf(x)
           g == PowersOf(xx)
           S == {n \in Nat : g[n] = f[2 * n]}
<1>0. xx \in Int
  BY SMT
<1>1. /\ \A n \in Nat : f[n] \in Int /\ g[n] \in Int
      /\ f[0] = 1 /\ \A n \in Nat : f[n + 1] = x * f[n]
      /\ g[0] = 1 /\ \A n \in Nat : g[n + 1] = xx * g[n]
  <2> HIDE DEF xx
  <2> QED BY <1>0, PowersAre
<1> HIDE DEF f, g
<1>2. 0 \in S
  <2>1. 2 * 0 = 0
    BY SMT
  <2> QED BY <1>1, <2>1
<1>3. ASSUME NEW n \in Nat, n \in S
      PROVE  n + 1 \in S
  <2>1. 2 * (n + 1) = (2 * n + 1) + 1 /\ 2 * n \in Nat /\ 2 * n + 1 \in Nat /\ n + 1 \in Nat
    BY SMT
  <2>2. f[2 * (n + 1)] = x * (x * f[2 * n]) /\ g[n + 1] = xx * f[2 * n]
    BY <1>1, <1>3, <2>1
  <2>3. x * (x * f[2 * n]) = xx * f[2 * n]
    BY <1>1, <2>1, SMT
  <2> QED BY <2>1, <2>2, <2>3
<1>4. Nat \subseteq S
  <2> HIDE DEF S
  <2> QED BY <1>2, <1>3, SetInduction
<1> QED BY <1>4 DEF f, g

LEMMA PowerOfReduced ==
  ASSUME NEW x \in Int
  PROVE  \A n \in Nat : (PowersOf(x % P)[n]) % P = (PowersOf(x)[n]) % P
<1> DEFINE r == x % P
           f == PowersOf(x)
           g == PowersOf(r)
           S == {n \in Nat : (g[n]) % P = (f[n]) % P}
<1>0. r \in Int /\ P \in Nat \ {0}
  BY FieldConstants, SMT
<1>1. /\ \A n \in Nat : f[n] \in Int /\ g[n] \in Int
      /\ f[0] = 1 /\ \A n \in Nat : f[n + 1] = x * f[n]
      /\ g[0] = 1 /\ \A n \in Nat : g[n + 1] = r * g[n]
  <2> HIDE DEF r
  <2> QED BY <1>0, PowersAre
<1> HIDE DEF f, g
<1>2. 0 \in S
  BY <1>1
<1>3. ASSUME NEW n \in Nat, n \in S
      PROVE  n + 1 \in S
  <2> DEFINE a == f[n]
             b == g[n]
  <2>1. a \in Int /\ b \in Int /\ b % P = a % P /\ f[n + 1] = x * a /\ g[n + 1] = r * b
    BY <1>1, <1>3
  <2> HIDE DEF a, b
  <2>2. (r * b) % P = (x * b) % P /\ (x * (b % P)) % P = (x * b) % P
          /\ (x * (a % P)) % P = (x * a) % P
    BY <1>0, <2>1, Reduced
  <2>3. n + 1 \in Nat
    BY SMT
  <2>4. (r * b) % P = (x * a) % P
    BY <2>1, <2>2
  <2> QED BY <2>1, <2>3, <2>4
<1>4. Nat \subseteq S
  <2> HIDE DEF S
  <2> QED BY <1>2, <1>3, SetInduction
<1> QED BY <1>4 DEF f, g

\* The loop of powModP: the function that it computes from its locals.
IsPowerModP(power) ==
  \A n, square, product \in Numbers :
    power[[n |-> n, square |-> square, product |-> product]] =
      IF n = 0 THEN product
      ELSE power[[n |-> Div(n, 2), square |-> MultiplyModP(square, square),
                  product |-> IF n % 2 = 1 THEN MultiplyModP(product, square) ELSE product]]

LEMMA ProductOfNumbers ==
  \A a, b \in Numbers : /\ MultiplyModP(a, b) = (a * b) % P
                        /\ MultiplyModP(a, b) \in 0 .. P - 1 /\ MultiplyModP(a, b) \in Numbers
<1> TAKE a, b \in Numbers
<1>1. P \in Nat \ {0} /\ P < M /\ M \in Nat
  BY FieldConstants
<1>2. a \in Int /\ b \in Int
  BY NumberIs
<1> DEFINE ab == a * b
<1>3. MultiplyModP(a, b) = ab % P
  BY MultiplyModPExact
<1>4. ab \in Int
  BY <1>2, SMT
<1> HIDE DEF ab
<1>5. ab % P \in 0 .. P - 1
  BY <1>1, <1>4, SMT
<1>6. 0 .. P - 1 \subseteq Numbers
  BY <1>1, SMT DEF Numbers
<1> QED BY <1>3, <1>5, <1>6 DEF ab

LEMMA HalfOfNumber ==
  ASSUME NEW n \in Numbers
  PROVE  /\ Div(n, 2) \in Numbers /\ Div(n, 2) \in Nat
         /\ n = 2 * Div(n, 2) + (n % 2) /\ n % 2 \in {0, 1}
         /\ n # 0 => Div(n, 2) < n
<1>1. n \in Nat /\ n < M /\ M \in Nat
  BY NumberIs
<1>2. 2 \in 1 .. Base - 1
  BY RootAssumption, FoldAssumption, SMT
<1>3. Div(n, 2) = n \div 2
  BY <1>2, DivModIs
<1>4. /\ n \div 2 \in 0 .. M - 1 /\ n \div 2 \in Nat
      /\ n = 2 * (n \div 2) + (n % 2) /\ n % 2 \in {0, 1}
      /\ n # 0 => n \div 2 < n
  <2> DEFINE q == n \div 2
             r == n % 2
  <2>1. 2 \in Nat \ {0} /\ 2 - 1 = 1
    BY SMT
  <2>2. n = 2 * q + r /\ r \in 0 .. 2 - 1 /\ q \in Nat
    BY <1>1, <2>1, QuotientOf, Zenon
  <2> HIDE DEF q, r
  <2>3. q \in 0 .. M - 1 /\ r \in {0, 1} /\ (n # 0 => q < n)
    BY <1>1, <2>2, SMT
  <2>4. /\ q \in 0 .. M - 1 /\ q \in Nat /\ n = 2 * q + r /\ r \in {0, 1}
        /\ n # 0 => q < n
    BY <2>2, <2>3
  <2> QED BY <2>4 DEF q, r
<1> QED BY <1>3, <1>4 DEF Numbers

LEMMA PowModPLoops ==
  \E power : IsPowerModP(power)
               /\ \A x, n : PowModP(x, n) = power[[n |-> n, square |-> x, product |-> 1]]
<1> DEFINE D == PowModPLocals
           After(w) == [n |-> Div(w.n, 2), square |-> MultiplyModP(w.square, w.square),
                        product |-> IF w.n % 2 = 1 THEN MultiplyModP(w.product, w.square)
                                    ELSE w.product]
           stop == {w \in D : w.n = 0}
           result == [w \in stop |-> w.product]
           next == [w \in D \ stop |-> After(w)]
           step == [w \in D |-> [y \in Numbers |-> y]]
           measure == [w \in D |-> w.n]
           power == CHOOSE f : f = [w \in D |-> IF w.n = 0 THEN w.product ELSE f[After(w)]]
<1>1. ASSUME NEW w \in D
      PROVE  w.n \in Numbers /\ w.square \in Numbers /\ w.product \in Numbers /\ w.n \in Nat
  <2>1. w.n \in Numbers /\ w.square \in Numbers /\ w.product \in Numbers
    BY DEF PowModPLocals
  <2> QED BY <2>1, NumberIs
<1>2. ASSUME NEW w \in D
      PROVE  After(w) \in D /\ After(w).n = Div(w.n, 2)
  <2>1. Div(w.n, 2) \in Numbers
    BY <1>1, HalfOfNumber
  <2>2. MultiplyModP(w.square, w.square) \in Numbers /\ MultiplyModP(w.product, w.square) \in Numbers
    BY <1>1, ProductOfNumbers
  <2> QED BY <1>1, <2>1, <2>2 DEF PowModPLocals
<1>3. ASSUME NEW w \in D \ stop
      PROVE  next[w] = After(w) /\ next[w] \in D /\ measure[next[w]] < measure[w]
  <2>1. next[w] = After(w) /\ After(w) \in D /\ After(w).n = Div(w.n, 2) /\ w \in D /\ w.n # 0
    BY <1>2
  <2>2. Div(w.n, 2) < w.n
    BY <1>1, <2>1, HalfOfNumber
  <2>3. measure[After(w)] = Div(w.n, 2) /\ measure[w] = w.n
    BY <2>1
  <2> HIDE DEF measure, next, D, After
  <2> QED BY <2>1, <2>2, <2>3
<1>4. IsLoop(D, Numbers, stop, result, next, step, measure)
  <2>1. stop \in SUBSET D /\ result \in [stop -> Numbers] /\ measure \in [D -> Nat]
    BY <1>1
  <2>2. next \in [D \ stop -> D]
    BY <1>3
  <2>3. step \in [D -> [Numbers -> Numbers]]
    OBVIOUS
  <2> HIDE DEF D, stop, result, next, step, measure
  <2> QED BY <1>3, <2>1, <2>2, <2>3 DEF IsLoop
<1>5. PICK f : RunsTo(f, D, Numbers, stop, result, next, step)
  <2> HIDE DEF D, stop, result, next, step, measure
  <2> QED BY <1>4, Recursion
<1>6. f \in [D -> Numbers] /\ \A w \in D : f[w] = IF w.n = 0 THEN w.product ELSE f[After(w)]
  <2>1. f \in [D -> Numbers]
    BY <1>5 DEF RunsTo
  <2>2. ASSUME NEW w \in D, w.n = 0
        PROVE  f[w] = w.product
    BY <1>5, <2>2 DEF RunsTo
  <2>3. ASSUME NEW w \in D, w.n # 0
        PROVE  f[w] = f[After(w)]
    <3>1. w \in D \ stop /\ next[w] = After(w) /\ f[After(w)] \in Numbers
      BY <1>3, <2>1, <2>3
    <3>2. f[w] = step[w][f[next[w]]]
      BY <1>5, <3>1 DEF RunsTo
    <3> HIDE DEF next, stop
    <3> QED BY <3>1, <3>2
  <2> HIDE DEF D, After
  <2> QED BY <2>1, <2>2, <2>3
<1>7. f = [w \in D |-> IF w.n = 0 THEN w.product ELSE f[After(w)]]
  <2> HIDE DEF D, After
  <2> QED BY <1>6
<1>8. power = [w \in D |-> IF w.n = 0 THEN w.product ELSE power[After(w)]]
  <2> HIDE DEF D, After
  <2> QED BY <1>7, Zenon
<1>9. \A x, n : PowModP(x, n) = power[[n |-> n, square |-> x, product |-> 1]]
  BY DEF PowModP
<1> HIDE DEF power
<1>10. IsPowerModP(power)
  <2>1. ASSUME NEW n \in Numbers, NEW square \in Numbers, NEW product \in Numbers
        PROVE  power[[n |-> n, square |-> square, product |-> product]] =
                 IF n = 0 THEN product
                 ELSE power[[n |-> Div(n, 2), square |-> MultiplyModP(square, square),
                     product |-> IF n % 2 = 1 THEN MultiplyModP(product, square) ELSE product]]
    <3> DEFINE w == [n |-> n, square |-> square, product |-> product]
    <3>1. w \in D /\ w.n = n /\ w.square = square /\ w.product = product
      BY DEF PowModPLocals
    <3>2. power[w] = IF w.n = 0 THEN w.product ELSE power[After(w)]
      <4> HIDE DEF w, D, After
      <4> QED BY <1>8, <3>1
    <3> QED BY <3>2, Zenon
  <2> QED BY <2>1 DEF IsPowerModP
<1> QED BY <1>9, <1>10

\* powModP returns the power modulo P, for every exponent and every number.
THEOREM PowModPThm ==
  ASSUME NEW x \in Numbers, NEW n \in Numbers
  PROVE  PowModP(x, n) = (PowersOf(x)[n]) % P
<1>1. PICK power : /\ IsPowerModP(power)
                   /\ \A y, j : PowModP(y, j) = power[[n |-> j, square |-> y, product |-> 1]]
  BY PowModPLoops
<1>2. /\ P \in Nat \ {0} /\ 1 \in 0 .. P - 1 /\ 0 .. P - 1 \subseteq Numbers
      /\ \A a \in Numbers : a \in Nat
  BY FieldConstants, NumberIs, SMT DEF Numbers
<1> DEFINE At(j, s, p) == power[[n |-> j, square |-> s, product |-> p]]
           S == {b \in Nat : \A j, s \in Numbers, p \in 0 .. P - 1 :
                   j < b => At(j, s, p) = (p * PowersOf(s)[j]) % P}
<1>3. \A j, s, p \in Numbers :
        At(j, s, p) = IF j = 0 THEN p
                      ELSE At(Div(j, 2), MultiplyModP(s, s),
                              IF j % 2 = 1 THEN MultiplyModP(p, s) ELSE p)
  BY <1>1 DEF IsPowerModP
<1> HIDE DEF At
<1>4. 0 \in S
  <2>1. \A j \in Numbers : ~(j < 0)
    BY <1>2, SMT
  <2> QED BY <2>1
<1>5. ASSUME NEW b \in Nat, b \in S
      PROVE  b + 1 \in S
  <2> SUFFICES ASSUME NEW j \in Numbers, NEW s \in Numbers, NEW p \in 0 .. P - 1, j < b + 1
               PROVE  At(j, s, p) = (p * PowersOf(s)[j]) % P
    BY SMT
  <2>1. p \in Numbers /\ p \in Int /\ p % P = p /\ s \in Int /\ j \in Nat
    BY <1>2, SmallRemainder, SMT
  <2>2. CASE j = 0
    <3>1. PowersOf(s)[0] = 1 /\ p * 1 = p
      BY <2>1, PowersAre, SMT
    <3> QED BY <1>3, <2>1, <2>2, <3>1
  <2>3. CASE j # 0
    <3> DEFINE h  == Div(j, 2)
               ss == MultiplyModP(s, s)
               pp == IF j % 2 = 1 THEN MultiplyModP(p, s) ELSE p
               f  == PowersOf(s)
    <3>1. h \in Numbers /\ h \in Nat /\ j = 2 * h + (j % 2) /\ j % 2 \in {0, 1} /\ h < j
      BY <2>3, HalfOfNumber
    <3>2. h < b
      <4> HIDE DEF h
      <4> QED BY <2>1, <3>1, SMT
    <3>3. ss \in Numbers /\ ss = (s * s) % P
      BY ProductOfNumbers
    <3>4. pp \in 0 .. P - 1 /\ (j % 2 = 1 => pp = (p * s) % P) /\ (j % 2 = 0 => pp = p)
      <4>1. MultiplyModP(p, s) = (p * s) % P /\ MultiplyModP(p, s) \in 0 .. P - 1
        BY <2>1, ProductOfNumbers
      <4>2. CASE j % 2 = 1
        <5>1. ~(j % 2 = 0)
          BY <4>2
        <5> QED BY <4>1, <4>2, <5>1, Zenon
      <4>3. CASE j % 2 # 1
        BY <4>3, Zenon
      <4> QED BY <4>2, <4>3
    <3>5. At(j, s, p) = At(h, ss, pp)
      BY <1>3, <2>1, <2>3
    <3>6. At(h, ss, pp) = (pp * PowersOf(ss)[h]) % P
      <4> HIDE DEF h, ss, pp
      <4> QED BY <1>5, <3>1, <3>2, <3>3, <3>4
    <3>7. /\ PowersOf(ss)[h] \in Int /\ f[2 * h] \in Int
          /\ PowersOf(ss)[h] % P = f[2 * h] % P
      <4> DEFINE sq == s * s
      <4>1. sq \in Int /\ 2 * h \in Nat
        <5> HIDE DEF h
        <5> QED BY <2>1, <3>1, SMT
      <4>2. PowersOf(sq)[h] = f[2 * h]
        <5> HIDE DEF h
        <5> QED BY <2>1, <3>1, PowerOfSquare
      <4> HIDE DEF h, sq
      <4>3. sq % P \in Int
        BY <1>2, <4>1, SMT
      <4>4. PowersOf(sq % P)[h] % P = PowersOf(sq)[h] % P
        BY <3>1, <4>1, PowerOfReduced
      <4>5. ss = sq % P
        BY <3>3 DEF sq
      <4> HIDE DEF ss
      <4>6. PowersOf(ss)[h] \in Int /\ f[2 * h] \in Int
        BY <2>1, <3>1, <4>1, <4>3, <4>5, PowersAre
      <4> QED BY <4>2, <4>4, <4>5, <4>6
    <3> DEFINE e == PowersOf(ss)[h]
               g == f[2 * h]
    <3>8. e \in Int /\ g \in Int /\ e % P = g % P
      BY <3>7
    <3>9. pp \in Int
      <4> HIDE DEF pp
      <4> QED BY <1>2, <3>4, SMT
    <3>10. (pp * e) % P = (pp * g) % P
      <4> HIDE DEF e, g, pp
      <4>1. (pp * (e % P)) % P = (pp * e) % P /\ (pp * (g % P)) % P = (pp * g) % P
        BY <1>2, <3>8, <3>9, Reduced
      <4> QED BY <3>8, <4>1
    <3>11. CASE j % 2 = 0
      <4>1. pp = p /\ j = 2 * h
        <5> HIDE DEF h, pp
        <5> QED BY <3>1, <3>4, <3>11, SMT
      <4> QED BY <3>5, <3>6, <3>10, <4>1
    <3>12. CASE j % 2 = 1
      <4>1. pp = (p * s) % P /\ j = 2 * h + 1 /\ 2 * h \in Nat
        <5> HIDE DEF h, pp
        <5> QED BY <3>1, <3>4, <3>12, SMT
      <4>2. f[j] = s * g
        BY <2>1, <4>1, PowersAre
      <4> DEFINE ps == p * s
      <4>3. ps \in Int /\ pp = ps % P
        <5>1. ps \in Int
          BY <2>1, SMT
        <5> QED BY <4>1, <5>1
      <4> HIDE DEF ps, pp, e, g, f
      <4>4. (pp * g) % P = (ps * g) % P
        BY <1>2, <3>8, <4>3, Reduced
      <4>5. ps * g = p * (s * g)
        BY <2>1, <3>8, SMT DEF ps
      <4>6. At(h, ss, pp) = (pp * e) % P
        BY <3>6 DEF e
      <4> HIDE DEF h, ss
      <4> QED BY <3>5, <3>10, <4>2, <4>4, <4>5, <4>6 DEF f
    <3> QED BY <3>1, <3>11, <3>12
  <2> QED BY <2>2, <2>3
<1>6. n + 1 \in S /\ n < n + 1
  <2>1. Nat \subseteq S
    <3> HIDE DEF S
    <3> QED BY <1>4, <1>5, SetInduction
  <2>2. n + 1 \in Nat /\ n < n + 1
    BY <1>2, SMT
  <2> QED BY <2>1, <2>2
<1>7. At(n, x, 1) = (1 * PowersOf(x)[n]) % P
  BY <1>2, <1>6
<1>8. 1 * PowersOf(x)[n] = PowersOf(x)[n]
  <2>1. x \in Int /\ n \in Nat
    BY <1>2
  <2> QED BY <2>1, PowersAre, SMT
<1> QED BY <1>1, <1>7, <1>8 DEF At

-----------------------------------------------------------------------------
(* Fermat: the power P - 1 is one *)

Units == 1 .. P - 1
Prod(a, b) == (a * b) % P

LEMMA TimesIs ==
  \A a, b, c \in Units : /\ Prod(a, b) \in Units /\ Prod(a, b) = Prod(b, a)
                         /\ Prod(a, Prod(b, c)) = Prod(Prod(a, b), c)
<1> TAKE a, b, c \in Units
<1>1. P \in Nat \ {0} /\ a \in Int /\ b \in Int /\ c \in Int
  BY FieldConstants, SMT DEF Units
<1> DEFINE ab == a * b
           bc == b * c
<1>2. ab \in Int /\ bc \in Int /\ a * b = b * a /\ a * bc = ab * c
  BY <1>1, SMT
<1>3. ab % P \in Units
  BY ProductNotZero DEF Units
<1> HIDE DEF ab, bc
<1>4. (a * (bc % P)) % P = (a * bc) % P /\ ((ab % P) * c) % P = (ab * c) % P
  BY <1>1, <1>2, Reduced
<1> QED BY <1>2, <1>3, <1>4 DEF Prod, ab, bc

LEMMA UnitsAreFinite ==
  /\ IsFiniteSet(Units) /\ Cardinality(Units) = P - 1
  /\ \A S \in SUBSET Units : IsFiniteSet(S) /\ Cardinality(S) \in Nat
<1>1. P - 1 \in Int /\ 1 \in Int /\ ~(1 > P - 1) /\ (P - 1) - 1 + 1 = P - 1
  BY FieldConstants, SMT
<1> DEFINE m == P - 1
<1>2. m \in Int /\ 1 \in Int /\ ~(1 > m) /\ m - 1 + 1 = m
  BY <1>1
<1>3. IsFiniteSet(1 .. m) /\ Cardinality(1 .. m) = m
  <2> HIDE DEF m
  <2> QED BY <1>2, FS_Interval
<1>4. IsFiniteSet(Units) /\ Cardinality(Units) = P - 1
  BY <1>3 DEF Units
<1> QED BY <1>4, FS_Subset, FS_CardinalityType

\* The product of a set of units.
ProductsOf ==
  CHOOSE f : f = [S \in SUBSET Units |->
                    IF S = {} THEN 1
                    ELSE LET s == CHOOSE t \in S : TRUE IN Prod(s, f[S \ {s}])]

LEMMA ProductsAre ==
  /\ ProductsOf[{}] = 1
  /\ \A S \in SUBSET Units : ProductsOf[S] \in Units
  /\ \A S \in SUBSET Units : S # {} => \E s \in S : ProductsOf[S] = Prod(s, ProductsOf[S \ {s}])
<1> DEFINE D == SUBSET Units
           T == Units
           One(S) == CHOOSE t \in S : TRUE
           stop == {{}}
           result == [S \in stop |-> 1]
           next == [S \in D \ stop |-> S \ {One(S)}]
           step == [S \in D |-> [y \in T |-> IF S = {} THEN 1 ELSE Prod(One(S), y)]]
           measure == [S \in D |-> Cardinality(S)]
           f == ProductsOf
<1>0. 1 \in T
  BY FieldConstants, SMT DEF Units
<1>1. ASSUME NEW S \in D, S # {}
      PROVE  One(S) \in S /\ One(S) \in T /\ S \ {One(S)} \in D
  <2>1. One(S) \in S
    BY <1>1
  <2> QED BY <2>1
<1>2. ASSUME NEW S \in D \ stop
      PROVE  measure[next[S]] < measure[S]
  <2> DEFINE s == One(S)
             R == S \ {s}
  <2>1. S \in D /\ S # {}
    BY <1>2
  <2>2. s \in S /\ R \in D /\ next[S] = R
    BY <1>1, <2>1
  <2>3. IsFiniteSet(S) /\ Cardinality(S) \in Nat
    BY <2>1, UnitsAreFinite
  <2>4. Cardinality(R) = Cardinality(S) - 1
    <3> HIDE DEF s
    <3> QED BY <2>2, <2>3, FS_RemoveElement
  <2>5. Cardinality(R) < Cardinality(S)
    BY <2>3, <2>4, SMT
  <2> HIDE DEF R, next
  <2> QED BY <2>1, <2>2, <2>5
<1>3. IsLoop(D, T, stop, result, next, step, measure)
  <2>1. stop \in SUBSET D /\ result \in [stop -> T]
    BY <1>0
  <2>2. next \in [D \ stop -> D]
    BY <1>1
  <2>3. step \in [D -> [T -> T]]
    BY <1>0, <1>1, TimesIs
  <2>4. measure \in [D -> Nat]
    BY UnitsAreFinite
  <2> HIDE DEF D, T, stop, result, next, step, measure
  <2> QED BY <1>2, <2>1, <2>2, <2>3, <2>4 DEF IsLoop
<1>4. PICK g : RunsTo(g, D, T, stop, result, next, step)
  <2> HIDE DEF D, T, stop, result, next, step, measure
  <2> QED BY <1>3, Recursion
<1>5. /\ g \in [D -> T]
      /\ \A S \in D : g[S] = IF S = {} THEN 1 ELSE Prod(One(S), g[S \ {One(S)}])
  <2>1. g \in [D -> T]
    BY <1>4 DEF RunsTo
  <2>2. ASSUME NEW S \in D, S = {}
        PROVE  g[S] = 1
    <3>1. S \in stop
      BY <2>2
    <3>2. g[S] = result[S]
      BY <1>4, <3>1 DEF RunsTo
    <3> QED BY <3>1, <3>2
  <2>3. ASSUME NEW S \in D, S # {}
        PROVE  g[S] = Prod(One(S), g[S \ {One(S)}])
    <3>1. S \in D \ stop /\ next[S] = S \ {One(S)} /\ g[S \ {One(S)}] \in T
      BY <1>1, <2>1, <2>3
    <3>2. g[S] = step[S][g[next[S]]]
      BY <1>4, <3>1 DEF RunsTo
    <3>3. \A y \in T : step[S][y] = Prod(One(S), y)
      BY <2>3
    <3> HIDE DEF next, stop, step, One
    <3> QED BY <3>1, <3>2, <3>3
  <2> HIDE DEF D, T, One
  <2> QED BY <2>1, <2>2, <2>3
<1>6. g = [S \in D |-> IF S = {} THEN 1 ELSE Prod(One(S), g[S \ {One(S)}])]
  <2> HIDE DEF D, T, One
  <2> QED BY <1>5
<1>7. f = [S \in D |-> IF S = {} THEN 1 ELSE Prod(One(S), f[S \ {One(S)}])]
  <2>1. f = CHOOSE h : h = [S \in D |-> IF S = {} THEN 1 ELSE Prod(One(S), h[S \ {One(S)}])]
    BY DEF ProductsOf
  <2> HIDE DEF D, T, One, f
  <2> QED BY <1>6, <2>1, Zenon
<1> HIDE DEF f
<1>8. f[{}] = 1 /\ \A S \in D : S # {} => One(S) \in S /\ f[S] = Prod(One(S), f[S \ {One(S)}])
  <2>1. {} \in D
    OBVIOUS
  <2> QED BY <1>1, <1>7, <2>1
<1>9. \A S \in D : f[S] \in T
  <2> DEFINE Sizes == {n \in Nat : \A S \in D : Cardinality(S) = n => f[S] \in T}
  <2>1. 0 \in Sizes
    BY <1>0, <1>8, UnitsAreFinite, FS_EmptySet
  <2>2. ASSUME NEW n \in Nat, n \in Sizes
        PROVE  n + 1 \in Sizes
    <3> SUFFICES ASSUME NEW S \in D, Cardinality(S) = n + 1
                 PROVE  f[S] \in T
      BY SMT
    <3>1. IsFiniteSet(S) /\ S # {}
      <4>1. n + 1 # 0
        BY SMT
      <4> QED BY <4>1, UnitsAreFinite, FS_EmptySet
    <3> DEFINE s == One(S)
    <3>2. s \in S /\ s \in T /\ S \ {s} \in D /\ f[S] = Prod(s, f[S \ {s}])
      BY <1>1, <1>8, <3>1
    <3> HIDE DEF s
    <3>3. Cardinality(S \ {s}) = n
      <4>1. Cardinality(S \ {s}) = Cardinality(S) - 1
        BY <3>1, <3>2, FS_RemoveElement
      <4>2. (n + 1) - 1 = n
        BY SMT
      <4> QED BY <4>1, <4>2
    <3>4. f[S \ {s}] \in T
      BY <2>2, <3>2, <3>3
    <3> QED BY <3>2, <3>4, TimesIs
  <2>3. Nat \subseteq Sizes
    <3> HIDE DEF Sizes
    <3> QED BY <2>1, <2>2, SetInduction
  <2> QED BY <2>3, UnitsAreFinite
<1> QED BY <1>8, <1>9 DEF f

\* Any factor may be taken out first.
LEMMA ProductWith ==
  \A S \in SUBSET Units : \A s \in S : ProductsOf[S] = Prod(s, ProductsOf[S \ {s}])
<1> DEFINE D == SUBSET Units
           f == ProductsOf
           Sizes == {n \in Nat : \A S \in D : Cardinality(S) = n => \A s \in S : f[S] = Prod(s, f[S \ {s}])}
<1>1. /\ \A S \in D : f[S] \in Units
      /\ \A S \in D : S # {} => \E s \in S : f[S] = Prod(s, f[S \ {s}])
  BY ProductsAre
<1> HIDE DEF f
<1>2. 0 \in Sizes
  BY UnitsAreFinite, FS_EmptySet
<1>3. ASSUME NEW n \in Nat, n \in Sizes
      PROVE  n + 1 \in Sizes
  <2> SUFFICES ASSUME NEW S \in D, Cardinality(S) = n + 1, NEW s \in S
               PROVE  f[S] = Prod(s, f[S \ {s}])
    BY SMT
  <2>1. PICK t \in S : f[S] = Prod(t, f[S \ {t}])
    BY <1>1
  <2>2. CASE s = t
    BY <2>1, <2>2
  <2>3. CASE s # t
    <3> DEFINE A == S \ {t}
               B == S \ {s}
               R == (S \ {t}) \ {s}
    <3>1. /\ A \in D /\ B \in D /\ R \in D /\ s \in A /\ t \in B /\ s \in Units /\ t \in Units
          /\ A \ {s} = R /\ B \ {t} = R
      BY <2>3
    <3>2. Cardinality(A) = n /\ Cardinality(B) = n
      <4>1. IsFiniteSet(S) /\ (n + 1) - 1 = n
        BY UnitsAreFinite, SMT
      <4>2. Cardinality(A) = Cardinality(S) - 1 /\ Cardinality(B) = Cardinality(S) - 1
        BY <4>1, FS_RemoveElement
      <4> QED BY <4>1, <4>2
    <3> HIDE DEF A, B, R
    <3>3. f[A] = Prod(s, f[R]) /\ f[B] = Prod(t, f[R])
      BY <1>3, <3>1, <3>2
    <3>4. Prod(t, Prod(s, f[R])) = Prod(s, Prod(t, f[R]))
      <4>1. f[R] \in Units
        BY <1>1, <3>1
      <4> QED BY <3>1, <4>1, TimesIs
    <3>5. f[S] = Prod(t, f[A])
      BY <2>1 DEF A
    <3> QED BY <3>3, <3>4, <3>5 DEF B
  <2> QED BY <2>2, <2>3
<1>4. Nat \subseteq Sizes
  <2> HIDE DEF Sizes
  <2> QED BY <1>2, <1>3, SetInduction
<1> SUFFICES ASSUME NEW S \in SUBSET Units, NEW s \in S
             PROVE  f[S] = Prod(s, f[S \ {s}])
  BY DEF f
<1>5. Cardinality(S) \in Sizes
  <2> HIDE DEF Sizes
  <2> QED BY <1>4, UnitsAreFinite
<1> QED BY <1>5

LEMMA UnitPower ==
  ASSUME NEW x \in Units, NEW n \in Nat
  PROVE  /\ (PowersOf(x)[n]) % P \in Units
         /\ (PowersOf(x)[n + 1]) % P = Prod(x, (PowersOf(x)[n]) % P)
<1> DEFINE f == PowersOf(x)
           Sizes == {j \in Nat : f[j] % P \in Units}
<1>1. x \in Int /\ P \in Nat \ {0} /\ 1 \in Units /\ 1 % P = 1
  BY FieldConstants, SMT DEF Units
<1>2. f[0] = 1 /\ \A j \in Nat : f[j] \in Int /\ f[j + 1] = x * f[j]
  BY <1>1, PowersAre
<1> HIDE DEF f
<1>3. \A j \in Nat : f[j + 1] % P = Prod(x, f[j] % P)
  <2> TAKE j \in Nat
  <2> DEFINE y == f[j]
  <2>1. y \in Int /\ f[j + 1] = x * y
    BY <1>2
  <2> HIDE DEF y
  <2>2. (x * (y % P)) % P = (x * y) % P
    BY <1>1, <2>1, Reduced
  <2> QED BY <2>1, <2>2 DEF Prod, y
<1>4. 0 \in Sizes
  BY <1>1, <1>2
<1>5. ASSUME NEW j \in Nat, j \in Sizes
      PROVE  j + 1 \in Sizes
  <2>1. j + 1 \in Nat
    BY SMT
  <2> QED BY <1>3, <1>5, <2>1, TimesIs
<1>6. Nat \subseteq Sizes
  <2> HIDE DEF Sizes
  <2> QED BY <1>4, <1>5, SetInduction
<1> QED BY <1>3, <1>6 DEF f

\* Multiplying every unit of a set by x multiplies its product by a power of x.
Scaled(x, S) == {Prod(x, s) : s \in S}

LEMMA ProductOfScaled ==
  ASSUME NEW x \in Units
  PROVE  \A S \in SUBSET Units :
           /\ Scaled(x, S) \in SUBSET Units
           /\ ProductsOf[Scaled(x, S)]
                = Prod((PowersOf(x)[Cardinality(S)]) % P, ProductsOf[S])
<1> DEFINE D == SUBSET Units
           f == ProductsOf
           g(n) == (PowersOf(x)[n]) % P
           Sizes == {n \in Nat : \A S \in D : Cardinality(S) = n => f[Scaled(x, S)] = Prod(g(n), f[S])}
<1>1. \A S \in D : Scaled(x, S) \in D
  BY TimesIs DEF Scaled
<1>2. /\ f[{}] = 1 /\ \A S \in D : f[S] \in Units
      /\ \A S \in D : \A s \in S : f[S] = Prod(s, f[S \ {s}])
  BY ProductsAre, ProductWith
<1>3. g(0) = 1 /\ \A n \in Nat : g(n) \in Units /\ g(n + 1) = Prod(x, g(n))
  <2>1. x \in Int /\ 1 % P = 1
    BY FieldConstants, SMT DEF Units
  <2>2. PowersOf(x)[0] = 1
    BY <2>1, PowersAre
  <2> QED BY <2>1, <2>2, UnitPower
<1> HIDE DEF f, g
<1>4. \A a, b \in Units : Prod(x, a) = Prod(x, b) => a = b
  <2> TAKE a, b \in Units
  <2> SUFFICES ASSUME Prod(x, a) = Prod(x, b)
               PROVE  a = b
    OBVIOUS
  <2> DEFINE y == InvModP(x)
  <2>1. /\ P \in Nat \ {0} /\ x \in Int /\ x % P # 0 /\ a % P = a /\ b % P = b
        /\ 1 * a = a /\ 1 * b = b
    BY FieldConstants, SMT DEF Units
  <2>2. y \in Units /\ (x * y) % P = 1
    BY <2>1, InverseIs DEF Units
  <2> HIDE DEF y
  <2>3. Prod(y, x) = 1
    BY <2>2, TimesIs DEF Prod
  <2>4. Prod(Prod(y, x), a) = Prod(Prod(y, x), b)
    BY <2>2, TimesIs
  <2>5. Prod(1, a) = a /\ Prod(1, b) = b
    BY <2>1 DEF Prod
  <2> QED BY <2>3, <2>4, <2>5
<1>5. 0 \in Sizes
  <2> SUFFICES ASSUME NEW S \in D, Cardinality(S) = 0
               PROVE  f[Scaled(x, S)] = Prod(g(0), f[S])
    OBVIOUS
  <2>1. S = {} /\ Scaled(x, S) = {}
    BY UnitsAreFinite, FS_EmptySet DEF Scaled
  <2>2. Prod(1, 1) = 1
    BY FieldConstants, SMT DEF Prod
  <2> QED BY <1>2, <1>3, <2>1, <2>2
<1>6. ASSUME NEW n \in Nat, n \in Sizes
      PROVE  n + 1 \in Sizes
  <2> SUFFICES ASSUME NEW S \in D, Cardinality(S) = n + 1
               PROVE  f[Scaled(x, S)] = Prod(g(n + 1), f[S])
    BY SMT
  <2>1. IsFiniteSet(S) /\ n + 1 # 0 /\ (n + 1) - 1 = n
    BY UnitsAreFinite, SMT
  <2>2. PICK s : s \in S
    BY <2>1, FS_EmptySet
  <2> DEFINE R == S \ {s}
             t == Prod(x, s)
  <2>3. Cardinality(R) = n
    <3>1. Cardinality(R) = Cardinality(S) - 1
      BY <2>1, <2>2, FS_RemoveElement
    <3> QED BY <2>1, <3>1
  <2>4. /\ R \in D /\ s \in Units /\ t \in Scaled(x, S)
        /\ Scaled(x, S) \ {t} = Scaled(x, R)
    <3>1. R \in D /\ s \in Units /\ t \in Scaled(x, S)
      BY <2>2 DEF Scaled
    <3>2. \A e \in S : Prod(x, e) = t => e = s
      BY <1>4, <2>2
    <3>3. Scaled(x, S) \ {t} = Scaled(x, R)
      BY <3>2 DEF Scaled
    <3> QED BY <3>1, <3>3
  <2>5. f[Scaled(x, S)] = Prod(t, f[Scaled(x, R)]) /\ f[S] = Prod(s, f[R])
    <3>1. f[S] = Prod(s, f[S \ {s}])
      BY <1>2, <2>2
    <3>2. f[Scaled(x, S)] = Prod(t, f[Scaled(x, S) \ {t}])
      BY <1>1, <1>2, <2>4
    <3> QED BY <2>4, <3>1, <3>2
  <2>6. f[Scaled(x, R)] = Prod(g(n), f[R]) /\ f[R] \in Units /\ g(n) \in Units
    BY <1>2, <1>3, <1>6, <2>3, <2>4
  <2> HIDE DEF R
  <2>7. Prod(Prod(x, s), Prod(g(n), f[R])) = Prod(Prod(x, g(n)), Prod(s, f[R]))
    <3> DEFINE a == g(n)
               b == f[R]
    <3>1. a \in Units /\ b \in Units /\ s \in Units
      BY <2>4, <2>6
    <3> HIDE DEF a, b
    <3> DEFINE ab == Prod(a, b)
               sb == Prod(s, b)
    <3>2. ab \in Units /\ sb \in Units
      BY <3>1, TimesIs
    <3>3. Prod(s, ab) = Prod(a, sb)
      BY <3>1, TimesIs
    <3> HIDE DEF ab, sb
    <3>4. Prod(Prod(x, s), ab) = Prod(x, Prod(s, ab))
      BY <3>1, <3>2, TimesIs
    <3>5. Prod(Prod(x, a), sb) = Prod(x, Prod(a, sb))
      BY <3>1, <3>2, TimesIs
    <3> QED BY <3>3, <3>4, <3>5 DEF a, b, ab, sb
  <2> QED BY <1>3, <2>5, <2>6, <2>7
<1>7. Nat \subseteq Sizes
  <2> HIDE DEF Sizes
  <2> QED BY <1>5, <1>6, SetInduction
<1> SUFFICES ASSUME NEW S \in D
             PROVE  f[Scaled(x, S)] = Prod(g(Cardinality(S)), f[S])
  BY <1>1 DEF f, g
<1>8. Cardinality(S) \in Sizes
  <2> HIDE DEF Sizes
  <2> QED BY <1>7, UnitsAreFinite
<1> QED BY <1>8

\* The multiples of a unit are all units, so their product is that of the units:
\* the power P - 1 is one.
THEOREM FermatThm ==
  ASSUME NEW x \in Units
  PROVE  (PowersOf(x)[P - 1]) % P = 1
<1> DEFINE w == ProductsOf[Units]
           p == PowersOf(x)[P - 1]
<1>1. /\ P \in Nat \ {0} /\ 1 < P /\ P - 1 \in Nat /\ x \in Int /\ x % P # 0
      /\ \A e \in Units : e \in Int /\ e % P = e /\ e # 0
  BY FieldConstants, SMT DEF Units
<1>2. Scaled(x, Units) = Units
  <2> DEFINE y == InvModP(x)
  <2>1. y \in Units /\ (x * y) % P = 1
    BY <1>1, InverseIs DEF Units
  <2> HIDE DEF y
  <2>2. ASSUME NEW t \in Units
        PROVE  t \in Scaled(x, Units)
    <3>1. Prod(y, t) \in Units /\ Prod(x, Prod(y, t)) = Prod(Prod(x, y), t)
      BY <2>1, TimesIs
    <3>2. Prod(x, y) = 1 /\ Prod(1, t) = t
      <4>1. 1 * t = t /\ t % P = t
        BY <1>1, SMT
      <4> QED BY <2>1, <4>1 DEF Prod
    <3>3. Prod(x, Prod(y, t)) = t
      BY <3>1, <3>2
    <3> QED BY <3>1, <3>3 DEF Scaled
  <2> QED BY <2>2, ProductOfScaled
<1>3. w = Prod(p % P, w)
  BY <1>2, ProductOfScaled, UnitsAreFinite
<1>4. w \in Units /\ p \in Int
  BY <1>1, ProductsAre, PowersAre
<1> HIDE DEF w, p
<1>5. w \in Int /\ w % P = w /\ w # 0
  BY <1>1, <1>4
<1> DEFINE r == p % P
<1>6. r \in 0 .. P - 1 /\ r \in Int
  BY <1>1, <1>4, SMT
<1> HIDE DEF r
<1>7. (r * w) % P = w
  BY <1>3 DEF Prod, r
<1>8. ((r - 1) * w) % P = 0
  <2> DEFINE rw == r * w
  <2>1. rw \in Int /\ (r - 1) * w = rw - w
    BY <1>5, <1>6, SMT
  <2> HIDE DEF rw
  <2>2. ((rw % P) - w) % P = (rw - w) % P
    BY <1>1, <1>5, <2>1, Reduced
  <2>3. rw % P = w
    BY <1>7 DEF rw
  <2>4. (w - w) % P = 0
    BY <1>1, <1>5, SMT
  <2> QED BY <2>1, <2>2, <2>3, <2>4
<1>9. (r - 1) % P = 0
  <2>1. r - 1 \in Int /\ (r - 1) * w = w * (r - 1)
    BY <1>5, <1>6, SMT
  <2> QED BY <1>5, <1>8, <2>1, NoZeroDivisors
<1>10. 1 \in 0 .. P - 1
  BY <1>1, SMT
<1> QED BY <1>6, <1>9, <1>10, SameBelow DEF p, r

-----------------------------------------------------------------------------
(* Square roots, and the y of an x *)

\* (P + 1) / 4, as the code divides it.
LEMMA RootExponent ==
  /\ Div(P + 1, 4) \in Numbers /\ Div(P + 1, 4) \in Nat \ {0}
  /\ 2 * Div(P + 1, 4) + 2 * Div(P + 1, 4) = (P - 1) + 2
<1>1. P \in Nat /\ P + 1 \in Numbers /\ 4 \in 1 .. Base - 1 /\ P % 4 = 3 /\ M \in Nat
  BY FieldConstants, PrimeFormAssumption, FoldAssumption, RootAssumption, SMT DEF Numbers
<1>2. Div(P + 1, 4) = (P + 1) \div 4
  BY <1>1, DivModIs
<1> DEFINE e == (P + 1) \div 4
           q == P \div 4
<1>3. P = 4 * q + 3 /\ q \in Nat
  BY <1>1, SMT
<1>4. e = q + 1
  <2>1. P + 1 = (q + 1) * 4 + 0 /\ q + 1 \in Int /\ P + 1 \in Int /\ 0 \in 0 .. 4 - 1 /\ 4 \in Nat \ {0}
    <3> HIDE DEF q
    <3> QED BY <1>3, SMT
  <2> HIDE DEF q
  <2> QED BY <2>1, RemainderOf
<1> HIDE DEF e, q
<1>5. e \in Nat \ {0} /\ e < M /\ 2 * e + 2 * e = (P - 1) + 2
  <2>1. P < M
    BY FieldConstants
  <2> QED BY <1>1, <1>3, <1>4, <2>1, SMT
<1>6. e \in Numbers
  BY <1>1, <1>5, SMT DEF Numbers
<1> QED BY <1>2, <1>5, <1>6 DEF e

LEMMA SmallPowers ==
  ASSUME NEW x \in Int
  PROVE  PowersOf(x)[2] = x * x /\ PowersOf(x)[3] = x * x * x
<1>1. 0 + 1 = 1 /\ 1 + 1 = 2 /\ 2 + 1 = 3 /\ 1 \in Nat /\ 2 \in Nat /\ 0 \in Nat
  BY SMT
<1>2. PowersOf(x)[0] = 1 /\ \A n \in Nat : PowersOf(x)[n + 1] = x * PowersOf(x)[n]
  BY PowersAre
<1>3. PowersOf(x)[1] = x * 1 /\ PowersOf(x)[2] = x * PowersOf(x)[1]
        /\ PowersOf(x)[3] = x * PowersOf(x)[2]
  BY <1>1, <1>2
<1>4. x * 1 = x /\ x * (x * x) = x * x * x
  BY SMT
<1> QED BY <1>3, <1>4

LEMMA RootType ==
  ASSUME NEW a \in Numbers
  PROVE  /\ SqrtModP(a) = (PowersOf(a)[Div(P + 1, 4)]) % P /\ SqrtModP(a) \in 0 .. P - 1
<1>1. SqrtModP(a) = (PowersOf(a)[Div(P + 1, 4)]) % P
  BY RootExponent, PowModPThm DEF SqrtModP
<1>2. PowersOf(a)[Div(P + 1, 4)] \in Int /\ P \in Nat \ {0}
  <2>1. a \in Int /\ Div(P + 1, 4) \in Nat
    BY RootExponent, NumberIs
  <2>2. \A n \in Nat : PowersOf(a)[n] \in Int
    BY <2>1, PowersAre
  <2> QED BY <2>1, <2>2, FieldConstants
<1> DEFINE z == PowersOf(a)[Div(P + 1, 4)]
<1>3. z % P \in 0 .. P - 1
  <2>1. z \in Int
    BY <1>2
  <2> HIDE DEF z
  <2> QED BY <1>2, <2>1, SMT
<1> QED BY <1>1, <1>3

\* Of a square, sqrtModP returns one of the two roots.
THEOREM SqrtModPThm ==
  ASSUME NEW y \in 0 .. P - 1
  PROVE  SqrtModP((y * y) % P) = y \/ SqrtModP((y * y) % P) + y = P
<1> DEFINE yy == y * y
           a == yy % P
           e == Div(P + 1, 4)
           r == SqrtModP(a)
           f == PowersOf(y)
<1>1. P \in Nat \ {0} /\ 1 < P /\ P < M /\ M \in Nat /\ P - 1 \in Nat /\ y \in Int
  BY FieldConstants, SMT
<1>2. yy \in Int
  BY <1>1, SMT
<1>3. a \in 0 .. P - 1 /\ a \in Numbers
  <2> HIDE DEF yy
  <2> QED BY <1>1, <1>2, SMT DEF Numbers
<1>4. e \in Nat \ {0} /\ 2 * e + 2 * e = (P - 1) + 2 /\ 2 * e \in Nat
  <2>1. e \in Nat \ {0} /\ 2 * e + 2 * e = (P - 1) + 2
    BY RootExponent
  <2> HIDE DEF e
  <2> QED BY <2>1, SMT
<1> HIDE DEF e
<1>5. r = (PowersOf(a)[e]) % P /\ r \in 0 .. P - 1
  BY <1>3, RootType DEF e
<1>6. (PowersOf(a)[e]) % P = (f[2 * e]) % P
  <2>1. (PowersOf(yy % P)[e]) % P = (PowersOf(yy)[e]) % P
    <3> HIDE DEF yy
    <3> QED BY <1>2, <1>4, PowerOfReduced
  <2>2. PowersOf(yy)[e] = f[2 * e]
    BY <1>1, <1>4, PowerOfSquare
  <2> QED BY <2>1, <2>2
<1>7. \A n \in Nat : f[n] \in Int
  BY <1>1, PowersAre
<1>8. (r * r) % P = a
  <2> DEFINE z == f[2 * e]
  <2>1. z \in Int /\ r = z % P
    BY <1>4, <1>5, <1>6, <1>7
  <2>2. z * z = f[(P - 1) + 2]
    <3> DEFINE h == 2 * e
    <3>1. h \in Nat /\ h + h = (P - 1) + 2
      BY <1>4
    <3> HIDE DEF h
    <3>2. f[h + h] = f[h] * f[h]
      BY <1>1, <3>1, PowerOfSum
    <3>3. f[h + h] = f[(P - 1) + 2]
      BY <3>1
    <3> QED BY <3>2, <3>3 DEF h
  <2> HIDE DEF z, r
  <2>3. (r * r) % P = (z * z) % P
    <3>1. ((z % P) * (z % P)) % P = (z * (z % P)) % P /\ (z * (z % P)) % P = (z * z) % P
      <4>1. z % P \in Int
        BY <1>1, <2>1, SMT
      <4> QED BY <1>1, <2>1, <4>1, Reduced
    <3> QED BY <2>1, <3>1
  <2>4. f[(P - 1) + 2] = f[P - 1] * yy
    <3>1. 2 \in Nat
      OBVIOUS
    <3> QED BY <1>1, <3>1, PowerOfSum, SmallPowers
  <2>5. CASE y = 0
    <3>1. yy = 0 /\ a = 0
      BY <1>1, <2>5, SMT
    <3>2. f[P - 1] * yy = 0 /\ 0 % P = 0
      BY <1>1, <1>7, <3>1, SMT
    <3> QED BY <2>2, <2>3, <2>4, <3>1, <3>2
  <2>6. CASE y # 0
    <3> DEFINE p == f[P - 1]
    <3>1. y \in Units
      BY <1>1, <2>6, SMT DEF Units
    <3>2. p % P = 1 /\ p \in Int
      BY <1>1, <1>7, <3>1, FermatThm
    <3> HIDE DEF p, yy
    <3>3. ((p % P) * yy) % P = (p * yy) % P
      BY <1>1, <1>2, <3>2, Reduced
    <3>4. 1 * yy = yy
      BY <1>2, SMT
    <3>5. (p * yy) % P = yy % P
      BY <3>2, <3>3, <3>4
    <3> QED BY <2>2, <2>3, <2>4, <3>5 DEF p
  <2> QED BY <2>5, <2>6
<1>9. r \in Int
  <2> HIDE DEF r
  <2> QED BY <1>1, <1>5, SMT
<1> HIDE DEF r
<1>10. ((r - y) * (r + y)) % P = 0
  <2> DEFINE rr == r * r
  <2>1. rr \in Int /\ (r - y) * (r + y) = rr - yy
    BY <1>1, <1>9, SMT
  <2>2. rr % P = yy % P
    BY <1>8
  <2> HIDE DEF rr, yy
  <2>3. ((rr % P) - yy) % P = (rr - yy) % P /\ ((yy % P) - yy) % P = (yy - yy) % P
    BY <1>1, <1>2, <2>1, Reduced
  <2>4. (yy - yy) % P = 0
    BY <1>1, <1>2, SMT
  <2> QED BY <2>1, <2>2, <2>3, <2>4
<1>11. CASE (r - y) % P = 0
  <2>1. r = y
    BY <1>5, <1>11, SameBelow
  <2> QED BY <2>1 DEF r
<1>12. CASE (r - y) % P # 0
  <2>1. r - y \in Int /\ r + y \in Int
    BY <1>1, <1>9, SMT
  <2>2. (r + y) % P = 0
    BY <1>10, <1>12, <2>1, NoZeroDivisors
  <2>3. r + y = 0 \/ r + y = P
    <3> DEFINE s == r + y
               q == s \div P
    <3>1. s \in Nat /\ s < 2 * P
      BY <1>1, <1>5, <1>9, SMT
    <3>2. s = P * q + (s % P) /\ q \in Nat
      <4> HIDE DEF s
      <4> QED BY <1>1, <3>1, QuotientOf DEF q
    <3> HIDE DEF q
    <3>3. s = P * q
      <4>1. s % P = 0
        BY <2>2
      <4> HIDE DEF s
      <4> QED BY <1>1, <3>1, <3>2, <4>1, SMT
    <3> HIDE DEF s
    <3>4. q < 2
      BY <1>1, <3>1, <3>2, <3>3, SMT
    <3>5. q = 0 \/ q = 1
      BY <3>2, <3>4, SMT
    <3> QED BY <1>1, <3>3, <3>5, SMT DEF s
  <2>4. r + y = 0 => r = y
    BY <1>1, <1>5, <1>9, SMT
  <2> QED BY <2>3, <2>4 DEF r
<1> QED BY <1>11, <1>12

\* x^3 + CurveB, on the way of pointExists and on the way of getY.
CubeOf(x) == (x * x * x + CurveB) % P

LEMMA CubeIs ==
  ASSUME NEW x \in Numbers
  PROVE  /\ CubePlusB(x) = CubeOf(x) /\ AddModP(PowModP(x, 3), CurveB) = CubeOf(x)
         /\ CubeOf(x) \in 0 .. P - 1 /\ CubeOf(x % P) = CubeOf(x)
<1> DEFINE xx == x * x
           xxx == x * x * x
           a == MultiplyModP(x, x)
           b == MultiplyModP(a, x)
<1>1. /\ P \in Nat \ {0} /\ M \in Nat /\ P < M /\ x \in Int /\ CurveB \in Int /\ CurveB \in 0 .. P - 1
      /\ 3 \in Numbers
  BY FieldConstants, NumberIs, GeneratorAssumption, RootAssumption, SMT DEF Numbers
<1>2. xx \in Int /\ xxx \in Int /\ xxx = xx * x
  BY <1>1, SMT
<1>3. a = xx % P /\ a \in Numbers
  BY ProductOfNumbers
<1>4. b = (a * x) % P /\ b \in 0 .. P - 1
  BY <1>3, ProductOfNumbers
<1>5. b = xxx % P
  <2>1. ((xx % P) * x) % P = (xx * x) % P
    <3> HIDE DEF xx
    <3> QED BY <1>1, <1>2, Reduced
  <2> QED BY <1>2, <1>3, <1>4, <2>1
<1>6. PowModP(x, 3) = xxx % P
  BY <1>1, PowModPThm, SmallPowers
<1>7. AddModP(b, CurveB) = (b + CurveB) % P
  BY <1>1, <1>4, FieldOps
<1> HIDE DEF xx, xxx
<1>8. ((xxx % P) + CurveB) % P = (xxx + CurveB) % P /\ xxx + CurveB \in Int
  <2>1. xxx + CurveB \in Int
    BY <1>1, <1>2, SMT
  <2> QED BY <1>1, <1>2, <2>1, Reduced
<1>9. CubeOf(x) = (xxx + CurveB) % P
  BY DEF CubeOf, xxx
<1>10. (xxx + CurveB) % P \in 0 .. P - 1
  BY <1>1, <1>8, Reduced
<1>11. CubeOf(x % P) = CubeOf(x)
  <2> DEFINE z == x % P
             zz == z * z
  <2>1. z \in Int /\ zz \in Int
    BY <1>1, SMT
  <2>2. zz % P = xx % P
    <3>1. ((x % P) * z) % P = (x * z) % P /\ (x * (x % P)) % P = (x * x) % P
      <4> HIDE DEF zz
      <4> QED BY <1>1, <2>1, Reduced
    <3> QED BY <3>1 DEF xx
  <2>3. (zz * z) % P = (xx * x) % P
    <3> HIDE DEF zz
    <3>1. (zz * (x % P)) % P = (zz * x) % P
      BY <1>1, <2>1, Reduced
    <3>2. ((zz % P) * x) % P = (zz * x) % P /\ ((xx % P) * x) % P = (xx * x) % P
      BY <1>1, <1>2, <2>1, Reduced
    <3> QED BY <2>2, <3>1, <3>2
  <2> DEFINE zzz == zz * z
  <2>4. zzz \in Int /\ CubeOf(z) = (zzz + CurveB) % P
    BY <1>1, <2>1, SMT DEF CubeOf
  <2>5. zzz % P = xxx % P
    BY <1>2, <2>3
  <2> HIDE DEF zzz
  <2>6. ((zzz % P) + CurveB) % P = (zzz + CurveB) % P
    BY <1>1, <2>4, Reduced
  <2> QED BY <1>8, <1>9, <2>4, <2>5, <2>6
<1> QED BY <1>4, <1>5, <1>6, <1>7, <1>8, <1>9, <1>10, <1>11 DEF CubePlusB

LEMMA SquareOfOpposite ==
  \A a \in 0 .. P - 1 : ((P - a) * (P - a)) % P = (a * a) % P
<1> SUFFICES ASSUME NEW a \in 0 .. P - 1
             PROVE  ((P - a) * (P - a)) % P = (a * a) % P
  OBVIOUS
<1> DEFINE q == P - 2 * a
           aa == a * a
           bb == (P - a) * (P - a)
<1>1. P \in Nat \ {0} /\ a \in Int /\ q \in Int /\ aa \in Int /\ bb \in Int
  BY FieldConstants, SMT
<1>2. bb = aa + q * P
  BY <1>1, SMT
<1> HIDE DEF q, aa, bb
<1>3. bb % P = aa % P
  BY <1>1, <1>2, RemainderSame
<1> QED BY <1>3 DEF aa, bb

\* Of a number and its opposite one is even.
LEMMA OppositeParity ==
  \A a \in 0 .. P - 1 : IsEven(P - a) = ~IsEven(a)
<1> SUFFICES ASSUME NEW a \in 0 .. P - 1
             PROVE  IsEven(P - a) = ~IsEven(a)
  OBVIOUS
<1>1. P % 2 = 1 /\ P \in Nat /\ a \in Nat
  BY ModulusAssumption, SMT
<1>2. (P - a) % 2 = 0 <=> a % 2 # 0
  BY <1>1, SMT
<1> QED BY <1>2, Zenon DEF IsEven

LEMMA GetYIs ==
  ASSUME NEW x \in Numbers, NEW sign
  PROVE  LET r == SqrtModP(CubeOf(x))
             y == GetY(x, sign)
         IN  /\ r \in 0 .. P - 1 /\ y \in Numbers /\ y \in {r, P - r}
             /\ IsEven(y) = (sign = 2) /\ (y * y) % P = (r * r) % P
<1> DEFINE r == SqrtModP(CubeOf(x))
           y == GetY(x, sign)
<1>1. P \in Nat \ {0} /\ M \in Nat /\ P < M /\ CubeOf(x) \in Numbers
  BY FieldConstants, CubeIs, SMT DEF Numbers
<1>2. r \in 0 .. P - 1
  BY <1>1, RootType
<1>3. y = IF IsEven(r) = (sign = 2) THEN r ELSE SubModP(P, r)
  BY CubeIs DEF GetY
<1> HIDE DEF r, y
<1>4. SubModP(P, r) = P - r
  <2>1. ~(P < r)
    BY <1>1, <1>2, SMT
  <2> QED BY <2>1 DEF SubModP, SubMod
<1>5. y \in {r, P - r} /\ IsEven(y) = (sign = 2)
  BY <1>2, <1>3, <1>4, OppositeParity, Zenon DEF IsEven
<1>6. r \in Numbers /\ P - r \in Numbers
  BY <1>1, <1>2, SMT DEF Numbers
<1>7. (y * y) % P = (r * r) % P
  BY <1>2, <1>5, SquareOfOpposite
<1> QED BY <1>2, <1>5, <1>6, <1>7 DEF r, y

\* The y of a point is found again from its x and its parity.
LEMMA PointReadBack ==
  ASSUME NEW p \in CurvePoints
  PROVE  p.x \in Numbers /\ p.y \in Numbers /\ GetY(p.x, CompressionByte(p)) = p.y
<1> DEFINE x == p.x
           y == p.y
           r == SqrtModP(CubeOf(x))
           g == GetY(x, CompressionByte(p))
<1>1. /\ x \in 0 .. P - 1 /\ y \in 0 .. P - 1 /\ P \in Nat \ {0} /\ M \in Nat /\ P < M
      /\ (y * y) % P = CubeOf(x)
  BY PointIs, FieldConstants DEF IsAffine, CubeOf
<1>2. x \in Numbers /\ y \in Numbers
  <2> HIDE DEF x, y
  <2> QED BY <1>1, SMT DEF Numbers
<1>3. r = y \/ r + y = P
  BY <1>1, SqrtModPThm
<1>4. g \in {r, P - r} /\ r \in 0 .. P - 1 /\ IsEven(g) = (CompressionByte(p) = 2)
  BY <1>2, GetYIs
<1>5. (CompressionByte(p) = 2) = IsEven(y)
  BY SMT DEF CompressionByte, IsEven
<1> HIDE DEF x, y, r, g
<1>6. y \in {r, P - r}
  BY <1>1, <1>3, <1>4, SMT
<1>7. IsEven(P - r) = ~IsEven(r)
  BY <1>4, OppositeParity
<1>8. g = y
  BY <1>4, <1>5, <1>6, <1>7, Zenon DEF IsEven
<1> QED BY <1>2, <1>8 DEF x, y, g

\* An x and a sign make a point of the curve if and only if there is one.
THEOREM PointOfXThm ==
  ASSUME NEW x \in Numbers, NEW sign \in {2, 3}
  PROVE  LET q == Point(x, GetY(x, sign))
         IN  /\ PointExists(q) <=> \E n \in 1 .. N - 1 : Multiple(n).x = x % P
             /\ q.x = x /\ CompressionByte(q) = sign
<1> DEFINE y == GetY(x, sign)
           q == Point(x, y)
           r == SqrtModP(CubeOf(x))
           z == x % P
<1>1. /\ r \in 0 .. P - 1 /\ y \in Numbers /\ IsEven(y) = (sign = 2) /\ (y * y) % P = (r * r) % P
  BY GetYIs
<1>2. q.x = x /\ q.y = y
  BY DEF Point
<1>3. CompressionByte(q) = sign
  BY <1>1, <1>2 DEF CompressionByte
<1>4. PointExists(q) <=> (r * r) % P = CubeOf(x)
  BY <1>1, <1>2, CubeIs, ProductOfNumbers DEF PointExists
<1>5. z \in 0 .. P - 1 /\ CubeOf(z) = CubeOf(x)
  <2>1. P \in Nat \ {0} /\ x \in Int
    BY FieldConstants, NumberIs, SMT
  <2> QED BY <2>1, Reduced, CubeIs
<1> HIDE DEF y, q, r, z
<1>6. ASSUME (r * r) % P = CubeOf(x)
      PROVE  \E n \in 1 .. N - 1 : Multiple(n).x = z
  <2>1. (r * r) % P = (z * z * z + CurveB) % P
    BY <1>5, <1>6 DEF CubeOf
  <2>2. PICK n \in 1 .. N - 1 : Multiple(n) = Point(z, r)
    BY <1>1, <1>5, <2>1, CofactorAssumption
  <2> QED BY <2>2 DEF Point
<1>7. ASSUME NEW n \in 1 .. N - 1, Multiple(n).x = z
      PROVE  (r * r) % P = CubeOf(x)
  <2> DEFINE p == Multiple(n)
             w == p.y
  <2>1. p \in CurvePoints
    BY GroupAssumption
  <2>2. w \in 0 .. P - 1 /\ (w * w) % P = CubeOf(x)
    <3>1. w \in 0 .. P - 1 /\ (w * w) % P = (p.x * p.x * p.x + CurveB) % P
      <4> HIDE DEF p
      <4> QED BY <2>1, PointIs DEF IsAffine
    <3>2. (w * w) % P = CubeOf(z)
      BY <1>7, <3>1 DEF CubeOf
    <3> QED BY <1>5, <3>1, <3>2
  <2> HIDE DEF w
  <2>3. r = w \/ r + w = P
    BY <2>2, SqrtModPThm DEF r
  <2>4. r = w \/ r = P - w
    BY <1>1, <2>2, <2>3, FieldConstants, SMT
  <2> QED BY <2>2, <2>4, SquareOfOpposite
<1> QED BY <1>2, <1>3, <1>4, <1>6, <1>7 DEF y, q, z

-----------------------------------------------------------------------------
(* Digits *)

\* Two functions that count up are the same if their steps are.
LEMMA SameCount ==
  ASSUME NEW L \in Nat, NEW f, NEW w, f[0] = w[0],
         \A n \in 1 .. L : f[n - 1] = w[n - 1] => f[n] = w[n]
  PROVE  \A n \in 0 .. L : f[n] = w[n]
<1> DEFINE S == {n \in Nat : n <= L => f[n] = w[n]}
<1>1. 0 \in S
  OBVIOUS
<1>2. ASSUME NEW n \in Nat, n \in S
      PROVE  n + 1 \in S
  <2>1. CASE n + 1 <= L
    <3>1. n + 1 \in 1 .. L /\ (n + 1) - 1 = n /\ n <= L
      BY <2>1, SMT
    <3> QED BY <1>2, <3>1
  <2> QED BY <2>1
<1>3. Nat \subseteq S
  <2> HIDE DEF S
  <2> QED BY <1>1, <1>2, SetInduction
<1> QED BY <1>3, SMT

\* What the prefixes of a text of digits stand for.
Spells(s, g) ==
  /\ s \in Seq(0 .. Radix - 1) /\ g \in [0 .. Len(s) -> Numbers] /\ g[0] = 0
  /\ \A n \in 1 .. Len(s) : g[n] = g[n - 1] * Radix + s[n]

\* One digit more.
LEMMA SpellsNext ==
  ASSUME NEW s, NEW g, Spells(s, g), NEW x \in Numbers, NEW e \in 0 .. Radix - 1,
         x = g[Len(s)] * Radix + e
  PROVE  \E h : Spells(Append(s, e), h) /\ h[Len(Append(s, e))] = x
<1> DEFINE t == Append(s, e)
           L == Len(s)
           h == [n \in 0 .. L + 1 |-> IF n = L + 1 THEN x ELSE g[n]]
<1>1. /\ s \in Seq(0 .. Radix - 1) /\ g \in [0 .. L -> Numbers] /\ g[0] = 0 /\ L \in Nat
      /\ \A n \in 1 .. L : g[n] = g[n - 1] * Radix + s[n]
  BY DEF Spells
<1>2. /\ t \in Seq(0 .. Radix - 1) /\ Len(t) = L + 1 /\ t[L + 1] = e
      /\ \A n \in 1 .. L : t[n] = s[n]
  BY <1>1
<1> HIDE DEF L, t
<1>3. h \in [0 .. L + 1 -> Numbers] /\ h[L + 1] = x /\ \A n \in 0 .. L : h[n] = g[n]
  <2>1. ASSUME NEW n \in 0 .. L + 1, n # L + 1
        PROVE  n \in 0 .. L
    BY <1>1, <2>1, SMT
  <2>2. ASSUME NEW n \in 0 .. L
        PROVE  n \in 0 .. L + 1 /\ n # L + 1
    BY <1>1, SMT
  <2>3. L + 1 \in 0 .. L + 1
    BY <1>1, SMT
  <2> QED BY <1>1, <2>1, <2>2, <2>3
<1>4. h[0] = 0
  <2>1. 0 \in 0 .. L
    BY <1>1, SMT
  <2> QED BY <1>1, <1>3, <2>1
<1> HIDE DEF h
<1>5. ASSUME NEW n \in 1 .. L + 1
      PROVE  h[n] = h[n - 1] * Radix + t[n]
  <2>1. CASE n = L + 1
    <3>1. n - 1 = L /\ L \in 0 .. L
      BY <1>1, <2>1, SMT
    <3>2. h[n] = x /\ h[n - 1] = g[L] /\ t[n] = e
      BY <1>2, <1>3, <2>1, <3>1
    <3> QED BY <3>2 DEF L
  <2>2. CASE n # L + 1
    <3>1. n \in 1 .. L /\ n \in 0 .. L /\ n - 1 \in 0 .. L
      BY <1>1, <2>2, SMT
    <3> QED BY <1>1, <1>2, <1>3, <3>1
  <2> QED BY <2>1, <2>2
<1>6. Spells(t, h) /\ h[Len(t)] = x
  BY <1>2, <1>3, <1>4, <1>5 DEF Spells
<1> QED BY <1>6 DEF t

\* A leading digit zero changes no value.
LEMMA SpellsZero ==
  ASSUME NEW s, NEW g, Spells(s, g)
  PROVE  \E h : Spells(<<0>> \o s, h) /\ h[Len(<<0>> \o s)] = g[Len(s)]
<1> DEFINE t == <<0>> \o s
           L == Len(s)
           h == [n \in 0 .. L + 1 |-> IF n = 0 THEN 0 ELSE g[n - 1]]
<1>1. /\ s \in Seq(0 .. Radix - 1) /\ g \in [0 .. L -> Numbers] /\ g[0] = 0 /\ L \in Nat
      /\ \A n \in 1 .. L : g[n] = g[n - 1] * Radix + s[n]
      /\ Radix \in Nat \ {0} /\ 0 \in Numbers /\ 0 \in 0 .. Radix - 1
  BY EncodingAssumption, FieldConstants, SMT DEF Spells, Numbers
<1>2. /\ t \in Seq(0 .. Radix - 1) /\ Len(t) = L + 1 /\ t[1] = 0
      /\ \A n \in 1 .. L : t[n + 1] = s[n]
  BY <1>1
<1> HIDE DEF L, t
<1>3. ASSUME NEW n \in 1 .. L + 1
      PROVE  n - 1 \in 0 .. L /\ n \in 0 .. L + 1 /\ n # 0 /\ n - 1 \in 0 .. L + 1
  BY <1>1, SMT
<1>4. h \in [0 .. L + 1 -> Numbers] /\ h[0] = 0
  <2>1. \A n \in 0 .. L + 1 : n # 0 => n \in 1 .. L + 1
    BY <1>1, SMT
  <2>2. 0 \in 0 .. L + 1
    BY <1>1, SMT
  <2> QED BY <1>1, <1>3, <2>1, <2>2
<1>5. \A n \in 1 .. L + 1 : h[n] = g[n - 1]
  BY <1>3
<1> HIDE DEF h
<1>6. ASSUME NEW n \in 1 .. L + 1
      PROVE  h[n] = h[n - 1] * Radix + t[n]
  <2>1. CASE n = 1
    <3>1. 1 \in 1 .. L + 1 /\ 1 - 1 = 0 /\ 0 * Radix + 0 = 0
      BY <1>1, SMT
    <3> QED BY <1>1, <1>2, <1>4, <1>5, <2>1, <3>1
  <2>2. CASE n # 1
    <3> DEFINE m == n - 1
    <3>1. m \in 1 .. L /\ m + 1 = n /\ m \in 1 .. L + 1
      BY <1>1, <2>2, SMT
    <3>2. h[n] = g[m] /\ h[m] = g[m - 1] /\ t[m + 1] = s[m]
      <4> HIDE DEF m
      <4>1. h[m] = g[m - 1] /\ t[m + 1] = s[m]
        BY <1>2, <1>5, <3>1
      <4> QED BY <1>5, <4>1 DEF m
    <3> HIDE DEF m
    <3>3. g[m] = g[m - 1] * Radix + s[m]
      BY <1>1, <3>1
    <3> QED BY <3>1, <3>2, <3>3 DEF m
  <2> QED BY <2>1, <2>2
<1>7. h[L + 1] = g[L]
  <2>1. L + 1 \in 1 .. L + 1 /\ (L + 1) - 1 = L
    BY <1>1, SMT
  <2> QED BY <1>5, <2>1
<1>8. Spells(t, h)
  BY <1>2, <1>4, <1>6 DEF Spells
<1> QED BY <1>2, <1>7, <1>8 DEF t, L

\* No step of a parser overflows.
LEMMA SpelledStep ==
  ASSUME NEW s, NEW g, Spells(s, g)
  PROVE  \A n \in 1 .. Len(s) :
           /\ n - 1 \in 0 .. Len(s) /\ n \in 0 .. Len(s) /\ n # 0
           /\ g[n] \in Numbers /\ g[n - 1] \in Numbers
           /\ FromInt(Digit(s[n])) = s[n] /\ FromInt(s[n]) = s[n]
           /\ Mul(g[n - 1], Radix) = g[n - 1] * Radix
           /\ Add(Mul(g[n - 1], Radix), s[n]) = g[n]
<1> SUFFICES ASSUME NEW n \in 1 .. Len(s)
             PROVE  /\ n - 1 \in 0 .. Len(s) /\ n \in 0 .. Len(s) /\ n # 0
                    /\ g[n] \in Numbers /\ g[n - 1] \in Numbers
                    /\ FromInt(Digit(s[n])) = s[n] /\ FromInt(s[n]) = s[n]
                    /\ Mul(g[n - 1], Radix) = g[n - 1] * Radix
                    /\ Add(Mul(g[n - 1], Radix), s[n]) = g[n]
  OBVIOUS
<1>1. /\ s \in Seq(0 .. Radix - 1) /\ g \in [0 .. Len(s) -> Numbers] /\ Len(s) \in Nat
      /\ g[n] = g[n - 1] * Radix + s[n]
  BY DEF Spells
<1>2. n - 1 \in 0 .. Len(s) /\ n \in 0 .. Len(s) /\ n # 0
  BY <1>1, SMT
<1> DEFINE a == g[n - 1]
           b == g[n]
           c == s[n]
           q == a * Radix
<1>3. a \in Numbers /\ b \in Numbers /\ c \in 0 .. Radix - 1 /\ b = q + c
  BY <1>1, <1>2
<1>4. a \in Nat /\ b \in Nat /\ b < M /\ M \in Nat \ {0} /\ Radix \in 2 .. Base - 1 /\ Base \in Nat \ {0}
  BY <1>3, NumberIs, EncodingAssumption, PowersOfBase
<1> HIDE DEF a, b, c
<1>5. q \in Nat
  BY <1>4, SMT
<1> HIDE DEF q
<1>6. q < M /\ c \in Nat /\ c < Base /\ q + c = b
  BY <1>3, <1>4, <1>5, SMT
<1>7. q % M = q /\ b % M = b /\ c % Base = c
  BY <1>4, <1>5, <1>6, SmallRemainder
<1>8. Digit(c) = c
  BY <1>3 DEF Digit
<1> QED BY <1>2, <1>3, <1>6, <1>7, <1>8 DEF a, b, c, q, Mul, Add, FromInt

LEMMA ToBigIntIs ==
  ASSUME NEW s, NEW g, Spells(s, g)
  PROVE  ToBigInt(s) = g[Len(s)]
<1> DEFINE L == Len(s)
           val == CHOOSE f : f = [n \in 0 .. L |->
                  IF n = 0 THEN 0 ELSE Add(Mul(f[n - 1], Radix), FromInt(Digit(s[n])))]
<1>1. L \in Nat /\ g \in [0 .. L -> Numbers] /\ g[0] = 0
  BY DEF Spells
<1>2. ToBigInt(s) = val[L]
  BY DEF ToBigInt
<1>3. \A n \in 1 .. L :
        Add(Mul(g[n - 1], Radix), FromInt(Digit(s[n]))) = g[n]
  <2>1. \A n \in 1 .. L : FromInt(Digit(s[n])) = s[n] /\ Add(Mul(g[n - 1], Radix), s[n]) = g[n]
    BY SpelledStep
  <2> QED BY <2>1
<1>4. g = [n \in 0 .. L |-> IF n = 0 THEN 0 ELSE Add(Mul(g[n - 1], Radix), FromInt(Digit(s[n])))]
  <2>1. \A n \in 0 .. L : n # 0 => n \in 1 .. L
    BY <1>1, SMT
  <2> HIDE DEF L
  <2> QED BY <1>1, <1>3, <2>1
<1>5. val = [n \in 0 .. L |-> IF n = 0 THEN 0 ELSE Add(Mul(val[n - 1], Radix), FromInt(Digit(s[n])))]
  <2> HIDE DEF L
  <2> QED BY <1>4, Zenon
<1> HIDE DEF val
<1>6. val[0] = 0
  <2>1. 0 \in 0 .. L
    BY <1>1, SMT
  <2> HIDE DEF L
  <2> QED BY <1>5, <2>1
<1>7. ASSUME NEW n \in 1 .. L, val[n - 1] = g[n - 1]
      PROVE  val[n] = g[n]
  <2>1. n \in 0 .. L /\ n # 0
    BY <1>1, SMT
  <2> HIDE DEF L
  <2>2. val[n] = Add(Mul(val[n - 1], Radix), FromInt(Digit(s[n])))
    BY <1>5, <2>1
  <2> QED BY <1>3, <1>7, <2>2
<1>8. \A n \in 0 .. L : val[n] = g[n]
  <2> HIDE DEF L
  <2>1. val[0] = g[0] /\ L \in Nat
    BY <1>1, <1>6
  <2>2. \A n \in 1 .. L : val[n - 1] = g[n - 1] => val[n] = g[n]
    BY <1>7
  <2> QED BY <2>1, <2>2, SameCount
<1>9. L \in 0 .. L
  BY <1>1, SMT
<1> QED BY <1>2, <1>8, <1>9

LEMMA FromTextIs ==
  ASSUME NEW s, NEW g, Spells(s, g)
  PROVE  FromText(s) = g[Len(s)]
<1> DEFINE L == Len(s)
           Next_(r, n) == IF n < L THEN Mul(Add(r, FromInt(s[n])), Radix) ELSE Add(r, FromInt(s[n]))
           val == CHOOSE f : f = [n \in 0 .. L |-> IF n = 0 THEN 0 ELSE
                  LET r == Add(f[n - 1], FromInt(s[n])) IN IF n < L THEN Mul(r, Radix) ELSE r]
           w == [n \in 0 .. L |-> IF n < L THEN g[n] * Radix ELSE g[n]]
<1>1. L \in Nat /\ g \in [0 .. L -> Numbers] /\ g[0] = 0 /\ Radix \in Nat
  BY EncodingAssumption, SMT DEF Spells
<1>2. FromText(s) = val[L]
  BY DEF FromText
<1>3. w[0] = 0 /\ w[L] = g[L]
  <2>1. 0 \in 0 .. L /\ L \in 0 .. L /\ ~(L < L) /\ 0 * Radix = 0
    BY <1>1, SMT
  <2> HIDE DEF L
  <2> QED BY <1>1, <2>1
<1>4. ASSUME NEW n \in 1 .. L
      PROVE  Next_(w[n - 1], n) = w[n]
  <2>1. n - 1 \in 0 .. L /\ n \in 0 .. L /\ n - 1 < L
    BY <1>1, SMT
  <2>2. /\ g[n] \in Numbers /\ FromInt(s[n]) = s[n] /\ Mul(g[n - 1], Radix) = g[n - 1] * Radix
        /\ Add(Mul(g[n - 1], Radix), s[n]) = g[n]
    BY SpelledStep
  <2>3. w[n - 1] = g[n - 1] * Radix /\ w[n] = IF n < L THEN g[n] * Radix ELSE g[n]
    BY <2>1
  <2>4. Add(w[n - 1], FromInt(s[n])) = g[n]
    BY <2>2, <2>3
  <2>5. n < L => Mul(g[n], Radix) = g[n] * Radix
    <3> SUFFICES ASSUME n < L
                 PROVE  Mul(g[n], Radix) = g[n] * Radix
      OBVIOUS
    <3>1. n + 1 \in 1 .. L /\ (n + 1) - 1 = n
      BY <1>1, SMT
    <3>2. Mul(g[(n + 1) - 1], Radix) = g[(n + 1) - 1] * Radix
      BY <3>1, SpelledStep
    <3> QED BY <3>1, <3>2
  <2> HIDE DEF L, w
  <2> QED BY <2>3, <2>4, <2>5
<1>5. w = [n \in 0 .. L |-> IF n = 0 THEN 0 ELSE Next_(w[n - 1], n)]
  <2>1. \A n \in 0 .. L : n # 0 => n \in 1 .. L
    BY <1>1, SMT
  <2>2. w = [n \in 0 .. L |-> w[n]]
    OBVIOUS
  <2> HIDE DEF L, w, Next_
  <2> QED BY <1>3, <1>4, <2>1, <2>2
<1>6. val = [n \in 0 .. L |-> IF n = 0 THEN 0 ELSE Next_(val[n - 1], n)]
  <2>1. val = CHOOSE f : f = [n \in 0 .. L |-> IF n = 0 THEN 0 ELSE Next_(f[n - 1], n)]
    OBVIOUS
  <2> HIDE DEF L, w, val, Next_
  <2> QED BY <1>5, <2>1, Zenon
<1> HIDE DEF val
<1>7. val[0] = 0
  <2>1. 0 \in 0 .. L
    BY <1>1, SMT
  <2> HIDE DEF L, Next_
  <2> QED BY <1>6, <2>1
<1>8. ASSUME NEW n \in 1 .. L, val[n - 1] = w[n - 1]
      PROVE  val[n] = w[n]
  <2>1. n \in 0 .. L /\ n # 0
    BY <1>1, SMT
  <2> HIDE DEF L, Next_, w
  <2>2. val[n] = Next_(val[n - 1], n)
    BY <1>6, <2>1
  <2> QED BY <1>4, <1>8, <2>2
<1>9. \A n \in 0 .. L : val[n] = w[n]
  <2> HIDE DEF L, w
  <2>1. val[0] = w[0] /\ L \in Nat
    BY <1>1, <1>3, <1>7
  <2>2. \A n \in 1 .. L : val[n - 1] = w[n - 1] => val[n] = w[n]
    BY <1>8
  <2> QED BY <2>1, <2>2, SameCount
<1>10. L \in 0 .. L
  BY <1>1, SMT
<1> HIDE DEF w
<1> QED BY <1>2, <1>3, <1>9, <1>10

\* A number without its last digit.
LEMMA LastDigit ==
  ASSUME NEW n \in Numbers
  PROVE  /\ Div(n, Radix) \in Numbers /\ Mod(n, Radix) \in 0 .. Radix - 1
         /\ n = Div(n, Radix) * Radix + Mod(n, Radix)
         /\ n # 0 => Div(n, Radix) < n
<1> DEFINE q == n \div Radix
           e == n % Radix
<1>1. /\ n \in Nat /\ n < M /\ M \in Nat /\ Radix \in 1 .. Base - 1 /\ Radix \in Nat \ {0} /\ 2 <= Radix
  BY NumberIs, EncodingAssumption, PowersOfBase, SMT
<1>2. Div(n, Radix) = q /\ Mod(n, Radix) = e
  BY <1>1, DivModIs
<1>3. n = Radix * q + e /\ q \in Nat /\ e \in 0 .. Radix - 1
  BY <1>1, QuotientOf
<1> HIDE DEF q, e
<1>4. 2 * q <= Radix * q /\ Radix * q \in Nat /\ Radix * q = q * Radix
  <2>1. 2 * q <= Radix * q /\ Radix * q \in Nat
    <3>1. 2 \in Nat /\ Radix \in Nat
      BY <1>1, SMT
    <3> QED BY <1>1, <1>3, <3>1, ProductsGrow
  <2> QED BY <1>1, <1>3, <2>1, SMT
<1> DEFINE z == Radix * q
<1>5. z \in Nat /\ 2 * q <= z /\ n = z + e /\ z = q * Radix
  BY <1>3, <1>4
<1> HIDE DEF z
<1>6. q \in Numbers /\ (n # 0 => q < n) /\ n = q * Radix + e
  <2>1. q <= n /\ (n # 0 => q < n)
    BY <1>1, <1>3, <1>5, SMT
  <2>2. n = q * Radix + e
    BY <1>5
  <2> QED BY <1>1, <1>3, <2>1, <2>2, SMT DEF Numbers
<1> QED BY <1>2, <1>3, <1>6

\* to_string and ToBase58 append the last digit to the text of the rest.
IsText(text) ==
  \A n \in Numbers : text[n] = IF n = 0 THEN <<>> ELSE Append(text[Div(n, Radix)], Mod(n, Radix))

LEMMA TextLoops ==
  \E text : IsText(text) /\ \A x : ToText(x) = text[x] /\ ToBase58(x) = text[x]
<1> DEFINE D == Numbers
           T == Seq(0 .. Radix - 1)
           stop == {0}
           result == [n \in stop |-> <<>>]
           next == [n \in D \ stop |-> Div(n, Radix)]
           step == [n \in D |-> [s \in T |-> Append(s, Mod(n, Radix))]]
           measure == [n \in D |-> n]
           text == CHOOSE f : f = [n \in D |-> IF n = 0 THEN <<>>
                                    ELSE Append(f[Div(n, Radix)], Mod(n, Radix))]
<1>1. ASSUME NEW n \in D \ stop
      PROVE  next[n] = Div(n, Radix) /\ next[n] \in D /\ measure[next[n]] < measure[n]
  <2>1. n \in D /\ n # 0 /\ Div(n, Radix) \in D /\ Div(n, Radix) < n
    BY LastDigit
  <2>2. next[n] = Div(n, Radix) /\ measure[Div(n, Radix)] = Div(n, Radix) /\ measure[n] = n
    BY <2>1
  <2> HIDE DEF D, next, measure
  <2> QED BY <2>1, <2>2
<1>2. IsLoop(D, T, stop, result, next, step, measure)
  <2>1. 0 \in D /\ D \in SUBSET Nat
    BY NumberIs, FieldConstants, SMT DEF Numbers
  <2>2. stop \in SUBSET D /\ measure \in [D -> Nat]
    BY <2>1
  <2>3. result \in [stop -> T]
    OBVIOUS
  <2>4. next \in [D \ stop -> D]
    BY <1>1
  <2>5. step \in [D -> [T -> T]]
    <3>1. ASSUME NEW n \in D, NEW s \in T
          PROVE  Append(s, Mod(n, Radix)) \in T
      BY LastDigit
    <3> HIDE DEF D, T
    <3> QED BY <3>1
  <2> HIDE DEF D, T, stop, result, next, step, measure
  <2> QED BY <1>1, <2>2, <2>3, <2>4, <2>5 DEF IsLoop
<1>3. PICK f : RunsTo(f, D, T, stop, result, next, step)
  <2> HIDE DEF D, T, stop, result, next, step, measure
  <2> QED BY <1>2, Recursion
<1>4. f = [n \in D |-> IF n = 0 THEN <<>> ELSE Append(f[Div(n, Radix)], Mod(n, Radix))]
  <2>1. f \in [D -> T]
    BY <1>3 DEF RunsTo
  <2>2. ASSUME NEW n \in D, n = 0
        PROVE  f[n] = <<>>
    <3>1. n \in stop /\ result[n] = <<>>
      BY <2>2
    <3>2. f[n] = result[n]
      <4> HIDE DEF D, T, stop, result, next, step
      <4> QED BY <1>3, <3>1 DEF RunsTo
    <3> QED BY <3>1, <3>2
  <2>3. ASSUME NEW n \in D, n # 0
        PROVE  f[n] = Append(f[Div(n, Radix)], Mod(n, Radix))
    <3>1. n \in D \ stop /\ n \notin stop /\ next[n] = Div(n, Radix) /\ next[n] \in D
      BY <1>1, <2>3
    <3>2. f[next[n]] \in T
      <4> HIDE DEF D, T, next
      <4> QED BY <2>1, <3>1
    <3>3. f[n] = step[n][f[next[n]]]
      <4> HIDE DEF D, T, stop, result, next, step
      <4> QED BY <1>3, <3>1 DEF RunsTo
    <3> HIDE DEF D, T, next, stop
    <3>4. step[n][f[next[n]]] = Append(f[next[n]], Mod(n, Radix))
      BY <3>2
    <3> QED BY <3>1, <3>3, <3>4
  <2> HIDE DEF D, T
  <2> QED BY <2>1, <2>2, <2>3
<1>5. text = [n \in D |-> IF n = 0 THEN <<>> ELSE Append(text[Div(n, Radix)], Mod(n, Radix))]
  <2> HIDE DEF D
  <2> QED BY <1>4, Zenon
<1>6. \A x : ToText(x) = text[x] /\ ToBase58(x) = text[x]
  BY DEF ToText, ToBase58, Mod
<1> HIDE DEF text
<1>7. IsText(text)
  BY <1>5, Zenon DEF IsText
<1> QED BY <1>6, <1>7

\* The text of a number stands for the number.
LEMMA TextSpells ==
  /\ \A x \in Numbers : \E g : Spells(ToText(x), g) /\ g[Len(ToText(x))] = x
  /\ \A x : ToBase58(x) = ToText(x)
<1>1. PICK text : IsText(text) /\ \A x : ToText(x) = text[x] /\ ToBase58(x) = text[x]
  BY TextLoops
<1> DEFINE Good(x) == \E g : Spells(text[x], g) /\ g[Len(text[x])] = x
           S == {n \in Nat : \A x \in Numbers : x <= n => Good(x)}
<1>2. 0 \in Numbers /\ Radix \in Nat \ {0}
  BY NumberIs, EncodingAssumption, SMT DEF Numbers
<1>3. Good(0)
  <2> DEFINE g == [n \in {0} |-> 0]
             s == <<>>
  <2>1. text[0] = s
    BY <1>1, <1>2 DEF IsText
  <2>2. Len(s) = 0 /\ 0 .. Len(s) = {0} /\ 1 .. Len(s) = {} /\ s \in Seq(0 .. Radix - 1)
    BY SMT
  <2>3. g \in [0 .. Len(s) -> Numbers] /\ g[0] = 0
    BY <1>2, <2>2, Zenon
  <2> HIDE DEF s, g
  <2>4. Spells(s, g) /\ g[Len(s)] = 0
    BY <2>2, <2>3 DEF Spells
  <2> QED BY <2>1, <2>4
<1>4. ASSUME NEW x \in Numbers, x # 0, Good(Div(x, Radix))
      PROVE  Good(x)
  <2> DEFINE q == Div(x, Radix)
             e == Mod(x, Radix)
             s == text[q]
  <2>1. e \in 0 .. Radix - 1 /\ x = q * Radix + e
    BY LastDigit
  <2>2. text[x] = Append(s, e)
    BY <1>1, <1>4 DEF IsText
  <2>3. PICK g : Spells(s, g) /\ g[Len(s)] = q
    BY <1>4
  <2> HIDE DEF q, e, s
  <2>4. \E h : Spells(Append(s, e), h) /\ h[Len(Append(s, e))] = x
    BY <2>1, <2>3, SpellsNext
  <2> QED BY <2>2, <2>4
<1>5. 0 \in S
  <2>1. \A x \in Numbers : x <= 0 => x = 0
    BY NumberIs, SMT
  <2> QED BY <1>3, <2>1
<1>6. ASSUME NEW n \in Nat, n \in S
      PROVE  n + 1 \in S
  <2>1. ASSUME NEW x \in Numbers, x <= n + 1
        PROVE  Good(x)
    <3>1. CASE x = 0
      BY <1>3, <3>1
    <3>2. CASE x # 0
      <4>1. Div(x, Radix) \in Numbers /\ Div(x, Radix) < x
        BY <3>2, LastDigit
      <4>2. Div(x, Radix) <= n
        <5>1. Div(x, Radix) \in Nat /\ x \in Nat
          BY <4>1, NumberIs
        <5> QED BY <2>1, <4>1, <5>1, SMT
      <4>3. Good(Div(x, Radix))
        <5> HIDE DEF Good
        <5> QED BY <1>6, <4>1, <4>2
      <4> HIDE DEF Good
      <4> QED BY <1>4, <3>2, <4>3
    <3> QED BY <3>1, <3>2
  <2> HIDE DEF Good
  <2> QED BY <2>1
<1>7. Nat \subseteq S
  <2> HIDE DEF S
  <2> QED BY <1>5, <1>6, SetInduction
<1>8. ASSUME NEW x \in Numbers
      PROVE  Good(x)
  <2>1. x \in Nat /\ x <= x
    BY NumberIs, SMT
  <2> HIDE DEF Good
  <2> QED BY <1>7, <2>1
<1>9. \A x : ToBase58(x) = ToText(x)
  BY <1>1, Zenon
<1>10. \A x \in Numbers : \E g : Spells(ToText(x), g) /\ g[Len(ToText(x))] = x
  BY <1>1, <1>8, Zenon
<1> QED BY <1>9, <1>10

\* Behind its first element, a text is what was put there.
LEMMA TailOfJoined ==
  ASSUME NEW S, NEW e \in S, NEW s \in Seq(S)
  PROVE  Tail(<<e>> \o s) = s /\ (<<e>> \o s)[1] = e /\ Len(<<e>> \o s) = 1 + Len(s)
<1> DEFINE t == <<e>> \o s
<1>1. <<e>> \in Seq(S) /\ Len(<<e>>) = 1 /\ <<e>>[1] = e
  OBVIOUS
<1>2. /\ t \in Seq(S) /\ Len(t) = 1 + Len(s) /\ Len(s) \in Nat
      /\ \A n \in 1 .. 1 + Len(s) : t[n] = IF n <= 1 THEN <<e>>[n] ELSE s[n - 1]
  BY <1>1, ConcatProperties, LenProperties
<1> HIDE DEF t
<1>3. t[1] = e
  <2>1. 1 \in 1 .. 1 + Len(s) /\ 1 <= 1
    BY <1>2, SMT
  <2> QED BY <1>1, <1>2, <2>1
<1>4. t # <<>>
  <2>1. Len(t) # 0
    BY <1>2, SMT
  <2> QED BY <2>1
<1>5. /\ Tail(t) \in Seq(S) /\ Len(Tail(t)) = Len(t) - 1
      /\ \A n \in 1 .. Len(Tail(t)) : Tail(t)[n] = t[n + 1]
  BY <1>2, <1>4, HeadTailProperties
<1>6. Len(Tail(t)) = Len(s)
  BY <1>2, <1>5, SMT
<1>7. ASSUME NEW n \in 1 .. Len(Tail(t))
      PROVE  Tail(t)[n] = s[n]
  <2>1. n + 1 \in 1 .. 1 + Len(s) /\ ~(n + 1 <= 1) /\ (n + 1) - 1 = n
    BY <1>2, <1>6, SMT
  <2> QED BY <1>2, <1>5, <2>1
<1>8. Tail(t) = s
  BY <1>5, <1>6, <1>7, SeqEqual
<1> QED BY <1>2, <1>3, <1>8 DEF t

\* What is written in digits is read back.
LEMMA DigitsRoundTrip ==
  ASSUME NEW x \in Numbers
  PROVE  /\ FromText(ToText(x)) = x /\ ToBigInt(ToBase58(x)) = x
         /\ ToBigInt(<<0>> \o ToBase58(x)) = x /\ Tail(<<0>> \o ToBase58(x)) = ToBase58(x)
<1> DEFINE s == ToText(x)
<1>1. PICK g : Spells(s, g) /\ g[Len(s)] = x
  BY TextSpells
<1>2. ToBase58(x) = s
  BY TextSpells
<1> HIDE DEF s
<1>3. FromText(s) = x /\ ToBigInt(s) = x
  BY <1>1, FromTextIs, ToBigIntIs
<1>4. ToBigInt(<<0>> \o s) = x
  <2>1. PICK h : Spells(<<0>> \o s, h) /\ h[Len(<<0>> \o s)] = g[Len(s)]
    BY <1>1, SpellsZero
  <2> QED BY <1>1, <2>1, ToBigIntIs
<1>5. Tail(<<0>> \o s) = s
  <2>1. s \in Seq(0 .. Radix - 1)
    BY <1>1 DEF Spells
  <2> QED BY <2>1, TailOfJoined
<1> QED BY <1>2, <1>3, <1>4, <1>5 DEF s

\* The hash and its checksum are one number, and both are found in it.
LEMMA AddressRoundTrip ==
  ASSUME NEW x \in Numbers
  PROVE  LET hash == x % BaseTo(HashWords)
             address == FromPublicKeyHash(hash)
         IN  VerifyAddress(address) /\ ToHash160(address) = hash
<1> DEFINE B == BaseTo(HashWords)
           hash == x % B
           c == Checksum[hash]
           value == hash * Base + c
           s == ToBase58(value)
<1>1. /\ HashWords \in Nat /\ NumWords \in Nat /\ HashWords + 1 \in Nat /\ NumWords - (HashWords + 1) \in Nat
      /\ HashWords <= 2 * NumWords /\ HashWords < 2 * NumWords
      /\ (HashWords + 1) + (NumWords - (HashWords + 1)) <= 2 * NumWords
      /\ (HashWords + 1) + (NumWords - (HashWords + 1)) = NumWords
      /\ NumWords - (HashWords + 1) <= 2 * NumWords
  BY EncodingAssumption, WidthIs, SMT
<1>2. B \in Nat \ {0} /\ Base \in Nat \ {0} /\ BaseTo(HashWords + 1) = Base * B
  BY <1>1, PowersOfBase
<1>3. Base * B <= M
  <2> DEFINE r == BaseTo(NumWords - (HashWords + 1))
  <2>1. r \in Nat \ {0}
    BY <1>1, PowersOfBase
  <2>2. BaseTo((HashWords + 1) + (NumWords - (HashWords + 1))) = BaseTo(HashWords + 1) * r
    BY <1>1, PowersOfBase
  <2>3. M = (Base * B) * r
    BY <1>1, <1>2, <2>2, NumberIs
  <2> HIDE DEF r, B
  <2> DEFINE z == Base * B
  <2>4. z \in Nat
    BY <1>2, SMT
  <2> HIDE DEF z
  <2>5. 1 \in Nat /\ 1 <= r /\ r \in Nat
    BY <2>1, SMT
  <2>6. z * 1 <= z * r
    BY <2>4, <2>5, ProductsGrow
  <2>7. z * 1 = z /\ z * r = M
    BY <2>3, <2>4, SMT DEF z
  <2> QED BY <2>6, <2>7 DEF z
<1>4. hash \in 0 .. B - 1
  <2>1. x \in Int
    BY NumberIs
  <2> HIDE DEF B
  <2> QED BY <1>2, <2>1, Reduced
<1>5. c \in 0 .. Base - 1
  BY <1>4, EncodingAssumption DEF Hashes
<1> HIDE DEF B, hash, c
<1>6. value \in Numbers
  <2> DEFINE h == hash * Base
             f == (B - 1) * Base
             w == Base * B
  <2>1. hash \in Nat /\ B - 1 \in Nat /\ hash <= B - 1 /\ Base \in Nat
    BY <1>2, <1>4, SMT
  <2>2. h <= f /\ h \in Nat
    BY <2>1, ProductsGrow
  <2>3. f = w - Base /\ f \in Int /\ w \in Int
    BY <1>2, SMT
  <2> HIDE DEF h, f, w
  <2>4. w <= M /\ M \in Nat
    BY <1>3, NumberIs DEF w
  <2>5. h + c \in Nat /\ h + c < M
    BY <1>2, <1>5, <2>2, <2>3, <2>4, SMT
  <2> QED BY <2>4, <2>5, SMT DEF h, Numbers
<1>7. value % Base = c /\ value \div Base = hash
  <2>1. hash \in Int /\ value \in Int
    BY <1>2, <1>4, <1>5, SMT
  <2> HIDE DEF value
  <2>2. value = hash * Base + c
    BY DEF value
  <2> QED BY <1>2, <1>5, <2>1, <2>2, RemainderOf
<1>8. hash % B = hash
  BY <1>2, <1>4, SmallRemainder
<1> HIDE DEF value
<1>9. HashPart(value) = hash
  BY <1>7, <1>8 DEF HashPart, B
<1>10. ToBigInt(s) = value /\ ToBigInt(<<0>> \o s) = value /\ Tail(<<0>> \o s) = s
  BY <1>6, DigitsRoundTrip
<1>11. FromPublicKeyHash(hash) = <<0>> \o s
  BY DEF FromPublicKeyHash, value, c
<1> HIDE DEF s
<1>12. VerifyAddress(<<0>> \o s) /\ ToHash160(<<0>> \o s) = hash
  BY <1>7, <1>9, <1>10 DEF VerifyAddress, IsBase58, ToHash160, c
<1> QED BY <1>11, <1>12 DEF hash, B

-----------------------------------------------------------------------------
(* Words of a hexadecimal text *)

HexWords == Seq(0 .. Base - 1)

LEMMA ToHexIs ==
  ASSUME NEW x \in Numbers
  PROVE  ToHex(x) \in HexWords /\ Len(ToHex(x)) = NumWords
<1> DEFINE w == ToWords(x, NumWords)
<1>1. w \in Digits(NumWords) /\ NumWords \in Nat
  BY NumbersAreWords, WidthIs
<1>2. ToHex(x) = [n \in 1 .. NumWords |-> w[NumWords - n]]
  BY DEF ToHex
<1> HIDE DEF w
<1>3. \A n \in 1 .. NumWords : w[NumWords - n] \in 0 .. Base - 1
  <2>1. ASSUME NEW n \in 1 .. NumWords
        PROVE  NumWords - n \in Words(NumWords)
    BY <1>1, SMT DEF Words
  <2> QED BY <1>1, <2>1 DEF Digits
<1>4. [n \in 1 .. NumWords |-> w[NumWords - n]] \in [1 .. NumWords -> 0 .. Base - 1]
  BY <1>3
<1> QED BY <1>1, <1>2, <1>4 DEF HexWords

LEMMA HexRoundTrip ==
  ASSUME NEW x \in Numbers
  PROVE  FromHex(ToHex(x)) = x
<1> DEFINE w == ToWords(x, NumWords)
           s == ToHex(x)
           a == [n \in Words(NumWords) |-> IF n < Len(s) THEN s[Len(s) - n] ELSE 0]
<1>1. w \in Digits(NumWords) /\ Value(w, NumWords) = x /\ NumWords \in Nat \ {0} /\ NumWords <= 2 * NumWords
  BY NumbersAreWords, WidthIs, NumberIs
<1>2. s = [n \in 1 .. NumWords |-> w[NumWords - n]] /\ Len(s) = NumWords
  BY ToHexIs DEF ToHex
<1> HIDE DEF w, s
<1>3. ASSUME NEW n \in 0 .. NumWords - 1
      PROVE  a[n] = w[n]
  <2>1. n < NumWords /\ NumWords - n \in 1 .. NumWords /\ NumWords - (NumWords - n) = n
        /\ n \in Words(NumWords)
    BY <1>1, SMT DEF Words
  <2>2. a[n] = s[NumWords - n]
    BY <1>2, <2>1
  <2> QED BY <1>2, <2>1, <2>2
<1> HIDE DEF a
<1>4. Value(a, NumWords) = Value(w, NumWords)
  <2>1. \A n \in 0 .. NumWords - 1 : a[n] \in Int /\ a[n] = w[n]
    BY <1>1, <1>3, DigitsAreIntegers
  <2> QED BY <1>1, <2>1, ValueOfPrefix
<1>5. s # <<>>
  <2>1. Len(s) # 0
    BY <1>1, <1>2
  <2> QED BY <2>1
<1>6. FromHex(s) = Value(a, NumWords)
  BY <1>5 DEF FromHex, a
<1> QED BY <1>1, <1>4, <1>6 DEF s

\* A compressed key: its sign and its x are found in the text.
LEMMA CompressedIs ==
  ASSUME NEW x \in Numbers, NEW sign \in {2, 3}
  PROVE  ParsePublicKey(<<sign>> \o ToHex(x)) = Existing(Point(x, GetY(x, sign)))
<1> DEFINE s == ToHex(x)
           t == <<sign>> \o s
           S == 0 .. Base - 1
<1>1. s \in Seq(S) /\ Len(s) = NumWords /\ FromHex(s) = x
  BY ToHexIs, HexRoundTrip DEF HexWords
<1>2. sign \in S /\ sign # 4
  BY RootAssumption, PowersOfBase, SMT
<1> HIDE DEF s, S
<1>3. Tail(t) = s /\ t[1] = sign /\ Len(t) = 1 + NumWords
  BY <1>1, <1>2, TailOfJoined
<1> HIDE DEF t
<1>4. ParseCompressed(t) = Existing(Point(x, GetY(x, sign)))
  BY <1>1, <1>3 DEF ParseCompressed
<1>5. ParsePublicKey(t) = ParseCompressed(t)
  BY <1>2, <1>3, Zenon DEF ParsePublicKey
<1> QED BY <1>4, <1>5 DEF t, s

\* An uncompressed key: behind the prefix are the words of x and of y.
LEMMA UncompressedIs ==
  ASSUME NEW x \in Numbers, NEW y \in Numbers
  PROVE  ParsePublicKey(<<4>> \o ToHex(x) \o ToHex(y)) = Existing(Point(x, y))
<1> DEFINE a == ToHex(x)
           b == ToHex(y)
           S == 0 .. Base - 1
           L == NumWords
           r == <<4>> \o a
           t == r \o b
           t1 == SubSeq(t, 2, 1 + L)
           t2 == SubSeq(t, 2 + L, Len(t))
<1>1. /\ a \in Seq(S) /\ Len(a) = L /\ FromHex(a) = x
      /\ b \in Seq(S) /\ Len(b) = L /\ FromHex(b) = y
  BY ToHexIs, HexRoundTrip DEF HexWords
<1>2. 4 \in S /\ L \in Nat \ {0}
  BY RootAssumption, PowersOfBase, WidthIs, SMT
<1> HIDE DEF a, b, S, L
<1>3. <<4>> \in Seq(S) /\ Len(<<4>>) = 1 /\ <<4>>[1] = 4
  BY <1>2, OneElement
<1>4. /\ r \in Seq(S) /\ Len(r) = 1 + L
      /\ \A n \in 1 .. 1 + L : r[n] = IF n <= 1 THEN <<4>>[n] ELSE a[n - 1]
  BY <1>1, <1>3, ConcatProperties
<1> HIDE DEF r
<1>5. /\ t \in Seq(S) /\ Len(t) = (1 + L) + L
      /\ \A n \in 1 .. (1 + L) + L : t[n] = IF n <= 1 + L THEN r[n] ELSE b[n - (1 + L)]
  <2>1. /\ t \in Seq(S) /\ Len(t) = Len(r) + Len(b)
        /\ \A n \in 1 .. Len(r) + Len(b) : t[n] = IF n <= Len(r) THEN r[n] ELSE b[n - Len(r)]
    BY <1>1, <1>4, ConcatProperties
  <2> HIDE DEF t
  <2> QED BY <1>1, <1>4, <2>1
<1> HIDE DEF t
<1>6. Len(t) = 1 + 2 * L /\ (1 + L) + L = 1 + 2 * L
  BY <1>2, <1>5, SMT
<1>7. t[1] = 4
  <2>1. 1 \in 1 .. (1 + L) + L /\ 1 <= 1 + L /\ 1 \in 1 .. 1 + L /\ 1 <= 1
    BY <1>2, SMT
  <2> QED BY <1>3, <1>4, <1>5, <2>1
<1>8. \A n \in 1 .. (1 + L) + L : t[n] \in S
  BY <1>5, ElementOfSeq
<1>9. t1 = a
  <2>1. 2 \in Int /\ 1 + L \in Int /\ \A n \in 2 .. 1 + L : n \in 1 .. (1 + L) + L
    BY <1>2, SMT
  <2>2. \A n \in 2 .. 1 + L : t[n] \in S
    BY <1>8, <2>1
  <2>3. /\ t1 \in Seq(S) /\ Len(t1) = IF 2 <= 1 + L THEN (1 + L) - 2 + 1 ELSE 0
        /\ \A n \in 1 .. (1 + L) - 2 + 1 : t1[n] = t[2 + n - 1]
    BY <2>1, <2>2, SubSeqProperties
  <2>4. 2 <= 1 + L /\ (1 + L) - 2 + 1 = L
    BY <1>2, SMT
  <2>5. Len(t1) = L /\ \A n \in 1 .. L : t1[n] = t[2 + n - 1]
    BY <2>3, <2>4
  <2> HIDE DEF t1
  <2>6. ASSUME NEW n \in 1 .. L
        PROVE  t1[n] = a[n]
    <3>1. /\ 2 + n - 1 = n + 1 /\ n + 1 \in 1 .. (1 + L) + L /\ n + 1 <= 1 + L /\ n + 1 \in 1 .. 1 + L
          /\ ~(n + 1 <= 1) /\ (n + 1) - 1 = n
      BY <1>2, SMT
    <3>2. t[n + 1] = r[n + 1] /\ r[n + 1] = a[(n + 1) - 1]
      BY <1>4, <1>5, <3>1
    <3> QED BY <2>5, <3>1, <3>2
  <2> QED BY <1>1, <2>3, <2>5, <2>6, SeqEqual
<1>10. t2 = b
  <2> DEFINE m == 2 + L
             e == Len(t)
  <2>1. m \in Int /\ e \in Int /\ \A n \in m .. e : n \in 1 .. (1 + L) + L
    BY <1>2, <1>5, SMT
  <2>2. \A n \in m .. e : t[n] \in S
    BY <1>8, <2>1
  <2>3. m <= e /\ e - m + 1 = L
    BY <1>2, <1>5, SMT
  <2> HIDE DEF m, e
  <2>4. /\ SubSeq(t, m, e) \in Seq(S) /\ Len(SubSeq(t, m, e)) = IF m <= e THEN e - m + 1 ELSE 0
        /\ \A n \in 1 .. e - m + 1 : SubSeq(t, m, e)[n] = t[m + n - 1]
    BY <2>1, <2>2, SubSeqProperties
  <2>5. t2 \in Seq(S) /\ Len(t2) = L /\ \A n \in 1 .. L : t2[n] = t[m + n - 1]
    BY <2>3, <2>4 DEF m, e
  <2> HIDE DEF t2
  <2>6. ASSUME NEW n \in 1 .. L
        PROVE  t2[n] = b[n]
    <3> DEFINE j == (1 + L) + n
    <3>1. m + n - 1 = j /\ j \in 1 .. (1 + L) + L /\ ~(j <= 1 + L) /\ j - (1 + L) = n
      BY <1>2, SMT DEF m
    <3> HIDE DEF j
    <3>2. t[j] = b[j - (1 + L)]
      BY <1>5, <3>1
    <3> QED BY <2>5, <3>1, <3>2
  <2> QED BY <1>1, <2>5, <2>6, SeqEqual
<1>11. ParsePublicKey(t) = ParseUncompressed(t)
  BY <1>7 DEF ParsePublicKey
<1>12. ParseUncompressed(t) = Existing(Point(FromHex(t1), FromHex(t2)))
  BY <1>6 DEF ParseUncompressed, L
<1> HIDE DEF t1, t2
<1>13. ParsePublicKey(t) = Existing(Point(x, y))
  BY <1>1, <1>9, <1>10, <1>11, <1>12
<1> QED BY <1>13 DEF t, r, a, b

\* A point is read back from its text in both formats.
LEMMA PublicKeyRoundTrip ==
  ASSUME NEW p \in CurvePoints, NEW compressed \in BOOLEAN
  PROVE  ParsePublicKey(PublicKeyText(p, compressed)) = p
<1>1. p.x \in Numbers /\ p.y \in Numbers /\ GetY(p.x, CompressionByte(p)) = p.y
  BY PointReadBack
<1>2. Point(p.x, p.y) = p
  BY PointIs DEF Point
<1>3. Existing(p) = p
  BY ExistsIs DEF Existing
<1>4. CASE compressed
  <2>1. CompressionByte(p) \in {2, 3}
    BY DEF CompressionByte
  <2>2. PublicKeyText(p, compressed) = <<CompressionByte(p)>> \o ToHex(p.x)
    BY <1>4 DEF PublicKeyText
  <2>3. ParsePublicKey(<<CompressionByte(p)>> \o ToHex(p.x))
          = Existing(Point(p.x, GetY(p.x, CompressionByte(p))))
    BY <1>1, <2>1, CompressedIs
  <2> QED BY <1>1, <1>2, <1>3, <2>2, <2>3
<1>5. CASE ~compressed
  <2>1. PublicKeyText(p, compressed) = <<4>> \o ToHex(p.x) \o ToHex(p.y)
    BY <1>5 DEF PublicKeyText
  <2>2. ParsePublicKey(<<4>> \o ToHex(p.x) \o ToHex(p.y)) = Existing(Point(p.x, p.y))
    BY <1>1, UncompressedIs
  <2> QED BY <1>2, <1>3, <2>1, <2>2
<1> QED BY <1>4, <1>5

\* An x and a sign: the point with them, or a refusal when there is none.
LEMMA SignedXRoundTrip ==
  ASSUME NEW x \in Numbers, NEW sign \in {2, 3}
  PROVE  LET parsed == ParsePublicKey(<<sign>> \o ToHex(x))
         IN  IF \E n \in 1 .. N - 1 : Multiple(n).x = x % P
             THEN PointExists(parsed) /\ parsed.x = x /\ CompressionByte(parsed) = sign
             ELSE parsed = Invalid
<1> DEFINE parsed == ParsePublicKey(<<sign>> \o ToHex(x))
           q == Point(x, GetY(x, sign))
           Some == \E n \in 1 .. N - 1 : Multiple(n).x = x % P
<1>1. parsed = Existing(q)
  BY CompressedIs
<1>2. (PointExists(q) <=> Some) /\ q.x = x /\ CompressionByte(q) = sign
  BY PointOfXThm
<1> HIDE DEF parsed, q, Some
<1>3. IF Some THEN PointExists(parsed) /\ parsed.x = x /\ CompressionByte(parsed) = sign
      ELSE parsed = Invalid
  BY <1>1, <1>2 DEF Existing
<1> QED BY <1>3 DEF parsed, Some

-----------------------------------------------------------------------------
(* Texts *)

\* What is written is read back, in every state and for every number: decimal,
\* hexadecimal and base 58 digits, addresses, points in both formats; what is
\* hashed is the key, padded; and a text of a point not on the curve is refused.
THEOREM TextsRoundTripThm == Spec => []TextsRoundTrip
<1>1. CallInv => TextsRoundTrip
  <2> SUFFICES ASSUME CallInv, call = "operator"
               PROVE  /\ MessagesArePadded
                      /\ FromText(ToText(number)) = number
                      /\ FromHex(ToHex(number)) = number
                      /\ ToBigInt(ToBase58(number)) = number
                      /\ LET hash == number % BaseTo(HashWords)
                             address == FromPublicKeyHash(hash)
                         IN  VerifyAddress(address) /\ ToHash160(address) = hash
                      /\ number % N # 0 => \A compressed \in BOOLEAN :
                           LET p == Multiple(number) IN ParsePublicKey(PublicKeyText(p, compressed)) = p
                      /\ \A sign \in {2, 3} :
                           LET parsed == ParsePublicKey(<<sign>> \o ToHex(number))
                           IN  IF \E n \in 1 .. N - 1 : Multiple(n).x = number % P
                               THEN PointExists(parsed) /\ parsed.x = number /\ CompressionByte(parsed) = sign
                               ELSE parsed = Invalid
    BY DEF TextsRoundTrip
  <2>1. number \in Numbers /\ number \in Nat
    BY NumberIs DEF CallInv
  <2>2. FromText(ToText(number)) = number /\ ToBigInt(ToBase58(number)) = number
    BY <2>1, DigitsRoundTrip
  <2>3. FromHex(ToHex(number)) = number
    BY <2>1, HexRoundTrip
  <2>4. LET hash == number % BaseTo(HashWords)
            address == FromPublicKeyHash(hash)
        IN  VerifyAddress(address) /\ ToHash160(address) = hash
    BY <2>1, AddressRoundTrip
  <2>5. ASSUME number % N # 0, NEW compressed \in BOOLEAN
        PROVE  LET p == Multiple(number) IN ParsePublicKey(PublicKeyText(p, compressed)) = p
    <3>1. Multiple(number) \in CurvePoints
      BY <2>1, <2>5, MultipleIs
    <3> QED BY <3>1, PublicKeyRoundTrip
  <2>6. ASSUME NEW sign \in {2, 3}
        PROVE  LET parsed == ParsePublicKey(<<sign>> \o ToHex(number))
               IN  IF \E n \in 1 .. N - 1 : Multiple(n).x = number % P
                   THEN PointExists(parsed) /\ parsed.x = number /\ CompressionByte(parsed) = sign
                   ELSE parsed = Invalid
    BY <2>1, SignedXRoundTrip
  <2> QED BY <2>2, <2>3, <2>4, <2>5, <2>6, MessagesArePaddedThm
<1> QED BY <1>1, CallInvariant, PTL
=============================================================================
