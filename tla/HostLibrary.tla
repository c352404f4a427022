------------------------------ MODULE HostLibrary -----------------------------
(***************************************************************************)
(* The host library as its callers see it: one call at a time, of invModP, *)
(* multiplyPoint or generateKeyPairsBulk step by step, or of an operator   *)
(* that returns at once for a number; or the set-up of devices on the same *)
(* curve, one after the other.                                             *)
(***************************************************************************)
EXTENDS Encodings, ModInverse, KeyHashing, DeviceSetup

CONSTANTS
  Bases,        \* the multiples of G that multiplyPoint is called with
  KeyLists,     \* the lists of keys that generateKeyPairsBulk is called with
  Samples       \* second operands of the operators on words

ASSUME CallAssumption ==
  /\ \A m \in Bases : m \in Nat /\ m % N # 0
  /\ \A keys \in KeyLists : keys \in Seq(Numbers)
  /\ Samples \subseteq Numbers

VARIABLES
  call,         \* the function that is called
  number        \* the argument of an operator

vars == <<call, number, inverseVars, multiplyVars, bulkVars, deviceVars>>

-----------------------------------------------------------------------------
(* Reference definitions *)

\* The group of the curve by its textbook law.
Slope(p, q) == IF p = q THEN (3 * p.x * p.x) * InvModP(2 * p.y)
                        ELSE (p.y - q.y) * InvModP(p.x - q.x)
GroupSum(p, q) ==
  IF p = PointAtInfinity THEN q
  ELSE IF q = PointAtInfinity THEN p
  ELSE IF p.x = q.x /\ (p.y + q.y) % P = 0 THEN PointAtInfinity
  ELSE LET s == Slope(p, q) % P
           x == (s * s - p.x - q.x) % P
       IN  Point(x, (s * (p.x - x) - p.y) % P)

CurvePoints == {p \in [x : 0 .. P - 1, y : 1 .. P - 1] :
                  (p.y * p.y) % P = (p.x * p.x * p.x + CurveB) % P}

\* 0 * G, 1 * G, ... (N - 1) * G.
MultiplesOfG ==
  LET multiple[n \in 0 .. N - 1] ==
        IF n = 0 THEN PointAtInfinity
        ELSE LET half == multiple[n \div 2]
                 even == GroupSum(half, half)
             IN  IF n % 2 = 0 THEN even ELSE GroupSum(even, G)
  IN  [n \in 0 .. N - 1 |-> multiple[n]]
Multiple(n) == MultiplesOfG[n % N]

\* P is a prime, and the multiples of G are a group of N points.
ASSUME FieldAssumption == \A x \in 1 .. P - 1 : \E y \in 1 .. P - 1 : (x * y) % P = 1
ASSUME GroupAssumption ==
  /\ Multiple(0) = PointAtInfinity /\ Multiple(1) = G
  /\ \A n \in 1 .. N - 1 : Multiple(n) \in CurvePoints
  /\ \A m, n \in 0 .. N - 1 : GroupSum(Multiple(m), Multiple(n)) = Multiple(m + n)
\* They are all of the curve, and no point has the y zero: N is odd.
ASSUME CofactorAssumption ==
  \A x, y \in 0 .. P - 1 : (y * y) % P = (x * x * x + CurveB) % P =>
    \E n \in 1 .. N - 1 : Multiple(n) = Point(x, y)

-----------------------------------------------------------------------------
InverseIdle == argument = 1 /\ u = 1 /\ v = P /\ x1 = 1 /\ s1 = 0 /\ x2 = 0 /\ s2 = 0
                 /\ inverse = "done"
MultiplyIdle == k = 0 /\ base = G /\ sum = PointAtInfinity /\ d = G /\ i = 0
BulkIdle == privKeys = <<>> /\ pubKeys = <<>> /\ bulkBit = Bits /\ bulk = "run"

CallInvModP ==
  /\ call = "invModP" /\ number = 0
  /\ \E x \in Numbers : InverseInit(x)
  /\ MultiplyIdle /\ BulkIdle /\ DeviceInit
CallMultiplyPoint ==
  /\ call = "multiplyPoint" /\ number = 0
  /\ \E key \in Numbers, m \in Bases : MultiplyInit(key, Multiple(m))
  /\ InverseIdle /\ BulkIdle /\ DeviceInit
CallBulk ==
  /\ call = "generateKeyPairsBulk" /\ number = 0
  /\ \E keys \in KeyLists : BulkInit(keys)
  /\ InverseIdle /\ MultiplyIdle /\ DeviceInit
CallOperator ==
  /\ call = "operator" /\ number \in Numbers
  /\ InverseIdle /\ MultiplyIdle /\ BulkIdle /\ DeviceInit
CallDevice ==
  /\ call = "device" /\ number = 0
  /\ InverseIdle /\ MultiplyIdle /\ BulkIdle /\ DeviceInit

Init == CallInvModP \/ CallMultiplyPoint \/ CallBulk \/ CallOperator \/ CallDevice

InvertModP ==
  call = "invModP" /\ InverseNext
    /\ UNCHANGED <<call, number, multiplyVars, bulkVars, deviceVars>>
MultiplyPoint ==
  call = "multiplyPoint" /\ MultiplyStep
    /\ UNCHANGED <<call, number, inverseVars, bulkVars, deviceVars>>
GenerateKeyPairsBulk ==
  call = "generateKeyPairsBulk" /\ BulkStep
    /\ UNCHANGED <<call, number, inverseVars, multiplyVars, deviceVars>>
SetUpDevices ==
  call = "device" /\ SetUpDevice
    /\ UNCHANGED <<call, number, inverseVars, multiplyVars, bulkVars>>

Next == InvertModP \/ MultiplyPoint \/ GenerateKeyPairsBulk \/ SetUpDevices

Spec == Init /\ [][Next]_vars

\* The loop runs on its own: nothing else is needed for a step.
FairSpec == Spec /\ WF_vars(InvertModP)

-----------------------------------------------------------------------------
(* Properties *)

\* The loops over words compute what their names say on numbers: no carry,
\* borrow or high word is lost.
WordsAreNumbers(a) ==
  LET L == NumWords
      x == ToWords(a, L)
  IN  /\ Value(x, L) = a
      /\ Value(Neg(x), L) = (-a) % M
      /\ Value(DivBy2(x), L) = a \div 2
      /\ \A n \in 1 .. WordBits - 1 : Value(RightShift(x, n), L) = a \div TwoTo[n]
      /\ \A n \in 0 .. Bits : Value(FillBits(n), L) = TwoTo[n % Bits] - 1
      /\ \A n \in 0 .. 2 : Pow(a, n + 1) = (a * Pow(a, n)) % M
      /\ IsNeg(x) = (a >= M \div 2)
      /\ FromBigEndian(ExportBigEndian(x, L)) = x
      /\ \A n \in 0 .. Bits - 1 : Bit(x, n) = ((a \div TwoTo[n]) % 2 = 1)
      /\ \A n \in 0 .. Bits - 1, b \in BOOLEAN : Bit(SetBit(x, n, b), n) = b
      /\ \A val \in 1 .. Base - 1 : Div(a, val) = a \div val /\ Mod(a, val) = a % val
      /\ \A b \in Samples :
           LET y == ToWords(b, L)
           IN  /\ Value(AddWords(x, y, L).words, L) + M * AddWords(x, y, L).carry = a + b
               /\ Value(SubWords(x, y, L).words, L) = a - b + M * SubWords(x, y, L).carry
               /\ Value(MultiplyWords(x, L, y, L), 2 * L) = a * b
               /\ GreaterThanEqualTo(x, y, L) = (a >= b) /\ LessThanEqualTo(x, y, L) = (a <= b)

\* The operations modulo P and N are exact on reduced operands, at every carry.
FieldIsExact(a) ==
  /\ a < P => AddModP(a, NegModP(a)) = 0
  /\ a < N => AddMod(a, NegModN(a), N) = 0
  /\ a < P => \A b \in 0 .. P - 1 :
       /\ AddModP(a, b) = (a + b) % P
       /\ SubModP(a, b) = (a - b) % P
       /\ MultiplyModP(a, b) = (a * b) % P
  /\ a < N => \A b \in 0 .. N - 1 :
       /\ AddMod(a, b, N) = (a + b) % N
       /\ MultiplyModN(a, b) = (a * b) % N

\* Arithmetic on words and modulo P and N agrees with the integers (the
\* carries and the reductions of secp256k1.cpp).
ArithmeticIsExact ==
  call = "operator" => WordsAreNumbers(number) /\ FieldIsExact(number)

\* invModP keeps its two congruences through every shift, carry and borrow,
\* and what it returns is an inverse (secp256k1.cpp:390-499).
InverseIsExact ==
  call = "invModP" =>
    /\ InverseTypeOK
    /\ (argument * (x1 + s1 * M) - u) % P = 0
    /\ (argument * (x2 + s2 * M) - v) % P = 0
    /\ InverseIsInverse

\* invModP returns a reduced number, unless its argument is a multiple of P.
InverseEnds == (call = "invModP" /\ argument % P # 0) ~> (inverse = "done" /\ Output < P)

\* Bit by bit, a key's point is that multiple of the base point, alone
\* (multiplyPoint) and in a list (generateKeyPairsBulk), for keys below and
\* above the group order; a list with the key N never ends and no other.
KeysAreMultiples ==
  /\ call = "operator" /\ number % N # 0 =>
       LET p == Multiple(number)
       IN  PointExists(p) /\ AddPoints(p, NegPoint(p)) = PointAtInfinity
           /\ AddPoints(p, p) = Multiple(2 * number) /\ AddPoints(p, PointAtInfinity) = p
  /\ call = "multiplyPoint" => \E m \in Bases :
       /\ base = Multiple(m)
       /\ sum = Multiple(m * (k % TwoTo[i]))
       /\ d = Multiple(m * TwoTo[i])
       /\ i = KeyBits(k) => sum = Multiple(m * k)
  /\ call = "generateKeyPairsBulk" =>
       /\ \A j \in DOMAIN privKeys : pubKeys[j] = Multiple(privKeys[j] % TwoTo[bulkBit])
       /\ bulk # "throw"
       /\ bulk = "hang" => \E j \in DOMAIN privKeys : privKeys[j] = N

\* The kernels move the points of a device as PointKernels says, through every
\* batch, doubled point and stride; garbage apart.
PointsAreKeys ==
  \A j \in Indices :
    setup = "points" \/ keyOf[j] # K(1)!Garbage => points[j] = Multiple(keyOf[j])

\* A tuner holds the fastest configuration it has called, whatever the times
\* and the number of calls; the kernels of a device that is ready are called
\* with what the settings hold, and those are configurations of the lists.
GridsAreBest ==
  /\ setup = "tune" /\ tuner.time # NoTime =>
       /\ least[tuner.best] = tuner.time
       /\ \A n \in DOMAIN least : least[n] # NoTime => least[n] >= tuner.time
       /\ tuner.idx > NumConfigs =>
            (\A n \in DOMAIN least : least[n] # NoTime) /\ config[tuner.kernel] = TunerConfig(tuner.best)
  /\ setup = "ready" => \A name \in {"increment", "double", HashKernel} :
       config[name] = settings[name] /\ \E n \in DOMAIN least : settings[name] = TunerConfig(n)

\* A device whose init returns is ready for its item: every one of its points,
\* not only those that are checked, is at its key of the first step, however
\* tuning has moved them (btc_pub_key_hash_gpu.cpp:47-118).
DeviceIsSetUp ==
  /\ PointsAreKeys
  /\ GridsAreBest
  /\ setup = "ready" => \A j \in Indices : points[j] = Multiple(work.first + j)

\* What is written is read back: numbers, points in both formats, addresses;
\* a text of a point that is not on the curve is refused; and what is hashed
\* on the way to an address is the key, padded.
TextsRoundTrip ==
  call = "operator" =>
    /\ MessagesArePadded
    /\ FromText(ToText(number)) = number
    /\ FromHex(ToHex(number)) = number
    /\ ToBigInt(ToBase58(number)) = number
    /\ LET hash == number % BaseTo(HashWords)
           address == FromPublicKeyHash(hash)
       IN  VerifyAddress(address) /\ ToHash160(address) = hash
    /\ number % N # 0 => \A compressed \in BOOLEAN :
         LET p == Multiple(number) IN ParsePublicKey(PublicKeyText(p, compressed)) = p
    /\ \A sign \in {2, 3} :
         LET parsed == ParsePublicKey(<<sign>> \o ToHex(number))
         IN  IF \E n \in 1 .. N - 1 : Multiple(n).x = number % P
             THEN PointExists(parsed) /\ parsed.x = number /\ CompressionByte(parsed) = sign
             ELSE parsed = Invalid
=============================================================================
