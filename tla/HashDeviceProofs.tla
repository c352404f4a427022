--------------------------- MODULE HashDeviceProofs ----------------------------
(***************************************************************************)
(* Theorems about HashDevice for every number of points, every grid of the *)
(* kernels and every range of keys.                                        *)
(***************************************************************************)
EXTENDS HashDevice, TLAPS

\* The statements of a step from the hash kernel's call to _key_current's
\* increment, and those after the flag was read.
Stepping == thread \in {"readFlag", "setDone", "setKey", "advance"}
FlagRead == thread \in {"setDone", "setKey", "advance", "checkEnd", "loop", "end"}

\* The key of the first point, if no point stays behind.
Base == IF Stepping THEN keyCurrent + NumPoints ELSE keyCurrent

\* A step starts inside the range and only after a whole number of steps.
InRange ==
  /\ first <= last
  /\ thread = "kernels" \/ Stepping => keyCurrent <= last
  /\ thread = "loop" /\ ~done => keyCurrent <= last
  /\ keyCurrent = first \/ keyCurrent >= first + NumPoints
  /\ thread = "none" => keyCurrent = first
  /\ thread = "none" <=> worker \in {"tuneSingle", "tuneDouble", "tuneHash"}
  /\ thread = "none" => tuned

\* The statements of each thread, and what they know of the other's.
Order ==
  /\ found /\ thread # "setDone" => done
  /\ found => flag
  /\ FlagRead /\ flag => found
  /\ thread \in {"setDone", "setKey"} => flag
  /\ worker = "joined" => thread = "end"
  /\ item.status # "running" => worker = "returned"
  /\ item.status = "aborted" => thread = "end" /\ ~done
  /\ target \in tested => flag

\* A point is garbage, or it is where the step puts it, or it stays behind
\* and was tested.
PointsOK ==
  \A i \in Indices :
    \/ points[i] = Garbage
    \/ points[i] = Base + i
    \/ /\ i < dims.single
       /\ points[i] \in tested
       /\ Stepping \/ keyCurrent # first

\* The flag goes up in the step that hashes the target, and the thread ends
\* with that step.
FlagOK ==
  /\ thread = "kernels" => ~flag
  /\ flag /\ Stepping => keyCurrent + idx = target
  /\ flag /\ thread \in {"advance", "checkEnd", "loop", "end"} =>
       privateKey = target /\ done

\* Where a search stands, if no point lags and no batch has a difference of
\* zero: every point is at its key or one that stays behind and never equals
\* the incrementor, and the keys left out are of the first strides.
LeftOut(k) == k >= first + NumPoints /\ (k - first) % NumPoints < dims.single

Behind(i) ==
  /\ i < dims.single
  /\ Stepping \/ keyCurrent # first
  /\ points[i] > NumPoints \/ points[i] \in first .. first + dims.double - 1

ScheduleOK ==
  /\ \A i \in Indices : points[i] = Base + i \/ Behind(i)
  /\ \A k \in first .. Base - 1 : k \in tested \/ LeftOut(k)
  /\ \E n \in Nat : keyCurrent = first + n * NumPoints

IInv ==
  /\ TypeOK
  /\ InRange
  /\ Order
  /\ ~tuned /\ NoLag => PointsOK /\ FlagOK
  /\ thread # "none" /\ NoLag /\ NoZeroDifference => ScheduleOK

-----------------------------------------------------------------------------
(* The kernels *)

\* init_public_keys sets point i to key start + i.
LEMMA InitPoints ==
  ASSUME NEW start \in Nat
  PROVE  /\ InitPublicKeys(start) \in [Indices -> Nat]
         /\ \A i \in Indices : InitPublicKeys(start)[i] = start + i
BY NumPointsAssumption DEF InitPublicKeys, Indices

\* What a call of increment_keys does to a point: it leaves the first stride
\* alone and adds the incrementor's key to the others, or spoils them
\* (secp256k1.cl:999-1010).
LEMMA SinglePoints ==
  ASSUME NEW p \in [Indices -> Nat], NEW dim \in Nat
  PROVE  /\ IncrementKeys(p, dim) \in [Indices -> Nat]
         /\ \A i \in Indices :
              /\ i < dim => IncrementKeys(p, dim)[i] = p[i]
              /\ ~(i < dim) => \/ IncrementKeys(p, dim)[i] = Garbage
                               \/ p[i] # Garbage /\ IncrementKeys(p, dim)[i] = p[i] + NumPoints
<1> DEFINE zero(i) == ZeroDifference(p, i, dim)
<1>1. IncrementKeys(p, dim) =
        [i \in Indices |-> IF i < dim THEN p[i]
                           ELSE IF p[i] = Garbage \/ zero(i) THEN Garbage
                           ELSE p[i] + NumPoints]
  BY DEF IncrementKeys
<1> HIDE DEF zero
<1> QED BY <1>1, NumPointsAssumption DEF Garbage

\* The same for increment_keys_with_double (secp256k1.cl:1046-1053).
LEMMA DoublePoints ==
  ASSUME NEW p \in [Indices -> Nat], NEW dim \in Nat
  PROVE  /\ IncrementKeysWithDouble(p, dim) \in [Indices -> Nat]
         /\ \A i \in Indices :
              /\ i < dim => IncrementKeysWithDouble(p, dim)[i] = p[i]
              /\ ~(i < dim) => \/ IncrementKeysWithDouble(p, dim)[i] = Garbage
                               \/ IncrementKeysWithDouble(p, dim)[i] = p[i] + NumPoints
BY NumPointsAssumption DEF IncrementKeysWithDouble, Garbage

\* The hash kernel raises the flag for a point that is the target's, whose
\* index it gives, or leaves both alone when there is none.
LEMMA HashResult ==
  ASSUME NEW p, HashKeys(p)
  PROVE  \/ /\ flag' = TRUE /\ idx' \in Indices
            /\ p[idx'] = target
         \/ /\ flag' = flag /\ idx' = idx
            /\ \A i \in Indices : p[i] # target
BY DEF HashKeys, Matches

-----------------------------------------------------------------------------
(* The invariant *)

LEMMA InitInv == Init => IInv
<1> SUFFICES ASSUME Init PROVE IInv
  OBVIOUS
<1> USE NumPointsAssumption, DimsAssumption, BoundsAssumption
<1>1. first \in Nat /\ last \in Nat /\ first <= last
  BY DEF Init, Keys
<1>2. /\ points \in [Indices -> Nat]
      /\ \A i \in Indices : points[i] = first + i
  BY <1>1, InitPoints DEF Init
<1>3. TypeOK
  <2>1. /\ keyCurrent \in first .. last + NumPoints
        /\ privateKey \in {NoKey} \cup first .. last + NumPoints
        /\ item \in [status : {"running", "completed", "aborted"},
                     key : {NoKey} \cup first .. last + NumPoints, found : BOOLEAN]
    BY <1>1 DEF Init
  <2>2. first \in Keys /\ last \in Keys /\ target \in Keys
    BY <1>1 DEF Init, Keys
  <2>3. idx \in Indices /\ calls \in 0 .. MaxCalls
    BY DEF Init, Indices
  <2> QED BY <1>2, <2>1, <2>2, <2>3 DEF TypeOK, Init
<1>4. InRange
  BY <1>1 DEF InRange, Init, Stepping
<1>5. Order
  BY DEF Order, Init, FlagRead
<1>6. PointsOK
  BY <1>2 DEF PointsOK, Init, Base, Stepping
<1>7. FlagOK
  BY DEF FlagOK, Init, Stepping
<1>8. ScheduleOK
  <2>1. \E n \in Nat : keyCurrent = first + n * NumPoints
    <3>1. keyCurrent = first + 0 * NumPoints
      BY <1>1 DEF Init
    <3> QED BY <3>1
  <2> QED BY <1>1, <1>2, <2>1 DEF ScheduleOK, Init, Base, Stepping
<1> QED BY <1>3, <1>4, <1>5, <1>6, <1>7, <1>8 DEF IInv

\* The numbers of a state.
LEMMA Numbers ==
  ASSUME TypeOK
  PROVE  /\ first \in Nat \ {0} /\ last \in Nat /\ target \in Nat \ {0}
         /\ keyCurrent \in Nat /\ keyCurrent >= first /\ idx \in Nat
         /\ dims.single \in Nat /\ dims.double \in Nat
<1> USE NumPointsAssumption, DimsAssumption, BoundsAssumption DEF TypeOK
<1>1. first \in Nat \ {0} /\ last \in Nat /\ target \in Nat \ {0}
  BY DEF Keys
<1>2. keyCurrent \in Nat /\ keyCurrent >= first
  BY <1>1
<1>3. idx \in Nat
  BY DEF Indices
<1>4. dims.single \in Dims /\ dims.double \in Dims
  BY Zenon
<1> QED BY <1>1, <1>2, <1>3, <1>4

\* The bounds of the keys and the points hold after every step: a step starts
\* at a key of the range, so that _key_current and the key it reports end at
\* most NumPoints behind it (BTCPubKeyHashGPU.cpp).
LEMMA TypeStep ==
  ASSUME TypeOK, InRange, [Next]_vars
  PROVE  TypeOK'
<1> USE NumPointsAssumption, DimsAssumption, BoundsAssumption
<1> USE DEF TypeOK, memory, results
<1>1. first \in Nat /\ last \in Nat /\ dims.single \in Nat /\ dims.double \in Nat
  BY Numbers
<1>2. ASSUME HashKeys(points)
      PROVE  flag' \in BOOLEAN /\ idx' \in Indices
  BY <1>2, HashResult
<1>3. CASE UNCHANGED vars
  BY <1>3 DEF vars, task
<1>4. CASE TuneSingle
  <2>1. points' \in [Indices -> Nat]
    BY <1>4, SinglePoints DEF TuneSingle
  <2>2. dims' \in [single : Dims, double : Dims] /\ calls' \in 0 .. MaxCalls
    BY <1>4 DEF TuneSingle
  <2> QED BY <1>4, <2>1, <2>2 DEF TuneSingle, task
<1>5. CASE TuneDouble
  <2>1. points' \in [Indices -> Nat]
    BY <1>5, DoublePoints DEF TuneDouble
  <2>2. dims' \in [single : Dims, double : Dims] /\ calls' \in 0 .. MaxCalls
    BY <1>5 DEF TuneDouble
  <2> QED BY <1>5, <2>1, <2>2 DEF TuneDouble, task
<1>6. CASE TuneHash
  <2>1. points' \in [Indices -> Nat]
    BY <1>1, <1>6, InitPoints DEF TuneHash
  <2> QED BY <1>2, <1>6, <2>1 DEF TuneHash, task
<1>7. CASE RunKernels
  <2>1. points' \in [Indices -> Nat]
    BY <1>1, <1>7, SinglePoints, DoublePoints DEF RunKernels
  <2>2. tested' \subseteq Nat
    BY <1>7 DEF RunKernels
  <2> QED BY <1>2, <1>7, <2>1, <2>2 DEF RunKernels, task
<1>8. CASE ReadFlag \/ SetDone \/ CheckEnd \/ Loop
  <2>1. found' \in BOOLEAN /\ done' \in BOOLEAN /\ running' \in BOOLEAN
    BY <1>8, Zenon DEF ReadFlag, SetDone, CheckEnd, Loop
  <2>2. thread' \in {"kernels", "setDone", "setKey", "advance", "loop", "end"}
    BY <1>8 DEF ReadFlag, SetDone, CheckEnd, Loop
  <2>3. UNCHANGED <<task, memory, dims, keyCurrent, privateKey, worker, programRunning,
                    item, tuned, tested, calls>>
    BY <1>8 DEF ReadFlag, SetDone, CheckEnd, Loop
  <2> QED BY <2>1, <2>2, <2>3 DEF task
<1>9. CASE SetKey
  <2>1. privateKey' \in first .. last + NumPoints
    BY <1>1, <1>9 DEF SetKey, InRange, Stepping, Indices
  <2> QED BY <1>9, <2>1 DEF SetKey, task
<1>10. CASE Advance
  <2>1. keyCurrent' \in first .. last + NumPoints
    BY <1>1, <1>10 DEF Advance, InRange, Stepping
  <2> QED BY <1>10, <2>1 DEF Advance, task
<1>11. CASE Poll \/ ReportStopped
  <2>1. item' \in [status : {"running", "completed", "aborted"},
                   key : {NoKey} \cup first .. last + NumPoints, found : BOOLEAN]
    <3>1. CASE item' = item
      BY <3>1
    <3>2. CASE item' = [status |-> "completed", found |-> found,
                        key |-> IF found THEN privateKey ELSE NoKey]
      BY <3>2
    <3>3. CASE item' = [status |-> "aborted", found |-> FALSE, key |-> NoKey]
      BY <3>3
    <3> QED BY <1>11, <3>1, <3>2, <3>3 DEF Poll, ReportStopped, Report
  <2>2. worker' \in {"returned", "slept"}
    BY <1>11 DEF Poll, ReportStopped, Report
  <2>3. UNCHANGED <<task, memory, dims, keyCurrent, results, running, thread,
                    programRunning, tuned, tested, calls>>
    BY <1>11 DEF Poll, ReportStopped, Report
  <2> QED BY <2>1, <2>2, <2>3 DEF task
<1>12. CASE CheckRunning \/ Join \/ Shutdown
  <2>1. worker' \in {"poll", "slept", "join", "joined", worker}
    BY <1>12 DEF CheckRunning, Join, Shutdown
  <2>2. running' \in BOOLEAN /\ programRunning' \in BOOLEAN
    BY <1>12 DEF CheckRunning, Join, Shutdown
  <2>3. UNCHANGED <<task, memory, dims, keyCurrent, results, thread, item, tuned, tested,
                    calls>>
    BY <1>12 DEF CheckRunning, Join, Shutdown
  <2> QED BY <2>1, <2>2, <2>3 DEF task
<1> QED BY <1>3, <1>4, <1>5, <1>6, <1>7, <1>8, <1>9, <1>10, <1>11, <1>12
        DEF Next, Step, Work

\* The device's thread starts a step only inside the range, and only once the
\* worker has tuned the kernels.
LEMMA InRangeStep ==
  ASSUME TypeOK, InRange, Order, [Next]_vars
  PROVE  InRange'
<1> USE NumPointsAssumption
<1> USE DEF InRange, Stepping, memory, results, task
<1>1. first \in Nat /\ last \in Nat /\ keyCurrent \in Nat /\ keyCurrent >= first
  BY Numbers
<1>2. CASE UNCHANGED vars
  BY <1>2 DEF vars
<1>3. CASE TuneSingle \/ TuneDouble
  BY <1>3 DEF TuneSingle, TuneDouble
<1>4. CASE TuneHash
  BY <1>1, <1>4 DEF TuneHash
<1>5. CASE RunKernels \/ ReadFlag \/ SetDone \/ SetKey
  BY <1>5 DEF RunKernels, ReadFlag, SetDone, SetKey
<1>6. CASE Advance
  BY <1>1, <1>6 DEF Advance
<1>7. CASE CheckEnd
  <2>1. ~done' => ~(keyCurrent > last)
    BY <1>7, Zenon DEF CheckEnd
  <2>2. UNCHANGED <<first, last, keyCurrent, worker, tuned>> /\ thread' = "loop"
    BY <1>7 DEF CheckEnd
  <2> QED BY <1>1, <1>7, <2>1, <2>2 DEF CheckEnd
<1>8. CASE Loop
  <2>1. thread' = "kernels" => ~done
    BY <1>8, Zenon DEF Loop
  <2>2. thread' \in {"kernels", "end"}
    BY <1>8 DEF Loop
  <2>3. UNCHANGED <<first, last, keyCurrent, done, worker, tuned>>
    BY <1>8 DEF Loop
  <2> QED BY <1>1, <1>8, <2>1, <2>2, <2>3 DEF Loop
<1>9. CASE Poll \/ CheckRunning \/ Join \/ ReportStopped \/ Shutdown
  BY <1>9 DEF Poll, Report, CheckRunning, Join, ReportStopped, Shutdown
<1> QED BY <1>2, <1>3, <1>4, <1>5, <1>6, <1>7, <1>8, <1>9 DEF Next, Step, Work

\* Flags only go up, and in the order flag, _found, _done; an item comes back
\* only from a thread that has ended or is done.
LEMMA OrderStep ==
  ASSUME TypeOK, InRange, Order, [Next]_vars
  PROVE  Order'
<1> USE DEF Order, FlagRead, results, memory, task
<1>1. CASE UNCHANGED vars
  BY <1>1 DEF vars
<1>2. CASE TuneSingle \/ TuneDouble
  BY <1>2 DEF TuneSingle, TuneDouble
<1>3. ASSUME HashKeys(points)
      PROVE  /\ flag => flag'
             /\ target \in {points[i] : i \in Indices} => flag'
  BY <1>3, HashResult
<1>4. CASE TuneHash
  BY <1>3, <1>4 DEF TuneHash, InRange
<1>5. CASE RunKernels
  BY <1>3, <1>5 DEF RunKernels
<1>6. CASE ReadFlag
  <2>1. found' <=> found \/ flag
    BY <1>6, Zenon DEF ReadFlag
  <2>2. flag => thread' = "setDone"
    BY <1>6 DEF ReadFlag
  <2>3. ~flag => thread' = "advance"
    BY <1>6 DEF ReadFlag
  <2> QED BY <1>6, <2>1, <2>2, <2>3 DEF ReadFlag
<1>7. CASE SetDone \/ SetKey \/ Advance
  BY <1>7 DEF SetDone, SetKey, Advance
<1>8. CASE CheckEnd
  <2>1. done => done'
    BY <1>8, Zenon DEF CheckEnd
  <2> QED BY <1>8, <2>1 DEF CheckEnd
<1>9. CASE Loop
  <2>1. thread' \in {"kernels", "end"}
    BY <1>9 DEF Loop
  <2> QED BY <1>9, <2>1 DEF Loop
<1>10. CASE Poll \/ ReportStopped
  <2>1. item'.status = "aborted" => item' = item \/ (~done /\ thread = "end")
    BY <1>10 DEF Poll, ReportStopped, Report
  <2> QED BY <1>10, <2>1 DEF Poll, ReportStopped, Report
<1>11. CASE CheckRunning \/ Join \/ Shutdown
  BY <1>11 DEF CheckRunning, Join, Shutdown
<1> QED BY <1>1, <1>2, <1>4, <1>5, <1>6, <1>7, <1>8, <1>9, <1>10, <1>11
        DEF Next, Step, Work

\* The points, as long as no point lags: the first step's kernel leaves alone
\* only points that the later ones leave alone too.
LEMMA PointsStep ==
  ASSUME TypeOK, InRange, PointsOK, ~tuned, NoLag, [Next]_vars
  PROVE  PointsOK'
<1> USE NumPointsAssumption
<1> USE DEF Base, Stepping, memory, results, task
<1>1. /\ first \in Nat \ {0} /\ keyCurrent \in Nat /\ dims.single \in Nat /\ dims.double \in Nat
      /\ keyCurrent >= first /\ Indices \subseteq Nat /\ points \in [Indices -> Nat]
  BY Numbers DEF TypeOK, Indices
<1>2. thread # "none" /\ worker \notin {"tuneSingle", "tuneDouble", "tuneHash"}
  BY DEF InRange
<1>3. CASE UNCHANGED vars
  BY <1>3 DEF vars, PointsOK
<1>4. CASE RunKernels
  <2>1. /\ UNCHANGED <<dims, keyCurrent, first>>
        /\ thread = "kernels" /\ thread' = "readFlag"
        /\ \A i \in Indices : points[i] \in tested'
    BY <1>4 DEF RunKernels
  <2> SUFFICES ASSUME NEW i \in Indices
               PROVE  \/ points'[i] = Garbage
                      \/ points'[i] = keyCurrent + NumPoints + i
                      \/ i < dims.single /\ points'[i] \in tested'
    BY <2>1 DEF PointsOK
  <2>2. \/ points[i] = Garbage
        \/ points[i] = keyCurrent + i
        \/ i < dims.single /\ keyCurrent # first
    BY <2>1 DEF PointsOK
  <2>3. CASE keyCurrent <= NumPoints
    <3>1. keyCurrent = first /\ dims.double <= dims.single
      BY <1>1, <2>3 DEF InRange, NoLag
    <3>2. points' = IncrementKeysWithDouble(points, dims.double)
      BY <1>4, <2>3 DEF RunKernels
    <3>3. CASE i < dims.double
      <4>1. points'[i] = points[i]
        BY <1>1, <3>2, <3>3, DoublePoints
      <4>2. i < dims.single
        BY <1>1, <3>1, <3>3
      <4> QED BY <2>1, <4>1, <4>2
    <3>4. CASE ~(i < dims.double)
      <4>1. points'[i] = Garbage \/ points'[i] = points[i] + NumPoints
        BY <1>1, <3>2, <3>4, DoublePoints
      <4>2. points'[i] = Garbage \/ points[i] # Garbage
        BY <1>1, <3>2, <3>4 DEF IncrementKeysWithDouble
      <4> QED BY <1>1, <2>2, <3>1, <4>1, <4>2
    <3> QED BY <3>3, <3>4
  <2>4. CASE ~(keyCurrent <= NumPoints)
    <3>1. points' = IncrementKeys(points, dims.single)
      BY <1>4, <2>4 DEF RunKernels
    <3>2. CASE i < dims.single
      BY <1>1, <2>1, <3>1, <3>2, SinglePoints
    <3>3. CASE ~(i < dims.single)
      <4>1. \/ points'[i] = Garbage
            \/ points[i] # Garbage /\ points'[i] = points[i] + NumPoints
        BY <1>1, <3>1, <3>3, SinglePoints
      <4> QED BY <1>1, <2>2, <3>3, <4>1
    <3> QED BY <3>2, <3>3
  <2> QED BY <2>3, <2>4
<1>5. CASE Advance
  BY <1>1, <1>5 DEF Advance, PointsOK
<1>6. CASE ReadFlag \/ SetDone \/ SetKey \/ CheckEnd \/ Loop
  <2>1. UNCHANGED <<points, first, keyCurrent, dims, tested>> /\ Stepping' = Stepping
    BY <1>6 DEF ReadFlag, SetDone, SetKey, CheckEnd, Loop
  <2> QED BY <2>1 DEF PointsOK
<1>7. CASE Poll \/ CheckRunning \/ Join \/ ReportStopped \/ Shutdown
  BY <1>7 DEF Poll, Report, CheckRunning, Join, ReportStopped, Shutdown, PointsOK
<1> QED BY <1>2, <1>3, <1>4, <1>5, <1>6, <1>7
        DEF Next, Step, Work, TuneSingle, TuneDouble, TuneHash

\* The flag, on a device that was not tuned: it goes up at most once, in the
\* step in which _key_current + index is the target's key, and the thread ends
\* with that step.
LEMMA FlagStep ==
  ASSUME TypeOK, InRange, Order, PointsOK, FlagOK, ~tuned, [Next]_vars
  PROVE  FlagOK'
<1> USE NumPointsAssumption
<1> USE DEF FlagOK, Stepping, memory, results, task
<1>1. thread # "none" /\ worker \notin {"tuneSingle", "tuneDouble", "tuneHash"}
  BY DEF InRange
<1>2. CASE UNCHANGED vars
  BY <1>2 DEF vars
<1>3. CASE RunKernels
  <2>1. thread = "kernels" /\ thread' = "readFlag" /\ UNCHANGED <<keyCurrent, target>>
    BY <1>3 DEF RunKernels
  <2>2. ~flag /\ target \notin tested
    BY <2>1, Zenon DEF Order
  <2>3. ASSUME flag'
        PROVE  keyCurrent + idx' = target
    <3>1. idx' \in Indices /\ points[idx'] = target
      BY <1>3, <2>2, <2>3, HashResult DEF RunKernels
    <3>2. points[idx'] = Garbage \/ points[idx'] = keyCurrent + idx'
      BY <2>1, <2>2, <3>1 DEF PointsOK, Base
    <3> QED BY <3>1, <3>2, Numbers DEF Garbage
  <2> QED BY <2>1, <2>3
<1>4. CASE ReadFlag
  BY <1>4 DEF ReadFlag
<1>5. CASE SetDone
  BY <1>5 DEF SetDone
<1>6. CASE SetKey
  <2>1. done
    BY <1>6 DEF SetKey, Order, FlagRead
  <2> QED BY <1>6, <2>1 DEF SetKey
<1>7. CASE Advance
  BY <1>7 DEF Advance
<1>8. CASE CheckEnd
  <2>1. done => done'
    BY <1>8, Zenon DEF CheckEnd
  <2> QED BY <1>8, <2>1 DEF CheckEnd
<1>9. CASE Loop
  <2>1. thread' = "kernels" => ~done
    BY <1>9, Zenon DEF Loop
  <2>2. thread' \in {"kernels", "end"}
    BY <1>9 DEF Loop
  <2> QED BY <1>9, <2>1, <2>2 DEF Loop
<1>10. CASE Poll \/ CheckRunning \/ Join \/ ReportStopped \/ Shutdown
  BY <1>10 DEF Poll, Report, CheckRunning, Join, ReportStopped, Shutdown
<1> QED BY <1>1, <1>2, <1>3, <1>4, <1>5, <1>6, <1>7, <1>8, <1>9, <1>10
        DEF Next, Step, Work, TuneSingle, TuneDouble, TuneHash

\* One step of the kernels: a key of the step's range is hashed, or its point
\* stays behind in the first stride and it is no key of the first step.
LEMMA ScheduleStep ==
  ASSUME TypeOK, InRange, ScheduleOK, NoLag, NoZeroDifference, thread # "none",
         [Next]_vars
  PROVE  ScheduleOK'
<1> USE NumPointsAssumption
<1> USE DEF Base, Stepping, memory, results, task
<1>1. /\ first \in Nat \ {0} /\ keyCurrent \in Nat /\ dims.single \in Nat
      /\ dims.double \in Nat /\ keyCurrent >= first /\ points \in [Indices -> Nat]
  BY Numbers DEF TypeOK
<1>2. worker \notin {"tuneSingle", "tuneDouble", "tuneHash"}
  BY DEF InRange
<1>3. CASE UNCHANGED vars
  BY <1>3 DEF vars, ScheduleOK, Behind, LeftOut
<1>4. CASE RunKernels
  <2>1. /\ UNCHANGED <<dims, keyCurrent, first>>
        /\ thread = "kernels" /\ thread' = "readFlag"
        /\ tested' = tested \cup {points[i] : i \in Indices}
    BY <1>4 DEF RunKernels
  <2>2. \A i \in Indices : points[i] = keyCurrent + i \/ Behind(i)
    BY <2>1 DEF ScheduleOK
  <2>3. ASSUME NEW i \in Indices
        PROVE  points'[i] = keyCurrent + NumPoints + i \/ Behind(i)'
    <3>1. CASE keyCurrent <= NumPoints
      <4>1. keyCurrent = first /\ dims.double <= dims.single
        BY <1>1, <3>1 DEF InRange, NoLag
      <4>2. points[i] = first + i
        BY <2>1, <2>2, <4>1 DEF Behind
      <4>3. points' = IncrementKeysWithDouble(points, dims.double)
        BY <1>4, <3>1 DEF RunKernels
      <4>4. CASE i < dims.double
        <5>1. points'[i] = first + i
          BY <1>1, <4>2, <4>3, <4>4, DoublePoints
        <5> QED BY <1>1, <2>1, <4>1, <4>4, <5>1 DEF Behind, Indices
      <4>5. CASE ~(i < dims.double)
        BY <1>1, <4>1, <4>2, <4>3, <4>5 DEF IncrementKeysWithDouble, Garbage, Indices
      <4> QED BY <4>4, <4>5
    <3>2. CASE ~(keyCurrent <= NumPoints)
      <4>1. points' = IncrementKeys(points, dims.single)
        BY <1>4, <3>2 DEF RunKernels
      <4>2. ASSUME NEW j \in Indices
            PROVE  points[j] # NumPoints /\ points[j] # Garbage
        <5>1. CASE points[j] = keyCurrent + j
          BY <1>1, <3>2, <5>1 DEF Garbage, Indices
        <5>2. CASE Behind(j)
          BY <1>1, <5>2 DEF Behind, NoZeroDifference, Garbage
        <5> QED BY <2>2, <5>1, <5>2
      <4>3. CASE i < dims.single
        <5>1. points'[i] = points[i]
          BY <1>1, <4>1, <4>3, SinglePoints
        <5>2. points[i] > NumPoints \/ points[i] \in first .. first + dims.double - 1
          BY <1>1, <2>2, <3>2 DEF Behind, Indices
        <5> QED BY <2>1, <4>3, <5>1, <5>2 DEF Behind
      <4>4. CASE ~(i < dims.single)
        <5>1. ~ZeroDifference(points, i, dims.single)
          BY <4>2 DEF ZeroDifference
        <5>2. points'[i] = points[i] + NumPoints
          BY <4>1, <4>2, <4>4, <5>1 DEF IncrementKeys
        <5> QED BY <1>1, <2>2, <4>4, <5>2 DEF Behind, Indices
      <4> QED BY <4>3, <4>4
    <3> QED BY <3>1, <3>2
  <2>4. ASSUME NEW k \in first .. keyCurrent + NumPoints - 1
        PROVE  k \in tested' \/ LeftOut(k)
    <3>1. CASE k < keyCurrent
      BY <1>1, <2>1, <3>1 DEF ScheduleOK
    <3>2. CASE k >= keyCurrent
      <4>1. PICK i \in Indices : k = keyCurrent + i
        <5>1. k - keyCurrent \in Indices /\ k = keyCurrent + (k - keyCurrent)
          BY <1>1, <3>2 DEF Indices
        <5> QED BY <5>1
      <4>2. CASE points[i] = keyCurrent + i
        BY <2>1, <4>1, <4>2
      <4>3. CASE Behind(i)
        <5>1. k >= first + NumPoints
          BY <1>1, <2>1, <3>2, <4>3 DEF Behind, InRange
        <5>2. PICK n \in Nat : keyCurrent = first + n * NumPoints
          BY DEF ScheduleOK
        <5>3. k - first = n * NumPoints + i
          BY <1>1, <4>1, <5>2 DEF Indices
        <5>4. (n * NumPoints + i) % NumPoints = i
          BY SMTT(20) DEF Indices
        <5> QED BY <4>3, <5>1, <5>3, <5>4 DEF Behind, LeftOut
      <4> QED BY <2>2, <4>2, <4>3
    <3> QED BY <1>1, <3>1, <3>2
  <2>5. Base' = keyCurrent + NumPoints
    BY <2>1
  <2>6. \E n \in Nat : keyCurrent' = first' + n * NumPoints
    BY <2>1, Zenon DEF ScheduleOK
  <2>7. \A i \in Indices : points'[i] = Base' + i \/ Behind(i)'
    BY <2>3, <2>5
  <2>8. \A k \in first' .. Base' - 1 : k \in tested' \/ LeftOut(k)'
    <3>1. first' = first /\ dims' = dims
      BY <2>1
    <3>2. \A k : LeftOut(k)' <=> LeftOut(k)
      BY <3>1, Zenon DEF LeftOut
    <3>3. ASSUME NEW k \in first' .. Base' - 1
          PROVE  k \in first .. keyCurrent + NumPoints - 1
      BY <1>1, <2>5, <3>1
    <3> QED BY <2>4, <3>2, <3>3, Zenon
  <2> QED BY <2>6, <2>7, <2>8 DEF ScheduleOK
<1>5. CASE Advance
  <2>1. /\ UNCHANGED <<dims, points, first, tested>> /\ thread' = "checkEnd"
        /\ thread = "advance" /\ keyCurrent' = keyCurrent + NumPoints
    BY <1>5 DEF Advance
  <2>2. \E n \in Nat : keyCurrent' = first + n * NumPoints
    <3>1. PICK n \in Nat : keyCurrent = first + n * NumPoints
      BY DEF ScheduleOK
    <3>2. keyCurrent' = first + (n + 1) * NumPoints
      BY <1>1, <2>1, <3>1
    <3>3. n + 1 \in Nat
      OBVIOUS
    <3> QED BY <3>2, <3>3, Zenon
  <2>3. Base' = Base /\ keyCurrent' # first
    BY <1>1, <2>1
  <2> QED BY <2>1, <2>2, <2>3 DEF ScheduleOK, Behind, LeftOut
<1>6. CASE ReadFlag \/ SetDone \/ SetKey \/ CheckEnd \/ Loop
  <2>1. UNCHANGED <<points, first, keyCurrent, dims, tested>> /\ Stepping' = Stepping
    BY <1>6 DEF ReadFlag, SetDone, SetKey, CheckEnd, Loop
  <2> QED BY <2>1 DEF ScheduleOK, Behind, LeftOut
<1>7. CASE Poll \/ CheckRunning \/ Join \/ ReportStopped \/ Shutdown
  BY <1>7 DEF Poll, Report, CheckRunning, Join, ReportStopped, Shutdown, ScheduleOK,
              Behind, LeftOut
<1> QED BY <1>2, <1>3, <1>4, <1>5, <1>6, <1>7
        DEF Next, Step, Work, TuneSingle, TuneDouble, TuneHash

\* The search starts with the points set anew, also after tuning.
LEMMA ScheduleStart ==
  ASSUME TypeOK, InRange, TuneHash
  PROVE  ScheduleOK'
<1> USE NumPointsAssumption
<1>1. first \in Nat /\ keyCurrent = first
  BY Numbers DEF InRange, TuneHash
<1>2. /\ points' = InitPublicKeys(first) /\ thread' = "kernels"
      /\ UNCHANGED <<first, keyCurrent>>
  BY DEF TuneHash, task
<1>3. keyCurrent' = first + 0 * NumPoints
  BY <1>1, <1>2
<1> QED BY <1>1, <1>2, <1>3, InitPoints DEF ScheduleOK, Base, Stepping

\* Whether the device was tuned never changes, nor do its grids after that.
LEMMA Constant ==
  ASSUME InRange, [Next]_vars
  PROVE  /\ tuned' = tuned /\ first' = first
         /\ thread # "none" => dims' = dims
BY DEF InRange, Next, Step, Work, TuneSingle, TuneDouble, TuneHash, RunKernels, ReadFlag,
       SetDone, SetKey, Advance, CheckEnd, Loop, Poll, CheckRunning, Join, ReportStopped,
       Shutdown, vars, task, memory

LEMMA NextInv == IInv /\ [Next]_vars => IInv'
<1> SUFFICES ASSUME IInv, [Next]_vars PROVE IInv'
  OBVIOUS
<1>1. TypeOK' /\ InRange' /\ Order'
  BY TypeStep, InRangeStep, OrderStep DEF IInv
<1>2. ASSUME ~tuned', NoLag'
      PROVE  PointsOK' /\ FlagOK'
  <2>1. ~tuned /\ NoLag
    BY <1>2, Constant DEF IInv, InRange, NoLag
  <2>2. PointsOK /\ FlagOK
    BY <2>1 DEF IInv
  <2> QED BY <2>1, <2>2, PointsStep, FlagStep DEF IInv
<1>3. ASSUME thread' # "none", NoLag', NoZeroDifference'
      PROVE  ScheduleOK'
  <2>1. CASE TuneHash
    BY <2>1, ScheduleStart DEF IInv
  <2>2. CASE ~TuneHash
    <3>1. thread # "none" /\ worker \notin {"tuneSingle", "tuneDouble", "tuneHash"}
      BY <1>3, <2>2 DEF IInv, InRange, Next, Step, Work, TuneSingle, TuneDouble, RunKernels,
             ReadFlag, SetDone, SetKey, Advance, CheckEnd, Loop, Poll, CheckRunning, Join,
             ReportStopped, Shutdown, vars
    <3>2. dims' = dims /\ first' = first
      BY <3>1, Constant DEF IInv
    <3>3. NoLag /\ NoZeroDifference
      BY <1>3, <3>2 DEF NoLag, NoZeroDifference
    <3>4. ScheduleOK
      BY <3>1, <3>3 DEF IInv
    <3> QED BY <3>1, <3>3, <3>4, ScheduleStep DEF IInv
  <2> QED BY <2>1, <2>2
<1> QED BY <1>1, <1>2, <1>3 DEF IInv

LEMMA Invariance == Spec => []IInv
<1>1. IInv /\ UNCHANGED vars => IInv'
  BY NextInv
<1> QED BY InitInv, NextInv, PTL DEF Spec

-----------------------------------------------------------------------------
(* The theorems *)

\* The counters, keys and points of a device stay in their sets; no key that
\* it reports lies further behind the range than one step.
THEOREM DeviceTypesThm == Spec => []TypeOK
BY Invariance, PTL DEF IInv

\* A device that was not tuned, and whose grids let no point lag, ends its
\* thread with the key of the target (BTCPubKeyHashGPU.cpp, step).
THEOREM FoundIsTargetThm == Spec => []FoundIsTarget
<1>1. IInv => FoundIsTarget
  BY DEF IInv, Order, FlagOK, FoundIsTarget
<1> QED BY <1>1, Invariance, PTL

\* A hashed key is never missed, tuned or not.
THEOREM TestedIsFoundThm == Spec => []TestedIsFound
<1>1. IInv => TestedIsFound
  BY DEF IInv, Order, FlagRead, TestedIsFound
<1> QED BY <1>1, Invariance, PTL

\* A search to the end without a find leaves out only keys whose points are in
\* the first stride of a kernel (secp256k1.cl:999), from the second step on.
THEOREM MissedAreFirstStrideThm == Spec => []MissedAreFirstStride
<1> USE NumPointsAssumption
<1>1. IInv => MissedAreFirstStride
  <2> SUFFICES ASSUME IInv, thread = "end", keyCurrent > last, NoLag, NoZeroDifference,
                      NEW k \in first .. last
               PROVE  k \in tested \/ LeftOut(k)
    BY DEF MissedAreFirstStride, LeftOut
  <2>1. Base = keyCurrent /\ ScheduleOK
    BY DEF IInv, Base, Stepping
  <2>2. k \in first .. Base - 1
    BY <2>1, Numbers DEF IInv
  <2> QED BY <2>1, <2>2 DEF ScheduleOK
<1> QED BY <1>1, Invariance, PTL

\* An item that comes back unfinished was not found, and no thread still
\* searches it (main.cpp, btc_pubkey_worker).
THEOREM AbortedIsUnfinishedThm == Spec => []AbortedIsUnfinished
<1>1. IInv => AbortedIsUnfinished
  BY DEF IInv, Order, AbortedIsUnfinished
<1> QED BY <1>1, Invariance, PTL
=============================================================================
