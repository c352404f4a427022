------------------------------ MODULE DeviceSetup -----------------------------
(***************************************************************************)
(* How a worker makes a device ready (btc_pubkey_worker up to start(), and *)
(* BTCPubKeyHashGPU::init): the checks, the memory, the points of the      *)
(* first keys computed on the GPU bit by bit, the search for the fastest   *)
(* grids or the grids of the settings, and the points once more.  Points   *)
(* are points of the curve, and the kernels invert their differences in    *)
(* batches.  Devices of one kind are set up one after the other: they      *)
(* share the settings, and destroyed devices leave nothing else.           *)
(***************************************************************************)
EXTENDS Curve

CONSTANTS
  Items,        \* [first, last: keys, target: its fields, valid: is its address valid,
                \*  key: the key that hashes to it]
  MemUsages,    \* [percent : BOOLEAN, usage : Nat], the configured memory
  GlobalMem, MaxBuffer,     \* of the device, in words
  CheckedPoints,            \* points that sanity_check looks at (100)
  InitThreads,              \* threads of init_public_keys
  GridSizes, BlockSizes,    \* the sizes to try, in order
  RunsPerConfig,            \* calls of a kernel with each (10)
  Times                     \* bound: the times that a call can take

ASSUME DeviceAssumption ==
  /\ CheckedPoints \in Nat \ {0} /\ InitThreads \in Nat \ {0}
  /\ RunsPerConfig \in Nat \ {0} /\ Times \subseteq Nat \ {0} /\ Times # {}
  /\ GridSizes \in Seq(Nat \ {0}) /\ BlockSizes \in Seq(Nat \ {0})
  /\ GridSizes # <<>> /\ BlockSizes # <<>>

VARIABLES
  setup,        \* "idle", "points", "tune", "ready", "throw"
  work,         \* the item, and whether its keys are hashed compressed
  points,       \* _dev_x, _dev_y: index -> point
  initBit,      \* the bit that init_public_keys is called for next
  ready,        \* the points are set for the search, not for tuning
  flag,         \* _dev_result_flag
  config,       \* kernel -> grid and block it is called with
  settings,     \* SettingsCache: kernel -> grid and block
  tuner,        \* the Tuner
  keyOf,        \* history: the keys that PointKernels says the points belong to
  least         \* history: index of a configuration -> its least time

deviceVars == <<setup, work, points, initBit, ready, flag, config, settings, tuner,
                keyOf, least>>

NumPointsOf(usage) == LET fit == usage \div (3 * NumWords)
                          max == MaxBuffer \div NumWords
                      IN  IF fit > max THEN max ELSE fit

K(n) == INSTANCE PointKernels WITH NumPoints <- n

Indices == DOMAIN points

-----------------------------------------------------------------------------
(* The kernels on points.  Thread t of dim works on t, t + dim, ... *)

\* Fermat's power, which is zero for zero.
DeviceInverse(x) == IF x = 0 THEN 0 ELSE InvModP(x)

\* Thread by thread, the chain of products, inverted once and undone factor by
\* factor.
BatchInverses(in, dim, last) ==
  LET chain[j \in -dim .. last] == IF j < 0 THEN 1 ELSE MultiplyModP(chain[j - dim], in[j])
      inverse[j \in 0 .. last] ==
        IF j + dim > last THEN DeviceInverse(chain[j])
        ELSE MultiplyModP(inverse[j + dim], in[j + dim])
  IN  [j \in 0 .. last |-> MultiplyModP(chain[j - dim], inverse[j])]

\* The difference of point p and q, or what inverts the slope of their tangent.
Difference(q, p, double) ==
  IF double /\ q.x = p.x THEN AddModP(q.y, q.y) ELSE SubModP(q.x, p.x)

SumWith(q, p, inverse, double) ==
  LET square  == MultiplyModP(p.x, p.x)
      rise    == IF double /\ q.x = p.x THEN AddModP(square, AddModP(square, square))
                 ELSE SubModP(q.y, p.y)
  IN  OnLine(MultiplyModP(rise, inverse), q, p.x)

\* q is added to the points of written; a point that is not batched is no
\* factor of its batch.
AddToPoints(ps, q, batched, written, dim, double) ==
  LET factors  == [j \in DOMAIN ps |->
                     IF j \in batched THEN Difference(q, ps[j], double) ELSE 1]
      inverses == BatchInverses(factors, dim, Cardinality(DOMAIN ps) - 1)
  IN  [j \in DOMAIN ps |->
         IF j \in written THEN SumWith(q, ps[j], inverses[j], double) ELSE ps[j]]

Increment(ps, q, dim, double) ==
  AddToPoints(ps, q, DOMAIN ps, {j \in DOMAIN ps : j >= dim}, dim, double)

\* One call of init_public_keys: a point with the bit gets the table's point.
InitPublicKeys(ps, start, bit) ==
  LET q     == BulkTable[bit + 1]
      set   == {j \in DOMAIN ps : KeyBit((start + j) % M, bit)}
      fresh == {j \in set : IsPointAtInfinity(ps[j])}
      added == AddToPoints(ps, q, set \ fresh, set \ fresh, InitThreads, TRUE)
  IN  [j \in DOMAIN ps |-> IF j \in fresh THEN q ELSE added[j]]

\* multiplyPoint of the generator, as the host computes it.
HostPoint(key) ==
  LET partial[n \in 0 .. Bits] ==
        IF n = 0 THEN PointAtInfinity
        ELSE IF KeyBit(key, n - 1) THEN AddPoints(partial[n - 1], BulkTable[n]) ELSE partial[n - 1]
  IN  partial[Bits]

-----------------------------------------------------------------------------
(* Grids and settings *)

Kernels == {"increment", "double", "hashCompressed", "hashUncompressed"}
HashKernel == IF work.compressed THEN "hashCompressed" ELSE "hashUncompressed"

Sized(grid, block) == [grid |-> grid, block |-> block]
Threads(c) == c.grid * c.block
NoConfig == Sized(0, 0)

\* Every grid size with every block size, the block sizes faster.
NumConfigs == Len(GridSizes) * Len(BlockSizes)
TunerConfig(n) == Sized(GridSizes[((n - 1) \div Len(BlockSizes)) + 1],
                        BlockSizes[((n - 1) % Len(BlockSizes)) + 1])

NoTime == 0             \* UINT64_MAX: no call was timed yet
NewTuner(kernel) == [kernel |-> kernel, idx |-> 1, iteration |-> 0, best |-> 1, time |-> NoTime]

AreKernelsTuned == \A name \in {"increment", "double", HashKernel} : settings[name] # NoConfig

LoadTuning ==
  config' = [name \in Kernels |->
               IF name \in {"increment", "double", HashKernel} THEN settings[name]
               ELSE config[name]]

-----------------------------------------------------------------------------
NoItem == [first |-> 0, last |-> 0, key |-> 0, compressed |-> TRUE]

DeviceInit ==
  /\ setup = "idle"
  /\ work = NoItem
  /\ points = <<>> /\ keyOf = <<>>
  /\ initBit = 0 /\ ready = FALSE /\ flag = FALSE
  /\ config = [name \in Kernels |-> NoConfig]
  /\ settings = [name \in Kernels |-> NoConfig]
  /\ tuner = NewTuner("increment")
  /\ least = [n \in 1 .. NumConfigs |-> NoTime]

\* The device is destroyed: the settings stay.
Destroyed(pc) ==
  /\ setup' = pc
  /\ work' = NoItem
  /\ points' = <<>> /\ keyOf' = <<>>
  /\ initBit' = 0 /\ ready' = FALSE /\ flag' = FALSE
  /\ config' = [name \in Kernels |-> NoConfig]
  /\ tuner' = NewTuner("increment")
  /\ least' = [n \in 1 .. NumConfigs |-> NoTime]
  /\ UNCHANGED settings

\* The item is searched (HashDevice), or was aborted, and the worker returns.
Leave == setup \in {"ready", "throw"} /\ Destroyed("idle")

\* The compression of a target without a prefix is read uninitialised.
Compressions(target) ==
  IF Len(target) = 1 THEN BOOLEAN
  ELSE IF Len(target) = 2 /\ target[1] \in {"compressed", "uncompressed"}
       THEN {target[1] = "compressed"} ELSE {}

MemUsage(usage) == IF usage.percent THEN (GlobalMem * usage.usage) \div 100 ELSE usage.usage
InvalidUsage(usage) == usage.percent /\ (usage.usage <= 0 \/ usage.usage > 100)

\* No point of a device gets to the order of the group, moved by tuning either.
ASSUME ItemAssumption ==
  \A item \in Items, usage \in MemUsages :
    LET n == NumPointsOf(MemUsage(usage))
    IN  /\ item.first \in Int /\ n \in Nat
        /\ item.first + n * (1 + 2 * (RunsPerConfig * NumConfigs)) < N

InvalidItem(item) == item.first < 1 \/ item.first > item.last \/ ~item.valid

\* The last: OpenCL has no buffers of no bytes.
Refused(item, usage) ==
  \/ InvalidUsage(usage) \/ Compressions(item.target) = {} \/ InvalidItem(item)
  \/ NumPointsOf(MemUsage(usage)) = 0

\* set_mem_usage, parse_target, and init up to the first points.
Begin ==
  /\ setup = "idle"
  /\ \E item \in Items, usage \in MemUsages :
       \/ /\ Refused(item, usage)
          /\ setup' = "throw"
          /\ UNCHANGED <<work, points, keyOf>>
       \/ /\ ~Refused(item, usage)
          /\ setup' = "points"
          /\ \E compressed \in Compressions(item.target) :
               work' = [first |-> item.first, last |-> item.last, key |-> item.key,
                        compressed |-> compressed]
          /\ LET indices == 0 .. NumPointsOf(MemUsage(usage)) - 1
             IN  points' = [j \in indices |-> PointAtInfinity] /\ keyOf' = [j \in indices |-> 0]
  /\ UNCHANGED <<initBit, ready, flag, config, settings, tuner, least>>

\* One bit of init_gpu_points.
InitPoints ==
  /\ setup = "points" /\ initBit < Bits
  /\ points' = InitPublicKeys(points, work.first, initBit)
  /\ keyOf' = [j \in Indices |-> (work.first + j) % TwoTo[initBit + 1]]
  /\ initBit' = initBit + 1
  /\ UNCHANGED <<setup, work, ready, flag, config, settings, tuner, least>>

\* The points are read past their end when there are fewer.
SanityCheck ==
  /\ Cardinality(Indices) >= CheckedPoints
  /\ \A j \in 0 .. CheckedPoints - 1 :
       PointExists(points[j]) /\ points[j] = HostPoint(work.first + j)

ResetPoints ==
  /\ points' = [j \in Indices |-> PointAtInfinity]
  /\ keyOf' = [j \in Indices |-> 0]
  /\ initBit' = 0

\* sanity_check, then what init does next: tune or load, or return.
PointsAreSet ==
  /\ setup = "points" /\ initBit = Bits
  /\ \/ ~SanityCheck /\ Destroyed("throw")
     \/ /\ SanityCheck /\ ready
        /\ setup' = "ready"
        /\ UNCHANGED <<work, points, keyOf, initBit, ready, flag, config, settings, tuner, least>>
     \/ /\ SanityCheck /\ ~ready /\ ~AreKernelsTuned
        /\ setup' = "tune"
        /\ UNCHANGED <<work, points, keyOf, initBit, ready, flag, config, settings, tuner, least>>
     \/ /\ SanityCheck /\ ~ready /\ AreKernelsTuned
        /\ LoadTuning
        /\ ResetPoints
        /\ ready' = TRUE
        /\ UNCHANGED <<setup, work, flag, settings, tuner, least>>

-----------------------------------------------------------------------------
(* Tuning *)

KernelAfter == [increment |-> "double", double |-> HashKernel]

\* Garbage with the x of q, which PointKernels knows nothing of, makes garbage
\* of its batch.
WithoutStrays(keys, q, dim) ==
  [j \in Indices |->
     IF j >= dim /\ \E m \in Indices : m % dim = j % dim /\ keyOf[m] = 0 /\ points[m].x = q.x
     THEN 0 ELSE keys[j]]

\* The kernel that is tuned is called once, on the points as they are.
CallKernel(dim) ==
  IF tuner.kernel = HashKernel
  THEN /\ flag' = (flag \/ \E j \in Indices : points[j] = HostPoint(work.key))
       /\ UNCHANGED <<points, keyOf>>
  ELSE LET double == tuner.kernel = "double"
           n      == Cardinality(Indices)
           q      == HostPoint(n)
       IN  /\ points' = Increment(points, q, dim, double)
           /\ keyOf' = IF double THEN K(n)!IncrementKeysWithDouble(keyOf, dim)
                       ELSE WithoutStrays(K(n)!IncrementKeys(keyOf, dim), q, dim)
           /\ UNCHANGED flag

\* Tuner::run: one timed call, and the next configuration after the last.
Run(t) ==
  LET faster == tuner.time = NoTime \/ t < tuner.time
      best   == IF faster THEN tuner.idx ELSE tuner.best
      last   == tuner.iteration + 1 = RunsPerConfig
  IN  /\ CallKernel(Threads(TunerConfig(tuner.idx)))
      /\ tuner' = [tuner EXCEPT !.best = best, !.time = IF faster THEN t ELSE @,
                               !.iteration = IF last THEN 0 ELSE @ + 1,
                               !.idx = IF last THEN @ + 1 ELSE @]
      /\ config' = [config EXCEPT ![tuner.kernel] =
                      TunerConfig(IF tuner'.idx > NumConfigs THEN best ELSE tuner.idx)]
      /\ least' = [least EXCEPT ![tuner.idx] = IF @ = NoTime \/ t < @ THEN t ELSE @]

Tune ==
  /\ setup = "tune" /\ tuner.idx <= NumConfigs
  /\ \E t \in Times : Run(t)
  /\ UNCHANGED <<setup, work, initBit, ready, settings>>

\* Mutant of KernelTuned: the points are left where tuning moved them.
KernelTunedInPlace ==
  /\ setup = "tune" /\ tuner.idx > NumConfigs
  /\ settings' = [settings EXCEPT ![tuner.kernel] = config[tuner.kernel]]
  /\ least' = [n \in 1 .. NumConfigs |-> NoTime]
  /\ IF tuner.kernel = HashKernel
     THEN setup' = "ready" /\ ready' = TRUE /\ UNCHANGED <<points, keyOf, initBit, tuner>>
     ELSE /\ tuner' = NewTuner(KernelAfter[tuner.kernel])
          /\ UNCHANGED <<setup, points, keyOf, initBit, ready>>
  /\ UNCHANGED <<work, flag, config>>

\* tune_kernel keeps the sizes it has found; the next kernel is tuned, or the
\* points are set anew.
KernelTuned ==
  /\ setup = "tune" /\ tuner.idx > NumConfigs
  /\ settings' = [settings EXCEPT ![tuner.kernel] = config[tuner.kernel]]
  /\ least' = [n \in 1 .. NumConfigs |-> NoTime]
  /\ IF tuner.kernel = HashKernel
     THEN setup' = "points" /\ ready' = TRUE /\ ResetPoints /\ UNCHANGED tuner
     ELSE /\ tuner' = NewTuner(KernelAfter[tuner.kernel])
          /\ UNCHANGED <<setup, points, keyOf, initBit, ready>>
  /\ UNCHANGED <<work, flag, config>>

\* Every call of the GPU can fail (cl_call throws).
GpuFails == setup \in {"points", "tune"} /\ Destroyed("throw")

SetUpDevice == Begin \/ Leave \/ InitPoints \/ PointsAreSet \/ Tune \/ KernelTuned \/ GpuFails
=============================================================================
