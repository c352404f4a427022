--------------------------- MODULE ClientThreadsProofs ------------------------
(***************************************************************************)
(* The lives of the client's objects are ordered, for any number of        *)
(* devices, GPUs and work items: which pointers the status thread may use, *)
(* whom a slot belongs to, and who is left when main deletes the manager.  *)
(***************************************************************************)
EXTENDS ClientThreads, FiniteSetTheorems, TLAPS

-----------------------------------------------------------------------------
(* The inductive invariant *)

\* Slots whose worker still has its item to give back.
Owing == {s \in Slots : worker[s] \in {"started", "adding", "working", "returning"}}

\* No item is given back that was not taken.
ItemsAreConserved ==
  /\ available \in Nat
  /\ available + Cardinality(Owing) <= units * UnitItems

\* The states are listed, and hold an item, in these phases of their worker.
WorkersAreListed ==
  /\ list = {s \in Slots : worker[s] \in {"working", "returning", "removing"}}
  /\ \A s \in Slots : item[s] <=> worker[s] \in {"adding", "working"}

\* What the status thread has pointers to, between which statements.
PointersAreHeld ==
  /\ status # "scan" => toScan = {}
  /\ status \notin {"scan", "top"} => snapshot = {}
  /\ status \in {"sleep", "lock"} => freed = {}
  /\ checked # NoSlot => status = "scan" /\ checked \in toScan
                         /\ (worker[checked] = "working" \/ checked \in ended)
  /\ \A s \in snapshot : worker[s] = "working" \/ s \in ended
  /\ status = "off" <=> main = "config"

\* main waits for its threads one after the other.
MainJoins ==
  /\ cause # "none" => proc = "undefined"
  /\ main \in {"joinDownload", "joinUpload", "joinStatus", "delete", "return"} => wm = "ended"
  /\ main \in {"joinUpload", "joinStatus", "delete", "return"} => download = "ended"
  /\ main \in {"joinStatus", "delete", "return"} => upload = "ended"
  /\ main \in {"delete", "return"} => status = "ended"
  /\ manager = "deleted" <=> main = "return"

IInv ==
  /\ TypeOK /\ ItemsAreConserved
  /\ WorkersAreListed /\ PointersAreHeld /\ MainJoins
  /\ ListedAreAlive /\ SlotsAreExclusive /\ QuietReportIsSafe /\ ManagerOutlivesThreads

LEMMA InitInvariant == Init => IInv
<1> SUFFICES ASSUME Init PROVE IInv
  OBVIOUS
<1> USE SlotsAssumption, NumbersAssumption
<1>1. TypeOK
  <2>1. 0 \in 0 .. MaxUnits * UnitItems /\ 0 \in 0 .. MaxUnits /\ 1 \in 1 .. NumSlots + 1
    BY SMT
  <2> QED BY <2>1 DEF Init, TypeOK, ThreadTypes
<1>2. ItemsAreConserved
  <2>1. Owing = {}
    BY DEF Init, Owing
  <2>2. Cardinality(Owing) = 0
    BY <2>1, FS_EmptySet
  <2> QED BY <2>2, SMT DEF Init, ItemsAreConserved
<1>3. /\ WorkersAreListed /\ PointersAreHeld /\ MainJoins
      /\ ListedAreAlive /\ SlotsAreExclusive /\ QuietReportIsSafe /\ ManagerOutlivesThreads
  BY DEF Init, WorkersAreListed, PointersAreHeld, MainJoins, ListedAreAlive, SlotsAreExclusive,
         QuietReportIsSafe, ManagerOutlivesThreads
<1> QED BY <1>1, <1>2, <1>3 DEF IInv

\* A step of the whole program is a step of one of its threads.
MainStep == (\E ids \in [Slots -> 0 .. NumGpus + 1] : Configure(ids)) \/ ConfigureFails
              \/ Watch \/ Join \/ DeleteManager \/ Return \/ CtrlC
LoopStep == ManagerLoop \/ DownloadLoop \/ Fetch \/ UploadLoop
ItemStep == ManagerScan \/ ManagerDies \/ AddUnit

LEMMA LifeOfMain ==
  ASSUME IInv, MainStep
  PROVE  /\ WorkersAreListed' /\ PointersAreHeld' /\ MainJoins'
         /\ ListedAreAlive' /\ SlotsAreExclusive' /\ QuietReportIsSafe' /\ ManagerOutlivesThreads'
<1> USE DEF IInv, vars, mainVars, wmVars, store, uploadVars, DownloadRest, UploadRest,
            workerVars, statusVars, sinceLock, Defined, Undefined
<1> DEFINE Goal == /\ WorkersAreListed' /\ PointersAreHeld' /\ MainJoins'
                   /\ ListedAreAlive' /\ SlotsAreExclusive' /\ QuietReportIsSafe'
                   /\ ManagerOutlivesThreads'
<1> USE DEF WorkersAreListed, PointersAreHeld, MainJoins, ListedAreAlive, SlotsAreExclusive,
            QuietReportIsSafe, ManagerOutlivesThreads, TypeOK, ThreadTypes
<1>1. ASSUME NEW ids \in [Slots -> 0 .. NumGpus + 1], Configure(ids) PROVE Goal
  <2>1. proc = "run" /\ main = "config" /\ manager # "deleted" /\ cause = "none" /\ snapshot = {}
    BY <1>1 DEF Configure
  <2>2. UNCHANGED <<running, workerVars, toScan, checked, snapshot, sinceLock>>
    BY <1>1 DEF Configure
  <2>3. CASE UNCHANGED <<main, manager, wm, download, upload, status>>
               /\ cause' \in {"none", "device"} /\ (cause' # "none" => proc' = "undefined")
    BY <2>1, <2>2, <2>3
  <2>4. CASE main' = "watch" /\ manager' = "alive" /\ status' = "top" /\ UNCHANGED <<proc, cause>>
    BY <2>1, <2>2, <2>4
  <2> QED BY <1>1, <2>1, <2>3, <2>4 DEF Configure
<1>2. CASE ConfigureFails
  BY <1>2 DEF ConfigureFails
<1>3. CASE Watch
  BY <1>3 DEF Watch
<1>4. CASE Join
  BY <1>4 DEF Join
<1>5. CASE DeleteManager
  BY <1>5 DEF DeleteManager
<1>6. CASE Return
  BY <1>6 DEF Return
<1>7. CASE CtrlC
  BY <1>7 DEF CtrlC
<1> QED BY <1>1, <1>2, <1>3, <1>4, <1>5, <1>6, <1>7 DEF MainStep

LEMMA LifeOfLoops ==
  ASSUME IInv, LoopStep \/ ItemStep
  PROVE  /\ WorkersAreListed' /\ PointersAreHeld' /\ MainJoins'
         /\ ListedAreAlive' /\ SlotsAreExclusive' /\ QuietReportIsSafe' /\ ManagerOutlivesThreads'
<1> USE DEF IInv, vars, mainVars, wmVars, store, uploadVars, DownloadRest, UploadRest,
            workerVars, statusVars, sinceLock, Defined, Undefined
<1> USE DEF WorkersAreListed, PointersAreHeld, MainJoins, ListedAreAlive, SlotsAreExclusive,
            QuietReportIsSafe, ManagerOutlivesThreads, TypeOK, ThreadTypes
<1>1. CASE ManagerLoop
  BY <1>1 DEF ManagerLoop
<1>2. CASE ManagerScan
  <2>1. UNCHANGED <<proc, cause, running, mainVars, wm, download, uploadVars, item, list,
                     statusVars, sinceLock>>
    BY <1>2 DEF ManagerScan
  <2>2. CASE UNCHANGED <<inUse, worker>>
    BY <2>1, <2>2
  <2>3. CASE ~inUse[wmSlot] /\ inUse' = [inUse EXCEPT ![wmSlot] = TRUE]
             /\ worker' = [worker EXCEPT ![wmSlot] = "started"]
    <3>1. wmSlot \in Slots /\ worker[wmSlot] = "none"
      BY <1>2, <2>3 DEF ManagerScan
    <3>2. \A s \in Slots : worker'[s] = IF s = wmSlot THEN "started" ELSE worker[s]
      BY <2>3
    <3>3. \A s \in Slots : inUse'[s] = IF s = wmSlot THEN TRUE ELSE inUse[s]
      BY <2>3
    <3>4. \A s \in Slots : worker'[s] = worker[s] \/ (worker[s] = "none" /\ worker'[s] = "started")
      BY <3>1, <3>2
    <3>5. checked # NoSlot => checked \in Slots
      OBVIOUS
    <3>6. WorkersAreListed' /\ ListedAreAlive'
      BY <2>1, <3>4 DEF WorkersAreListed, ListedAreAlive
    <3>7. PointersAreHeld'
      BY <2>1, <3>4, <3>5 DEF PointersAreHeld
    <3>8. SlotsAreExclusive'
      <4> SUFFICES ASSUME NEW s \in Slots, worker'[s] # "none" PROVE inUse'[s]
        BY DEF SlotsAreExclusive
      <4> HIDE DEF TypeOK, WorkersAreListed, ListedAreAlive, PointersAreHeld, MainJoins,
                   QuietReportIsSafe, ManagerOutlivesThreads
      <4>1. CASE s = wmSlot
        BY <4>1, <3>3
      <4>2. CASE s # wmSlot
        BY <4>2, <3>2, <3>3, Zenon DEF SlotsAreExclusive
      <4> QED BY <4>1, <4>2
    <3>9. MainJoins' /\ QuietReportIsSafe' /\ ManagerOutlivesThreads'
      BY <2>1 DEF MainJoins, QuietReportIsSafe, ManagerOutlivesThreads
    <3> QED BY <3>6, <3>7, <3>8, <3>9
  <2> QED BY <1>2, <2>2, <2>3 DEF ManagerScan
<1>3. CASE ManagerDies
  BY <1>3 DEF ManagerDies
<1>4. CASE DownloadLoop
  BY <1>4 DEF DownloadLoop
<1>5. CASE Fetch
  BY <1>5 DEF Fetch
<1>6. CASE AddUnit
  BY <1>6 DEF AddUnit
<1>7. CASE UploadLoop
  <2>1. proc = "run" /\ upload # "ended"
    BY <1>7 DEF UploadLoop, Collect, Send, RemoveUnit
  <2>2. UNCHANGED UploadRest
    BY <1>7 DEF UploadLoop
  <2> QED BY <2>1, <2>2
<1> QED BY <1>1, <1>2, <1>3, <1>4, <1>5, <1>6, <1>7 DEF LoopStep, ItemStep

LEMMA LifeOfWorkers ==
  ASSUME IInv, NEW s \in Slots, Worker(s)
  PROVE  /\ WorkersAreListed' /\ PointersAreHeld' /\ MainJoins'
         /\ ListedAreAlive' /\ SlotsAreExclusive' /\ QuietReportIsSafe' /\ ManagerOutlivesThreads'
<1> USE DEF IInv, vars, mainVars, wmVars, store, uploadVars, DownloadRest, UploadRest,
            workerVars, statusVars, sinceLock, Defined, Undefined, WorkerRest, WorkerMoves,
            Reporting
<1> USE DEF WorkersAreListed, PointersAreHeld, MainJoins, ListedAreAlive, SlotsAreExclusive,
            QuietReportIsSafe, ManagerOutlivesThreads, TypeOK, ThreadTypes
<1>1. CASE Create(s)
  BY <1>1 DEF Create
<1>2. CASE Leak(s)
  BY <1>2 DEF Leak
<1>3. CASE AddThread(s)
  BY <1>3 DEF AddThread
<1>4. CASE EndSearch(s)
  BY <1>4 DEF EndSearch
<1>5. CASE ReturnItem(s)
  BY <1>5 DEF ReturnItem
<1>6. CASE ReturnThrows(s)
  BY <1>6 DEF ReturnThrows
<1>7. CASE RemoveThread(s)
  BY <1>7 DEF RemoveThread
<1>8. CASE DeleteState(s)
  BY <1>8 DEF DeleteState
<1> QED BY <1>1, <1>2, <1>3, <1>4, <1>5, <1>6, <1>7, <1>8 DEF Worker

LEMMA LifeOfStatus ==
  ASSUME IInv, StatusThread
  PROVE  /\ WorkersAreListed' /\ PointersAreHeld' /\ MainJoins'
         /\ ListedAreAlive' /\ SlotsAreExclusive' /\ QuietReportIsSafe' /\ ManagerOutlivesThreads'
<1> USE DEF IInv, vars, mainVars, wmVars, store, uploadVars, DownloadRest, UploadRest,
            workerVars, statusVars, sinceLock, Defined, Undefined, StatusRest
<1> DEFINE Goal == /\ WorkersAreListed' /\ PointersAreHeld' /\ MainJoins'
                   /\ ListedAreAlive' /\ SlotsAreExclusive' /\ QuietReportIsSafe'
                   /\ ManagerOutlivesThreads'
<1> USE DEF WorkersAreListed, PointersAreHeld, MainJoins, ListedAreAlive, SlotsAreExclusive,
            QuietReportIsSafe, ManagerOutlivesThreads, TypeOK, ThreadTypes
<1> USE SlotsAssumption
<1>1. CASE StatusLoop
  BY <1>1 DEF StatusLoop
<1>2. CASE Lock
  BY <1>2 DEF Lock
<1>3. CASE CopyState
  BY <1>3 DEF CopyState
<1>4. CASE Unlock
  BY <1>4 DEF Unlock
<1>5. ASSUME NEW s \in Slots, CheckItem(s) PROVE Goal
  BY <1>5 DEF CheckItem
<1>6. ASSUME NEW s \in Slots, Report(s) PROVE Goal
  BY <1>6 DEF Report
<1> QED BY <1>1, <1>2, <1>3, <1>4, <1>5, <1>6 DEF StatusThread

-----------------------------------------------------------------------------
(* Items *)

LEMMA OwingIsFinite == IsFiniteSet(Owing) /\ Cardinality(Owing) \in Nat
<1>1. IsFiniteSet(Slots)
  BY SlotsAssumption, FS_Interval DEF Slots
<1>2. IsFiniteSet(Owing)
  BY <1>1, FS_Subset DEF Owing
<1> QED BY <1>2, FS_CardinalityType

\* An item is taken for one worker, and at most given back by it.
LEMMA Conservation ==
  ASSUME IInv, [Next]_vars
  PROVE  ItemsAreConserved'
<1> USE DEF vars, mainVars, wmVars, store, uploadVars, DownloadRest, UploadRest,
            workerVars, statusVars, sinceLock, Defined, Undefined, WorkerRest, WorkerMoves,
            StatusRest
<1>1. /\ available \in Nat /\ available + Cardinality(Owing) <= units * UnitItems
      /\ units \in Nat /\ UnitItems \in Nat /\ Cardinality(Owing) \in Nat /\ IsFiniteSet(Owing)
      /\ worker \in [Slots -> {"none", "started", "adding", "working", "returning", "removing",
                               "deleting", "leaked"}]
  BY OwingIsFinite, NumbersAssumption, SMT DEF IInv, TypeOK, ThreadTypes, ItemsAreConserved
<1>2. CASE UNCHANGED <<available, units, worker>>
  <2>1. Owing' = Owing
    BY <1>2 DEF Owing
  <2> QED BY <1>1, <1>2, <2>1 DEF ItemsAreConserved
<1>3. CASE ManagerScan
  <2>1. CASE UNCHANGED <<available, worker>>
    BY <1>2, <1>3, <2>1 DEF ManagerScan
  <2>2. CASE ~inUse[wmSlot] /\ available > 0 /\ available' = available - 1
             /\ worker' = [worker EXCEPT ![wmSlot] = "started"]
    <3>1. wmSlot \in Slots /\ worker[wmSlot] = "none" /\ units' = units
      BY <1>3, <2>2 DEF ManagerScan, IInv, SlotsAreExclusive
    <3>2. wmSlot \notin Owing /\ Owing' = Owing \cup {wmSlot}
      BY <1>1, <2>2, <3>1 DEF Owing
    <3>3. Cardinality(Owing') = Cardinality(Owing) + 1
      BY <1>1, <3>2, FS_AddElement
    <3> DEFINE c == Cardinality(Owing)
               o == units * UnitItems
    <3>4. o \in Nat /\ c \in Nat /\ available + c <= o
      BY <1>1, SMT
    <3>5. available' \in Nat /\ available' + (c + 1) <= o
      <4> HIDE DEF c, o
      <4> QED BY <1>1, <2>2, <3>4, SMT
    <3> QED BY <3>1, <3>3, <3>5 DEF ItemsAreConserved
  <2> QED BY <1>3, <2>1, <2>2 DEF ManagerScan
<1>4. CASE ManagerDies
  <2>1. Owing' = Owing /\ units' = units /\ available > 0 /\ available' = available - 1
    BY <1>4 DEF ManagerDies, Owing
  <2> DEFINE c == Cardinality(Owing)
             o == units * UnitItems
  <2>2. o \in Nat /\ c \in Nat /\ available + c <= o
    BY <1>1, SMT
  <2>3. available' \in Nat /\ available' + c <= o
    <3> HIDE DEF c, o
    <3> QED BY <1>1, <2>1, <2>2, SMT
  <2> QED BY <2>1, <2>3 DEF ItemsAreConserved
<1>5. CASE AddUnit
  <2>1. CASE UNCHANGED <<units, available>>
    BY <1>2, <1>5, <2>1 DEF AddUnit
  <2>2. CASE units' = units + 1 /\ available' = available + UnitItems
    <3>1. Owing' = Owing
      BY <1>5 DEF AddUnit, Owing
    <3>2. (units + 1) * UnitItems = units * UnitItems + UnitItems
      BY <1>1, SMT
    <3> DEFINE c == Cardinality(Owing)
               o == units * UnitItems
    <3>3. o \in Nat /\ c \in Nat /\ available + c <= o
      BY <1>1, SMT
    <3>4. available' \in Nat /\ available' + c <= o + UnitItems
      <4> HIDE DEF c, o
      <4> QED BY <1>1, <2>2, <3>3, SMT
    <3> QED BY <2>2, <3>1, <3>2, <3>4 DEF ItemsAreConserved
  <2> QED BY <1>5, <2>1, <2>2 DEF AddUnit
<1>6. ASSUME NEW s \in Slots, Worker(s)
      PROVE  ItemsAreConserved'
  <2> DEFINE c == Cardinality(Owing)
             o == units * UnitItems
  <2>1. o \in Nat /\ c \in Nat /\ available + c <= o
    BY <1>1, SMT
  <2>2. CASE ReturnItem(s) \/ Leak(s)
    <3>1. /\ s \in Owing /\ Owing' = Owing \ {s} /\ units' = units
          /\ \E again \in {0, 1} : available' = available + again
      <4>1. CASE ReturnItem(s)
        BY <1>1, <4>1 DEF ReturnItem, Owing
      <4>2. CASE Leak(s)
        BY <1>1, <4>2, SMT DEF Leak, Owing
      <4> QED BY <2>2, <4>1, <4>2
    <3>2. Cardinality(Owing') = c - 1
      BY <1>1, <3>1, FS_RemoveElement
    <3>3. available' \in Nat /\ available' + (c - 1) <= o
      <4> HIDE DEF c, o
      <4> QED BY <1>1, <2>1, <3>1, SMT
    <3> QED BY <3>1, <3>2, <3>3 DEF ItemsAreConserved
  <2>3. CASE Create(s) \/ AddThread(s) \/ EndSearch(s) \/ ReturnThrows(s) \/ RemoveThread(s)
               \/ DeleteState(s)
    <3>1. units' = units /\ available' = available
      BY <2>3 DEF Create, AddThread, EndSearch, ReturnThrows, RemoveThread, DeleteState
    <3>2. Owing' = Owing
      BY <1>1, <2>3
      DEF Create, AddThread, EndSearch, ReturnThrows, RemoveThread, DeleteState, Owing
    <3> QED BY <1>1, <3>1, <3>2 DEF ItemsAreConserved
  <2> QED BY <1>6, <2>2, <2>3 DEF Worker
<1>7. CASE MainStep
  BY <1>2, <1>7 DEF MainStep, Configure, ConfigureFails, Watch, Join, DeleteManager, Return, CtrlC
<1>8. CASE LoopStep
  BY <1>2, <1>8 DEF LoopStep, ManagerLoop, DownloadLoop, Fetch, UploadLoop
<1>9. CASE StatusThread
  BY <1>2, <1>9 DEF StatusThread, StatusLoop, Lock, CopyState, Unlock, CheckItem, Report
<1>10. CASE UNCHANGED vars
  BY <1>2, <1>10
<1> QED BY <1>3, <1>4, <1>5, <1>6, <1>7, <1>8, <1>9, <1>10 DEF Next, MainStep, LoopStep

\* As many items as the units received have, at most.
LEMMA AvailableIsBounded ==
  ASSUME NEW c \in Nat, NEW n \in 0 .. MaxUnits, NEW a \in Nat, a + c <= n * UnitItems
  PROVE  a \in 0 .. MaxUnits * UnitItems
<1>1. n * UnitItems <= MaxUnits * UnitItems /\ n * UnitItems \in Nat
        /\ MaxUnits * UnitItems \in Nat
  BY NumbersAssumption, SMT
<1> DEFINE o == n * UnitItems
           m == MaxUnits * UnitItems
<1>2. o \in Nat /\ m \in Nat /\ o <= m /\ a + c <= o
  BY <1>1
<1>3. a \in 0 .. m
  <2> HIDE DEF o, m
  <2> QED BY <1>2, SMT
<1> QED BY <1>3

LEMMA Types ==
  ASSUME IInv, [Next]_vars
  PROVE  TypeOK'
<1> USE DEF vars, mainVars, wmVars, store, uploadVars, DownloadRest, UploadRest,
            workerVars, statusVars, sinceLock, Defined, Undefined, WorkerRest, WorkerMoves,
            StatusRest
<1>1. ThreadTypes
  BY DEF IInv, TypeOK
<1>2. available' \in 0 .. MaxUnits * UnitItems \/ units' \notin 0 .. MaxUnits
  <2>1. ItemsAreConserved'
    BY Conservation
  <2>2. Cardinality(Owing)' \in Nat
    <3>1. IsFiniteSet(Slots) /\ Owing' \subseteq Slots
      BY SlotsAssumption, FS_Interval DEF Slots, Owing
    <3> QED BY <3>1, FS_Subset, FS_CardinalityType
  <2> QED BY <2>1, <2>2, AvailableIsBounded DEF ItemsAreConserved
<1>3. ThreadTypes' => TypeOK'
  BY <1>2 DEF TypeOK, ThreadTypes
<1> HIDE DEF TypeOK
<1> USE SlotsAssumption, NumbersAssumption
<1> USE DEF ThreadTypes
<1>4. ASSUME NEW ids \in [Slots -> 0 .. NumGpus + 1], Configure(ids) PROVE ThreadTypes'
  BY <1>1, <1>4 DEF Configure
<1>5. ASSUME ConfigureFails \/ Watch \/ Join \/ DeleteManager \/ Return \/ CtrlC PROVE ThreadTypes'
  <2>1. ASSUME ConfigureFails \/ DeleteManager \/ Return PROVE ThreadTypes'
    BY <1>1, <2>1 DEF ConfigureFails, DeleteManager, Return
  <2>2. ASSUME Watch PROVE ThreadTypes'
    BY <1>1, <2>2 DEF Watch
  <2>3. ASSUME Join PROVE ThreadTypes'
    BY <1>1, <2>3 DEF Join
  <2>4. ASSUME CtrlC PROVE ThreadTypes'
    <3>1. running' \in BOOLEAN
      BY <2>4, Zenon DEF CtrlC
    <3>2. UNCHANGED <<proc, cause, mainVars, store, wmVars, download, uploadVars, workerVars,
                       statusVars, sinceLock>>
      BY <2>4 DEF CtrlC
    <3> QED BY <1>1, <3>1, <3>2
  <2> QED BY <1>5, <2>1, <2>2, <2>3, <2>4
<1>6. ASSUME ManagerLoop PROVE ThreadTypes'
  BY <1>1, <1>6 DEF ManagerLoop, Slots
<1>7. ASSUME ManagerScan PROVE ThreadTypes'
  <2>1. wmSlot' \in 1 .. NumSlots + 1 /\ wmSlot \in Slots
    BY <1>1, <1>7, SMT DEF ManagerScan, Slots
  <2>2. inUse' \in [Slots -> BOOLEAN]
    BY <1>1, <1>7, <2>1, Zenon DEF ManagerScan
  <2>3. worker' \in [Slots -> {"none", "started", "adding", "working", "returning", "removing",
                               "deleting", "leaked"}]
    BY <1>1, <1>7, <2>1 DEF ManagerScan
  <2>4. UNCHANGED <<proc, cause, running, mainVars, units, stuck, wm, download, uploadVars, item,
                     list, statusVars, sinceLock>>
    BY <1>7 DEF ManagerScan
  <2> QED BY <1>1, <2>1, <2>2, <2>3, <2>4
<1>8. ASSUME ManagerDies PROVE ThreadTypes'
  <2>1. inUse' \in [Slots -> BOOLEAN] /\ running' \in BOOLEAN
    BY <1>1, <1>8, Zenon DEF ManagerDies
  <2>2. wm' = "ended"
    BY <1>8 DEF ManagerDies
  <2>3. UNCHANGED <<proc, cause, mainVars, units, stuck, wmSlot, download, uploadVars, worker,
                     item, list, statusVars, sinceLock>>
    BY <1>8 DEF ManagerDies
  <2> QED BY <1>1, <2>1, <2>2, <2>3
<1>9. ASSUME DownloadLoop PROVE ThreadTypes'
  BY <1>1, <1>9 DEF DownloadLoop
<1>10. ASSUME Fetch PROVE ThreadTypes'
  BY <1>1, <1>10 DEF Fetch
<1>11. ASSUME AddUnit PROVE ThreadTypes'
  <2>1. units' \in 0 .. MaxUnits
    BY <1>1, <1>11, SMT DEF AddUnit
  <2>2. stuck' \in BOOLEAN
    BY <1>1, <1>11, Zenon DEF AddUnit
  <2>3. download' = "sleep" /\ UNCHANGED DownloadRest
    BY <1>11 DEF AddUnit
  <2> QED BY <1>1, <2>1, <2>2, <2>3
<1>12. ASSUME UploadLoop PROVE ThreadTypes'
  <2>1. UNCHANGED UploadRest
    BY <1>12 DEF UploadLoop
  <2>2. ASSUME NEW n \in 0 .. MaxUnits, SendRest(n)
        PROVE  /\ toSend' \in 0 .. MaxUnits /\ upload' \in {"sleep", "send"}
               /\ upload' = "send" => toSend' > 0
    BY <2>2, SMT DEF SendRest
  <2>3. /\ toSend \in 0 .. MaxUnits /\ units \in 0 .. MaxUnits /\ stuck \in BOOLEAN
        /\ upload \in {"send", "remove"} => toSend - 1 \in 0 .. MaxUnits
    BY <1>1, SMT
  <2> DEFINE Sent == /\ toSend' \in 0 .. MaxUnits /\ stuck' \in BOOLEAN
                     /\ upload' \in {"sleep", "waits", "send", "remove", "hung", "ended"}
                     /\ upload' \in {"send", "remove"} => toSend' > 0
  <2>4. ASSUME upload' = "ended", UNCHANGED <<toSend, stuck>>
        PROVE  Sent
    BY <2>3, <2>4
  <2>5. ASSUME Collect PROVE Sent
    BY <2>2, <2>3, <2>5, SMT DEF Collect
  <2>6. ASSUME Send PROVE Sent
    BY <2>2, <2>3, <2>6, SMT DEF Send
  <2>7. ASSUME RemoveUnit PROVE Sent
    BY <2>2, <2>3, <2>7, SMT DEF RemoveUnit
  <2>8. Sent
    BY <1>12, <2>4, <2>5, <2>6, <2>7 DEF UploadLoop
  <2> QED BY <1>1, <2>1, <2>8
<1>13. ASSUME NEW s \in Slots, Create(s) PROVE ThreadTypes'
  BY <1>1, <1>13 DEF Create
<1>14. ASSUME NEW s \in Slots, Leak(s) PROVE ThreadTypes'
  BY <1>1, <1>14 DEF Leak
<1>15. ASSUME NEW s \in Slots, AddThread(s) PROVE ThreadTypes'
  BY <1>1, <1>15 DEF AddThread
<1>16. ASSUME NEW s \in Slots, EndSearch(s) PROVE ThreadTypes'
  BY <1>1, <1>16 DEF EndSearch
<1>17. ASSUME NEW s \in Slots, ReturnItem(s) PROVE ThreadTypes'
  BY <1>1, <1>17 DEF ReturnItem
<1>18. ASSUME NEW s \in Slots, ReturnThrows(s) PROVE ThreadTypes'
  BY <1>1, <1>18 DEF ReturnThrows
<1>19. ASSUME NEW s \in Slots, RemoveThread(s) PROVE ThreadTypes'
  BY <1>1, <1>19 DEF RemoveThread
<1>20. ASSUME NEW s \in Slots, DeleteState(s) PROVE ThreadTypes'
  BY <1>1, <1>20 DEF DeleteState
<1>21. ASSUME StatusLoop PROVE ThreadTypes'
  BY <1>1, <1>21 DEF StatusLoop
<1>22. ASSUME Lock PROVE ThreadTypes'
  BY <1>1, <1>22 DEF Lock
<1>23. ASSUME CopyState PROVE ThreadTypes'
  BY <1>1, <1>23 DEF CopyState
<1>24. ASSUME Unlock PROVE ThreadTypes'
  BY <1>1, <1>24 DEF Unlock
<1>25. ASSUME NEW s \in Slots, CheckItem(s) PROVE ThreadTypes'
  BY <1>1, <1>25 DEF CheckItem
<1>26. ASSUME NEW s \in Slots, Report(s) PROVE ThreadTypes'
  BY <1>1, <1>26 DEF Report
<1>27. ASSUME UNCHANGED vars PROVE ThreadTypes'
  BY <1>1, <1>27
<1> QED
  BY <1>3, <1>4, <1>5, <1>6, <1>7, <1>8, <1>9, <1>10, <1>11, <1>12, <1>13,
     <1>14, <1>15, <1>16, <1>17, <1>18, <1>19, <1>20, <1>21, <1>22, <1>23, <1>24, <1>25,
     <1>26, <1>27
  DEF Next, Worker, StatusThread

LEMMA NextInvariant ==
  IInv /\ [Next]_vars => IInv'
<1> SUFFICES ASSUME IInv, [Next]_vars
             PROVE  IInv'
  OBVIOUS
<1>1. TypeOK' /\ ItemsAreConserved'
  BY Types, Conservation
<1>2. CASE Next
  <2>1. CASE MainStep
    BY <1>1, <2>1, LifeOfMain DEF IInv
  <2>2. CASE LoopStep \/ ItemStep
    BY <1>1, <2>2, LifeOfLoops DEF IInv
  <2>3. ASSUME NEW s \in Slots, Worker(s) PROVE IInv'
    BY <1>1, <2>3, LifeOfWorkers DEF IInv
  <2>4. CASE StatusThread
    BY <1>1, <2>4, LifeOfStatus DEF IInv
  <2> QED BY <1>2, <2>1, <2>2, <2>3, <2>4 DEF Next, MainStep, LoopStep, ItemStep
<1>3. CASE UNCHANGED vars
  BY <1>1, <1>3
  DEF IInv, vars, mainVars, wmVars, store, uploadVars, workerVars, statusVars, sinceLock,
     WorkersAreListed, PointersAreHeld, MainJoins, ListedAreAlive, SlotsAreExclusive,
     QuietReportIsSafe, ManagerOutlivesThreads
<1> QED BY <1>2, <1>3

\* For any number of devices, GPUs and work items: a state is deleted only
\* after it has left the list, a report fails only against a worker that ended
\* since the lock, a slot has one worker, and main deletes the manager last.
THEOREM LifetimesAreOrderedThm == Spec => []LifetimesAreOrdered
<1>1. IInv => LifetimesAreOrdered
  BY DEF IInv, LifetimesAreOrdered
<1> QED BY <1>1, InitInvariant, NextInvariant, PTL DEF Spec
=============================================================================
