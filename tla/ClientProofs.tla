------------------------------ MODULE ClientProofs -----------------------------
(***************************************************************************)
(* The safety properties of the client, for any units, items, GPUs and     *)
(* faults.  A unit in memory says of every item whether it is left, and    *)
(* what is not left was searched; an item in a thread's hands is left and  *)
(* marked as handed out; a result in the upload thread's hands is that of  *)
(* a unit which is finished and still in the map.                          *)
(***************************************************************************)
EXTENDS Client, FiniteSetTheorems, TLAPS

\* wu, files and searched are functions of the units, which TypeOK does not say.
Shapes ==
  /\ wu = [u \in Units |-> wu[u]]
  /\ files = [u \in Units |-> files[u]]
  /\ searched = [u \in Units |-> searched[u]]

KeyIn(u, items) == \E i \in items : <<u, i>> \in KeyItems

\* A unit in memory, of which the GPUs have searched done.
Sound(u, w, done) ==
  /\ w.available = Items(u) \ w.completed
  /\ w.completed \subseteq done
  /\ w.key <=> KeyIn(u, w.completed)

UnitsOK == \A u \in units : Sound(u, wu[u], searched[u])

SlotsOK ==
  \A s \in Slots : slot[s].state # "free" =>
    /\ slot[s].unit \in units
    /\ slot[s].item \in wu[slot[s].unit].available
    /\ slot[s].item \in wu[slot[s].unit].outstanding
    /\ slot[s].state = "completed" => slot[s].item \in searched[slot[s].unit]
    /\ \A t \in Slots \ {s} : slot[t].state # "free" =>
         <<slot[t].unit, slot[t].item>> # <<slot[s].unit, slot[s].item>>

Finished(u) == u \in units /\ Done(wu[u])

BatchOK == \A r \in batch : Finished(r.unit) /\ r.key = wu[r.unit].key

Answered(u) == u \in refused \/ \E r \in accepted : r.unit = u

UploadedOK ==
  uploaded # NoUnit =>
    /\ Finished(uploaded) /\ Answered(uploaded)
    /\ \A r \in batch : r.unit # uploaded

\* A process that is not running has nothing in memory.
DownOK ==
  proc # "up" =>
    /\ batch = {} /\ uploaded = NoUnit
    /\ \A s \in Slots : slot[s] = Idle

IInv ==
  /\ TypeOK /\ Shapes
  /\ UnitsOK /\ SlotsOK /\ BatchOK /\ UploadedOK /\ DownOK /\ MapOnDisk
  /\ AcceptedIsSearched /\ KeyIsReported
  /\ DiskIsSearched /\ StoredUntilAnswered

-----------------------------------------------------------------------------
(* Work units *)

\* A finite set of integers that is not empty has a least element.
LEMMA Least ==
  ASSUME NEW F, F \subseteq Int, IsFiniteSet(F), F # {}
  PROVE  \E i \in F : \A j \in F : i <= j
<1> DEFINE Below(i) == {j \in F : j < i}
           T == {Below(i) : i \in F}
<1>1. FiniteSubsetsOf(F) = SUBSET F
  BY FS_FiniteSubsetsOfFinite
<1>2. IsWellFoundedOn(StrictSubsetOrdering(F), SUBSET F)
  BY <1>1, FS_StrictSubsetOrderingWellFounded
<1>3. T \subseteq SUBSET F /\ T # {}
  OBVIOUS
<1>4. PICK X \in T : \A Y \in T : <<Y, X>> \notin StrictSubsetOrdering(F)
  <2> HIDE DEF T
  <2> QED BY <1>2, <1>3, WFMin
<1>5. PICK i \in F : X = Below(i)
  OBVIOUS
<1>6. ASSUME NEW j \in F, j < i
      PROVE  FALSE
  <2>1. Below(j) \subseteq Below(i) /\ Below(j) # Below(i)
    <3>1. j \in Below(i) /\ j \notin Below(j) /\ i \in Int /\ j \in Int
      BY <1>6
    <3>2. \A k \in F : k < j => k < i
      BY <1>6, <3>1
    <3>3. Below(j) \subseteq Below(i)
      BY <3>2
    <3> QED BY <3>1, <3>3
  <2>2. Below(j) \in T /\ Below(j) \in SUBSET F /\ Below(i) \in SUBSET F
    OBVIOUS
  <2>3. <<Below(j), Below(i)>> \in StrictSubsetOrdering(F)
    <3> HIDE DEF Below
    <3> QED BY <2>1, <2>2 DEF StrictSubsetOrdering
  <2> QED BY <1>4, <1>5, <2>2, <2>3
<1> QED BY <1>6

LEMMA NextItemIsFree ==
  ASSUME NEW u \in Units, NEW w \in WorkUnitsOf(u), Free(w) # {}
  PROVE  NextItem(w) \in w.available /\ NextItem(w) \notin w.outstanding
<1>1. NumItems[u] \in Nat
  BY UnitsAssumption
<1>2. Free(w) \subseteq 0 .. NumItems[u] - 1
  BY DEF Free, WorkUnitsOf, Items
<1>3. IsFiniteSet(0 .. NumItems[u] - 1)
  BY <1>1, FS_Interval
<1>4. IsFiniteSet(Free(w)) /\ Free(w) \subseteq Int
  BY <1>1, <1>2, <1>3, FS_Subset
<1>5. \E i \in Free(w) : \A j \in Free(w) : i <= j
  BY <1>4, Least
<1>6. NextItem(w) \in Free(w)
  BY <1>5 DEF NextItem
<1> QED BY <1>6 DEF Free

LEMMA RestoredIsSound ==
  ASSUME NEW u \in Units, NEW finished \in SUBSET Items(u), NEW found \in BOOLEAN,
         NEW done, finished \subseteq done, found <=> KeyIn(u, finished)
  PROVE  /\ Restored(NumItems[u], finished, found) \in WorkUnitsOf(u)
         /\ Sound(u, Restored(NumItems[u], finished, found), done)
BY DEF Restored, WorkUnitsOf, Sound, Items

LEMMA CreatedIsSound ==
  ASSUME NEW u \in Units, NEW done
  PROVE  /\ Created(NumItems[u]) \in WorkUnitsOf(u)
         /\ Sound(u, Created(NumItems[u]), done)
BY RestoredIsSound DEF Created, KeyIn

LEMMA TakenIsSound ==
  ASSUME NEW u \in Units, NEW w \in WorkUnitsOf(u), NEW done, Sound(u, w, done),
         NEW i \in Items(u)
  PROVE  /\ Taken(w, i) \in WorkUnitsOf(u)
         /\ Sound(u, Taken(w, i), done)
         /\ Taken(w, i).available = w.available
         /\ Taken(w, i).outstanding = w.outstanding \cup {i}
BY DEF Taken, WorkUnitsOf, Sound

\* A report of an item that was handed out and is left: only this item changes.
LEMMA ReportedIsSound ==
  ASSUME NEW u \in Units, NEW w \in WorkUnitsOf(u), NEW done, Sound(u, w, done),
         NEW i \in w.available, i \in w.outstanding,
         NEW status \in {"completed", "aborted"},
         NEW found \in BOOLEAN, 
         found <=> status = "completed" /\ <<u, i>> \in KeyItems,
         status = "completed" => i \in done
  PROVE  LET r == Reported(w, i, status, found)
         IN  /\ r \in WorkUnitsOf(u)
             /\ Sound(u, r, done)
             /\ w.available \ {i} \subseteq r.available
             /\ w.outstanding \ {i} \subseteq r.outstanding
<1>1. CASE status = "completed"
  BY <1>1 DEF Reported, WorkUnitsOf, Sound, KeyIn
<1>2. CASE status = "aborted"
  BY <1>2 DEF Reported, WorkUnitsOf, Sound, KeyIn
<1> QED BY <1>1, <1>2

LEMMA FinishedIsSearched ==
  ASSUME NEW u \in Units, NEW w \in WorkUnitsOf(u), NEW done, done \subseteq Items(u),
         Sound(u, w, done), Done(w)
  PROVE  done = Items(u) /\ (w.key <=> HasKey(u))
BY DEF Sound, Done, WorkUnitsOf, HasKey, KeyIn

\* What a save leaves on disk.
LEMMA FileKinds ==
  ASSUME NEW u \in Units, NEW w \in WorkUnitsOf(u), NEW done, Sound(u, w, done)
  PROVE  /\ WorkFile(w) # NoFile /\ WorkFile(w) # TornFile /\ TornFile # NoFile
         /\ WorkFile(w).state = "saved" /\ TornFile.state # "saved" /\ NoFile.state # "saved"
         /\ WorkFile(w) \in [state : {"saved"},
                             unit : [completed : SUBSET Items(u), key : BOOLEAN]]
         /\ WorkFile(w).unit.completed \subseteq done
         /\ WorkFile(w).unit.key <=> KeyIn(u, WorkFile(w).unit.completed)
<1>1. /\ WorkFile(w).state = "saved" /\ WorkFile(w).unit = Saved(w)
      /\ TornFile.state = "torn" /\ NoFile.state = "none"
  BY DEF WorkFile, TornFile, NoFile
<1>2. Saved(w) \in [completed : SUBSET Items(u), key : BOOLEAN]
  BY DEF Saved, WorkUnitsOf
<1>3. /\ Saved(w).completed \subseteq done
      /\ Saved(w).key <=> KeyIn(u, Saved(w).completed)
  BY DEF Saved, WorkUnitsOf, Sound
<1>4. WorkFile(w) # NoFile /\ WorkFile(w) # TornFile /\ TornFile # NoFile
  BY <1>1
<1>5. WorkFile(w) \in [state : {"saved"},
                       unit : [completed : SUBSET Items(u), key : BOOLEAN]]
  BY <1>2 DEF WorkFile
<1> QED BY <1>1, <1>3, <1>4, <1>5

\* The disk keeps what it says when one file is saved, torn or not.
LEMMA SaveKeepsDisk ==
  ASSUME IInv, NEW u \in Units, NEW w \in WorkUnitsOf(u), Sound(u, w, searched[u]),
         NEW torn \in BOOLEAN, Save(u, w, torn),
         UNCHANGED <<searched, accepted, refused>>,
         stored' \subseteq stored \cup {u}
  PROVE  /\ DiskIsSearched' /\ StoredUntilAnswered'
         /\ files' = [v \in Units |-> files'[v]]
         /\ \A v \in Units :
              \/ files'[v] \in {NoFile, TornFile}
              \/ files'[v] \in [state : {"saved"},
                                unit : [completed : SUBSET Items(v), key : BOOLEAN]]
         /\ files'[u] # NoFile /\ \A v \in Units \ {u} : files'[v] = files[v]
<1>1. /\ files' = [v \in Units |-> files'[v]]
      /\ files'[u] = TornFile \/ files'[u] = WorkFile(w)
      /\ \A v \in Units \ {u} : files'[v] = files[v]
  BY DEF IInv, Shapes, Save
<1>2. files'[u] # NoFile
  BY <1>1, FileKinds
<1>3. StoredUntilAnswered'
  BY <1>1, <1>2 DEF IInv, StoredUntilAnswered, TypeOK
<1>4. DiskIsSearched'
  <2>1. ASSUME NEW v \in Units, files'[v].state = "saved"
        PROVE  /\ files'[v].unit.completed \subseteq searched[v]
               /\ files'[v].unit.key <=> KeyIn(v, files'[v].unit.completed)
    <3>1. CASE v = u
      <4>1. files'[u] = WorkFile(w)
        BY <1>1, <2>1, <3>1, FileKinds
      <4> QED BY <4>1, <3>1, FileKinds
    <3>2. CASE v # u
      BY <1>1, <2>1, <3>2 DEF IInv, DiskIsSearched, KeyIn
    <3> QED BY <3>1, <3>2
  <2> QED BY <2>1 DEF DiskIsSearched, KeyIn
<1>5. ASSUME NEW v \in Units
      PROVE  \/ files'[v] \in {NoFile, TornFile}
             \/ files'[v] \in [state : {"saved"},
                               unit : [completed : SUBSET Items(v), key : BOOLEAN]]
  BY <1>1, FileKinds DEF IInv, TypeOK, ManagerTypeOK
<1> QED BY <1>1, <1>2, <1>3, <1>4, <1>5

\* Of a unit of which an item is in a thread's hands there is no result.
LEMMA HeldIsUnfinished ==
  ASSUME IInv, NEW s \in Slots, slot[s].state # "free"
  PROVE  ~Finished(slot[s].unit)
BY DEF IInv, SlotsOK, Finished, Done

-----------------------------------------------------------------------------
(* Steps that leave the manager alone, or change it without a report *)

LEMMA DownloadThreadSteps ==
  ASSUME IInv, FindTooLittle \/ NoDownload \/ UNCHANGED vars
  PROVE  IInv'
<1> USE DEF IInv, TypeOK, ManagerTypeOK, vars, managerVars, threadVars, history, bounds
<1>1. /\ UNCHANGED <<managerVars, proc, slot, batch, uploaded, history, bounds>>
      /\ fetching' \in BOOLEAN
  BY DEF FindTooLittle, NoDownload
<1>2. TypeOK' /\ Shapes' /\ UnitsOK'
  BY <1>1 DEF Shapes, UnitsOK
<1>3. SlotsOK' /\ BatchOK' /\ UploadedOK' /\ DownOK' /\ MapOnDisk'
  BY <1>1 DEF SlotsOK, BatchOK, UploadedOK, DownOK, MapOnDisk, Finished, Answered
<1>4. AcceptedIsSearched' /\ KeyIsReported' /\ DiskIsSearched' /\ StoredUntilAnswered'
  BY <1>1 DEF AcceptedIsSearched, KeyIsReported, DiskIsSearched, StoredUntilAnswered
<1> QED BY <1>2, <1>3, <1>4

\* A unit enters the map.
LEMMA EnterMap ==
  ASSUME IInv, proc = "up", NEW u \in Units, u \notin units,
         units' = units \cup {u},
         wu' = [wu EXCEPT ![u] = Created(NumItems[u])],
         UNCHANGED <<proc, slot, batch, uploaded, accepted, refused, searched>>
  PROVE  /\ wu' = [v \in Units |-> wu'[v]] /\ wu'[u] = Created(NumItems[u])
         /\ \A v \in Units : wu'[v] \in WorkUnitsOf(v)
         /\ UnitsOK' /\ SlotsOK' /\ BatchOK' /\ UploadedOK' /\ DownOK'
         /\ AcceptedIsSearched' /\ KeyIsReported'
<1> USE DEF IInv
<1>1. /\ Created(NumItems[u]) \in WorkUnitsOf(u)
      /\ Sound(u, Created(NumItems[u]), searched[u])
      /\ wu' = [v \in Units |-> wu'[v]] /\ wu'[u] = Created(NumItems[u])
      /\ \A v \in Units \ {u} : wu'[v] = wu[v]
  BY CreatedIsSound DEF Shapes
<1>2. \A v \in Units : wu'[v] \in WorkUnitsOf(v)
  BY <1>1 DEF TypeOK, ManagerTypeOK
<1>3. units \subseteq Units
  BY DEF TypeOK, ManagerTypeOK
<1>4. UnitsOK'
  BY <1>1, <1>3 DEF UnitsOK
<1>5. SlotsOK'
  BY <1>1, <1>3 DEF SlotsOK
<1>6. \A v \in Units : Finished(v) => Finished(v)' /\ wu'[v] = wu[v]
  BY <1>1 DEF Finished
<1>7. BatchOK' /\ UploadedOK' /\ DownOK'
  BY <1>6 DEF BatchOK, UploadedOK, DownOK, Answered, TypeOK, Results
<1>8. AcceptedIsSearched' /\ KeyIsReported'
  BY DEF AcceptedIsSearched, KeyIsReported
<1> QED BY <1>1, <1>2, <1>4, <1>5, <1>7, <1>8

LEMMA FaultBound ==
  ASSUME TypeOK
  PROVE  /\ \A kind : Fault(kind) => faults' \in 0 .. MaxFaults
         /\ \A torn : TornSave(torn) => faults' \in 0 .. MaxFaults
         /\ sends < MaxSends /\ sends' = sends + 1 => sends' \in 0 .. MaxSends
BY BoundsAssumption DEF TypeOK, TornSave, Fault

LEMMA DownloadStep ==
  ASSUME IInv, NEW u \in Units, Download(u)
  PROVE  IInv'
<1> USE DEF IInv
<1>1. PICK torn \in BOOLEAN : Add(u, torn) /\ TornSave(torn)
  BY DEF Download
<1>2. /\ proc = "up" /\ sends < MaxSends /\ sends' = sends + 1
      /\ fetching' = FALSE /\ stored' = stored \cup {u}
      /\ UNCHANGED <<proc, slot, batch, uploaded, accepted, refused, searched>>
  BY DEF Download
<1>3. sends' \in 0 .. MaxSends /\ faults' \in 0 .. MaxFaults
  BY <1>1, <1>2, FaultBound
<1>4. CASE u \in units
  <2>1. UNCHANGED managerVars /\ files[u] # NoFile
    BY <1>1, <1>4 DEF Add, MapOnDisk
  <2>2. TypeOK' /\ Shapes'
    BY <1>2, <1>3, <2>1 DEF TypeOK, ManagerTypeOK, managerVars, Shapes
  <2>3. UnitsOK' /\ SlotsOK' /\ BatchOK' /\ UploadedOK' /\ DownOK' /\ MapOnDisk'
    BY <1>2, <2>1 DEF UnitsOK, SlotsOK, BatchOK, UploadedOK, DownOK, MapOnDisk,
                      Finished, Answered, managerVars
  <2>4. AcceptedIsSearched' /\ KeyIsReported' /\ DiskIsSearched' /\ StoredUntilAnswered'
    BY <1>2, <2>1 DEF AcceptedIsSearched, KeyIsReported, DiskIsSearched,
                      StoredUntilAnswered, managerVars
  <2> QED BY <2>2, <2>3, <2>4
<1>5. CASE u \notin units
  <2>1. /\ ~stuck /\ units' = units \cup {u} /\ UNCHANGED <<archived, stuck>>
        /\ wu' = [wu EXCEPT ![u] = Created(NumItems[u])] /\ Save(u, wu'[u], torn)
    BY <1>1, <1>5 DEF Add
  <2>2. /\ wu' = [v \in Units |-> wu'[v]] /\ wu'[u] = Created(NumItems[u])
        /\ \A v \in Units : wu'[v] \in WorkUnitsOf(v)
        /\ UnitsOK' /\ SlotsOK' /\ BatchOK' /\ UploadedOK' /\ DownOK'
        /\ AcceptedIsSearched' /\ KeyIsReported'
    BY <1>2, <1>5, <2>1, EnterMap
  <2>3. wu'[u] \in WorkUnitsOf(u) /\ Sound(u, wu'[u], searched[u])
    BY <2>2, CreatedIsSound
  <2>4. /\ DiskIsSearched' /\ StoredUntilAnswered'
        /\ files' = [v \in Units |-> files'[v]]
        /\ \A v \in Units :
             \/ files'[v] \in {NoFile, TornFile}
             \/ files'[v] \in [state : {"saved"},
                               unit : [completed : SUBSET Items(v), key : BOOLEAN]]
        /\ files'[u] # NoFile /\ \A v \in Units \ {u} : files'[v] = files[v]
    BY <1>2, <2>1, <2>3, SaveKeepsDisk
  <2>5. TypeOK' /\ Shapes'
    BY <1>2, <1>3, <2>1, <2>2, <2>4 DEF TypeOK, ManagerTypeOK, Shapes
  <2>6. MapOnDisk'
    BY <2>1, <2>4 DEF MapOnDisk, TypeOK, ManagerTypeOK
  <2> QED BY <2>2, <2>4, <2>5, <2>6
<1> QED BY <1>4, <1>5

LEMMA DownloadThrowsStep ==
  ASSUME IInv, NEW u \in Units, DownloadThrows(u)
  PROVE  IInv'
<1> USE DEF IInv
<1>1. /\ proc = "up" /\ sends < MaxSends /\ sends' = sends + 1 /\ fetching' = FALSE
      /\ UNCHANGED <<proc, slot, batch, uploaded, accepted, refused, stored, searched>>
  BY DEF DownloadThrows, history
<1>2. /\ u \notin units /\ units' = units \cup {u} /\ stuck' = TRUE
      /\ wu' = [wu EXCEPT ![u] = Created(NumItems[u])] /\ UNCHANGED <<files, archived>>
  BY DEF DownloadThrows, AddThrows
<1>3. sends' \in 0 .. MaxSends /\ faults' \in 0 .. MaxFaults
  BY <1>1, FaultBound DEF DownloadThrows
<1>4. /\ wu' = [v \in Units |-> wu'[v]]
      /\ \A v \in Units : wu'[v] \in WorkUnitsOf(v)
      /\ UnitsOK' /\ SlotsOK' /\ BatchOK' /\ UploadedOK' /\ DownOK'
      /\ AcceptedIsSearched' /\ KeyIsReported'
  BY <1>1, <1>2, EnterMap
<1>5. TypeOK' /\ Shapes'
  BY <1>1, <1>2, <1>3, <1>4 DEF TypeOK, ManagerTypeOK, Shapes
<1>6. MapOnDisk' /\ DiskIsSearched' /\ StoredUntilAnswered'
  BY <1>1, <1>2 DEF MapOnDisk, DiskIsSearched, StoredUntilAnswered
<1> QED BY <1>4, <1>5, <1>6

-----------------------------------------------------------------------------
(* The workers *)

LEMMA SlotTypes ==
  ASSUME IInv, NEW s \in Slots, slot[s].state # "free"
  PROVE  /\ slot[s] \in [state : {"running", "completed", "aborted", "leaked"},
                         unit : Units, item : AllItems]
         /\ slot[s].unit \in units /\ slot[s].unit \in Units
         /\ slot[s].item \in Items(slot[s].unit)
<1>1. slot[s] \in [state : {"running", "completed", "aborted", "leaked"},
                   unit : Units, item : AllItems]
  BY DEF IInv, TypeOK, Idle
<1>2. slot[s].unit \in units /\ slot[s].item \in wu[slot[s].unit].available
  BY DEF IInv, SlotsOK
<1>3. slot[s].unit \in Units /\ wu[slot[s].unit] \in WorkUnitsOf(slot[s].unit)
  BY <1>2 DEF IInv, TypeOK, ManagerTypeOK
<1> QED BY <1>1, <1>2, <1>3 DEF WorkUnitsOf

LEMMA StartWorkerStep ==
  ASSUME IInv, NEW s \in Slots, StartWorker(s)
  PROVE  IInv'
<1> USE DEF IInv
<1>1. PICK u \in Units :
        /\ GetWork(u)
        /\ slot' = [slot EXCEPT ![s] = [state |-> "running", unit |-> u,
                                        item |-> NextItem(wu[u])]]
  BY DEF StartWorker
<1> DEFINE i == NextItem(wu[u])
<1>2. /\ slot[s] = Idle /\ proc = "up"
      /\ ~stuck /\ u \in units /\ ~Done(wu[u]) /\ Free(wu[u]) # {}
      /\ wu' = [wu EXCEPT ![u] = Taken(wu[u], i)]
      /\ UNCHANGED <<units, files, archived, stuck, proc, fetching, batch, uploaded, history,
                     bounds>>
  BY <1>1 DEF StartWorker, GetWork
<1>3. wu[u] \in WorkUnitsOf(u) /\ Sound(u, wu[u], searched[u])
  BY <1>2 DEF TypeOK, ManagerTypeOK, UnitsOK
<1>4. i \in wu[u].available /\ i \notin wu[u].outstanding
  BY <1>2, <1>3, NextItemIsFree
<1>5. i \in Items(u) /\ i \in AllItems
  BY <1>3, <1>4 DEF WorkUnitsOf, AllItems
<1> HIDE DEF i
<1>6. /\ Taken(wu[u], i) \in WorkUnitsOf(u)
      /\ Sound(u, Taken(wu[u], i), searched[u])
      /\ Taken(wu[u], i).available = wu[u].available
      /\ Taken(wu[u], i).outstanding = wu[u].outstanding \cup {i}
  BY <1>3, <1>5, TakenIsSound
<1>7. /\ wu' = [v \in Units |-> wu'[v]] /\ wu'[u] = Taken(wu[u], i)
      /\ \A v \in Units \ {u} : wu'[v] = wu[v]
  BY <1>2 DEF Shapes
<1>8. /\ slot'[s] = [state |-> "running", unit |-> u, item |-> i]
      /\ \A t \in Slots \ {s} : slot'[t] = slot[t]
      /\ slot' \in [Slots -> {Idle} \cup
                      [state : {"running", "completed", "aborted", "leaked"},
                       unit : Units, item : AllItems]]
  BY <1>1, <1>5 DEF TypeOK, i
<1>9. \A v \in Units : /\ wu'[v].available = wu[v].available
                       /\ wu[v].outstanding \subseteq wu'[v].outstanding
  BY <1>6, <1>7
<1>10. TypeOK' /\ Shapes'
  BY <1>2, <1>6, <1>7, <1>8 DEF TypeOK, ManagerTypeOK, Shapes, history, bounds
<1>11. UnitsOK'
  BY <1>2, <1>6, <1>7 DEF UnitsOK, TypeOK, ManagerTypeOK, history
<1>12. SlotsOK'
  <2>1. ASSUME NEW t \in Slots \ {s}, slot[t].state # "free"
        PROVE  <<slot[t].unit, slot[t].item>> # <<u, i>>
    BY <1>4, <2>1 DEF SlotsOK
  <2>2. slot'[s].state = "running" /\ slot'[s].unit = u /\ slot'[s].item = i
    BY <1>8
  <2>3. ASSUME NEW t \in Slots, slot'[t].state # "free"
        PROVE  /\ slot'[t].unit \in units
               /\ slot'[t].item \in wu'[slot'[t].unit].available
               /\ slot'[t].item \in wu'[slot'[t].unit].outstanding
               /\ slot'[t].state = "completed" => slot'[t].item \in searched[slot'[t].unit]
    <3>1. CASE t = s
      BY <1>2, <1>4, <1>6, <1>7, <2>2, <3>1
    <3>2. CASE t # s
      <4>1. slot'[t] = slot[t] /\ slot[t].unit \in Units
        BY <1>8, <2>3, <3>2, SlotTypes
      <4> QED BY <1>9, <2>3, <4>1 DEF SlotsOK
    <3> QED BY <3>1, <3>2
  <2>4. ASSUME NEW t \in Slots, NEW r \in Slots \ {t},
               slot'[t].state # "free", slot'[r].state # "free"
        PROVE  <<slot'[r].unit, slot'[r].item>> # <<slot'[t].unit, slot'[t].item>>
    BY <1>8, <2>1, <2>2, <2>4 DEF SlotsOK
  <2> QED BY <1>2, <2>3, <2>4 DEF SlotsOK, history
<1>13. \A v \in Units : Finished(v) => Finished(v)' /\ wu'[v] = wu[v]
  BY <1>2, <1>7 DEF Finished
<1>14. BatchOK' /\ UploadedOK' /\ DownOK' /\ MapOnDisk'
  BY <1>2, <1>13 DEF BatchOK, UploadedOK, DownOK, MapOnDisk, Answered, TypeOK, Results, history
<1>15. AcceptedIsSearched' /\ KeyIsReported' /\ DiskIsSearched' /\ StoredUntilAnswered'
  BY <1>2 DEF AcceptedIsSearched, KeyIsReported, DiskIsSearched, StoredUntilAnswered, history
<1> QED BY <1>10, <1>11, <1>12, <1>14, <1>15

\* The search of an item ends in one way or another: only the slot's state changes.
LEMMA SearchStep ==
  ASSUME IInv, NEW s \in Slots, SearchEnds(s) \/ SearchFails(s) \/ WorkerLeaks(s)
  PROVE  IInv'
<1> USE DEF IInv
<1> DEFINE u == slot[s].unit
           i == slot[s].item
<1>1. PICK state \in {"completed", "aborted", "leaked"} :
        /\ slot' = [slot EXCEPT ![s].state = state]
        /\ \/ searched' = [searched EXCEPT ![u] = @ \cup {i}]
           \/ state # "completed" /\ UNCHANGED searched
  BY DEF SearchEnds, SearchFails, WorkerLeaks, history
<1>2. /\ proc = "up" /\ slot[s].state = "running"
      /\ UNCHANGED <<managerVars, proc, fetching, batch, uploaded,
                     accepted, refused, stored, sends>>
  BY DEF SearchEnds, SearchFails, WorkerLeaks, history, bounds
<1>3. faults' \in 0 .. MaxFaults
  BY FaultBound DEF SearchEnds, SearchFails, WorkerLeaks, bounds, TypeOK
<1>4. u \in units /\ u \in Units /\ i \in Items(u)
      /\ slot[s] \in [state : {"running", "completed", "aborted", "leaked"},
                      unit : Units, item : AllItems]
  BY <1>2, SlotTypes
<1>5. /\ slot'[s] = [slot[s] EXCEPT !.state = state]
      /\ slot'[s] \in [state : {"running", "completed", "aborted", "leaked"},
                       unit : Units, item : AllItems]
      /\ \A t \in Slots \ {s} : slot'[t] = slot[t]
      /\ slot' \in [Slots -> {Idle} \cup
                      [state : {"running", "completed", "aborted", "leaked"},
                       unit : Units, item : AllItems]]
  BY <1>1, <1>4 DEF TypeOK
<1>6. slot'[s].state = state /\ slot'[s].unit = u /\ slot'[s].item = i
  BY <1>4, <1>5
<1>7. \A t \in Slots : /\ slot'[t].unit = slot[t].unit /\ slot'[t].item = slot[t].item
                       /\ slot'[t].state # "free" <=> slot[t].state # "free"
  BY <1>2, <1>5, <1>6
<1>8. /\ searched' = [v \in Units |-> searched'[v]]
      /\ \A v \in Units : /\ searched[v] \subseteq searched'[v]
                          /\ searched'[v] \subseteq Items(v)
      /\ state = "completed" => i \in searched'[u]
  BY <1>1, <1>4 DEF Shapes, TypeOK
<1> HIDE DEF u, i
<1>9. TypeOK' /\ Shapes'
  BY <1>2, <1>3, <1>5, <1>8 DEF TypeOK, ManagerTypeOK, Shapes, managerVars
<1>10. UnitsOK'
  BY <1>2, <1>8 DEF UnitsOK, Sound, managerVars, TypeOK, ManagerTypeOK
<1>11. SlotsOK'
  <2>1. ASSUME NEW t \in Slots, slot'[t].state = "completed"
        PROVE  slot'[t].item \in searched'[slot'[t].unit]
    <3>1. CASE t = s
      BY <1>6, <1>8, <2>1, <3>1
    <3>2. CASE t # s
      <4>1. slot'[t] = slot[t] /\ slot[t].state # "free"
        BY <1>5, <2>1, <3>2
      <4>2. slot[t].unit \in Units
        BY <4>1, SlotTypes
      <4> QED BY <1>8, <2>1, <4>1, <4>2 DEF SlotsOK
    <3> QED BY <3>1, <3>2
  <2> QED BY <1>2, <1>7, <2>1 DEF SlotsOK, managerVars
<1>12. BatchOK' /\ UploadedOK' /\ DownOK' /\ MapOnDisk'
  BY <1>2 DEF BatchOK, UploadedOK, DownOK, MapOnDisk, Finished, Answered, managerVars
<1>13. AcceptedIsSearched'
  <2>1. \A r \in accepted : r.unit \in Units
    BY DEF TypeOK, Results
  <2>2. \A v \in Units : searched[v] = Items(v) => searched'[v] = Items(v)
    BY <1>8
  <2> QED BY <1>2, <2>1, <2>2 DEF AcceptedIsSearched
<1>14. DiskIsSearched'
  <2>1. \A v \in Units : files'[v] = files[v] /\ searched[v] \subseteq searched'[v]
    BY <1>2, <1>8 DEF managerVars
  <2> QED BY <2>1 DEF DiskIsSearched
<1>15. KeyIsReported' /\ StoredUntilAnswered'
  BY <1>2 DEF KeyIsReported, StoredUntilAnswered, managerVars
<1> QED BY <1>9, <1>10, <1>11, <1>12, <1>13, <1>14, <1>15

LEMMA ReturnWorkStep ==
  ASSUME IInv, NEW s \in Slots, ReturnWork(s)
  PROVE  IInv'
<1> USE DEF IInv
<1> DEFINE u == slot[s].unit
           i == slot[s].item
           status == slot[s].state
           found == status = "completed" /\ <<u, i>> \in KeyItems
           w == Reported(wu[u], i, status, found)
<1>1. PICK torn \in BOOLEAN : ReportWork(u, i, status, found, torn) /\ TornSave(torn)
  BY DEF ReturnWork
<1>2. /\ proc = "up" /\ status \in {"completed", "aborted"}
      /\ slot' = [slot EXCEPT ![s] = Idle]
      /\ UNCHANGED <<proc, fetching, batch, uploaded, history, sends>>
  BY DEF ReturnWork
<1>3. u \in units /\ u \in Units /\ i \in Items(u)
  BY <1>2, SlotTypes
<1>4. /\ ~stuck /\ wu' = [wu EXCEPT ![u] = w] /\ Save(u, wu'[u], torn)
      /\ UNCHANGED <<units, archived, stuck>>
  BY <1>1, <1>3 DEF ReportWork
<1>5. faults' \in 0 .. MaxFaults
  BY <1>1, FaultBound
<1>6. /\ wu[u] \in WorkUnitsOf(u) /\ Sound(u, wu[u], searched[u])
      /\ i \in wu[u].available /\ i \in wu[u].outstanding
      /\ status = "completed" => i \in searched[u]
  BY <1>2, <1>3 DEF TypeOK, ManagerTypeOK, UnitsOK, SlotsOK
<1>7. found \in BOOLEAN /\ (found <=> status = "completed" /\ <<u, i>> \in KeyItems)
  OBVIOUS
<1> HIDE DEF found, u, i, status
<1>8. /\ w \in WorkUnitsOf(u) /\ Sound(u, w, searched[u])
      /\ wu[u].available \ {i} \subseteq w.available
      /\ wu[u].outstanding \ {i} \subseteq w.outstanding
  BY <1>2, <1>3, <1>6, <1>7, ReportedIsSound
<1> HIDE DEF w
<1>9. /\ wu' = [v \in Units |-> wu'[v]] /\ wu'[u] = w
      /\ \A v \in Units \ {u} : wu'[v] = wu[v]
  BY <1>3, <1>4 DEF Shapes
<1>10. /\ slot'[s] = Idle /\ slot'[s].state = "free"
       /\ \A t \in Slots \ {s} : slot'[t] = slot[t]
       /\ slot' \in [Slots -> {Idle} \cup
                       [state : {"running", "completed", "aborted", "leaked"},
                        unit : Units, item : AllItems]]
  BY <1>2 DEF TypeOK, Idle
<1>11. /\ DiskIsSearched' /\ StoredUntilAnswered'
       /\ files' = [v \in Units |-> files'[v]]
       /\ \A v \in Units :
            \/ files'[v] \in {NoFile, TornFile}
            \/ files'[v] \in [state : {"saved"},
                              unit : [completed : SUBSET Items(v), key : BOOLEAN]]
       /\ files'[u] # NoFile /\ \A v \in Units \ {u} : files'[v] = files[v]
  <2>1. Save(u, w, torn) /\ UNCHANGED <<searched, accepted, refused>>
        /\ stored' \subseteq stored \cup {u}
    BY <1>2, <1>4, <1>9 DEF history
  <2> QED BY <1>3, <1>8, <2>1, SaveKeepsDisk
<1>12. TypeOK' /\ Shapes'
  <2>1. \A v \in Units : wu'[v] \in WorkUnitsOf(v)
    BY <1>8, <1>9 DEF TypeOK, ManagerTypeOK
  <2> QED BY <1>2, <1>4, <1>5, <1>9, <1>10, <1>11, <2>1
          DEF TypeOK, ManagerTypeOK, Shapes, history
<1>13. UnitsOK'
  BY <1>2, <1>4, <1>8, <1>9 DEF UnitsOK, TypeOK, ManagerTypeOK, history
<1>14. SlotsOK'
  <2>1. ASSUME NEW t \in Slots \ {s}, slot[t].state # "free"
        PROVE  /\ slot[t].item \in wu'[slot[t].unit].available
               /\ slot[t].item \in wu'[slot[t].unit].outstanding
    <3>1. slot[t].unit \in Units
      BY <2>1, SlotTypes
    <3>2. /\ slot[t].item \in wu[slot[t].unit].available
          /\ slot[t].item \in wu[slot[t].unit].outstanding
          /\ <<slot[t].unit, slot[t].item>> # <<u, i>>
      BY <1>2, <2>1 DEF SlotsOK, u, i, status
    <3> QED BY <1>8, <1>9, <3>1, <3>2
  <2>2. \A t \in Slots : slot'[t].state # "free" =>
          t # s /\ slot'[t] = slot[t] /\ slot[t].state # "free"
    BY <1>10
  <2> QED BY <1>2, <1>4, <2>1, <2>2 DEF SlotsOK, history
<1>15. \A v \in Units : Finished(v) => Finished(v)' /\ wu'[v] = wu[v]
  BY <1>4, <1>6, <1>9 DEF Finished, Done
<1>16. BatchOK' /\ UploadedOK' /\ DownOK'
  BY <1>2, <1>15 DEF BatchOK, UploadedOK, DownOK, Answered, TypeOK, Results, history
<1>17. MapOnDisk'
  BY <1>4, <1>11 DEF MapOnDisk, TypeOK, ManagerTypeOK
<1>18. AcceptedIsSearched' /\ KeyIsReported'
  BY <1>2 DEF AcceptedIsSearched, KeyIsReported, history
<1> QED BY <1>11, <1>12, <1>13, <1>14, <1>16, <1>17, <1>18

-----------------------------------------------------------------------------
(* The upload thread *)

\* A unit that is finished is searched, and knows whether the key is in it.
LEMMA ResultIsRight ==
  ASSUME IInv, NEW r \in batch
  PROVE  /\ r.unit \in Units /\ r.key \in BOOLEAN /\ Finished(r.unit)
         /\ searched[r.unit] = Items(r.unit)
         /\ r.key <=> HasKey(r.unit)
<1>1. r.unit \in Units /\ r.key \in BOOLEAN
  BY DEF IInv, TypeOK, Results
<1>2. r.unit \in units /\ Done(wu[r.unit]) /\ r.key = wu[r.unit].key
  BY DEF IInv, BatchOK, Finished
<1>3. /\ wu[r.unit] \in WorkUnitsOf(r.unit)
      /\ Sound(r.unit, wu[r.unit], searched[r.unit])
      /\ searched[r.unit] \subseteq Items(r.unit)
  BY <1>1, <1>2 DEF IInv, TypeOK, ManagerTypeOK, UnitsOK
<1> QED BY <1>1, <1>2, <1>3, FinishedIsSearched DEF Finished

\* What is the same in every step of the upload thread before the removal.
LEMMA UploadFrame ==
  ASSUME IInv, UNCHANGED <<managerVars, proc, fetching, slot, stored, searched, sends>>,
         faults' \in 0 .. MaxFaults, batch' \subseteq Results,
         uploaded' \in Units \cup {NoUnit},
         accepted' \subseteq Results, refused' \subseteq Units,
         accepted \subseteq accepted', refused \subseteq refused'
  PROVE  /\ TypeOK' /\ Shapes' /\ UnitsOK' /\ SlotsOK' /\ MapOnDisk'
         /\ DiskIsSearched' /\ StoredUntilAnswered'
<1> USE DEF IInv
<1>1. TypeOK' /\ Shapes'
  BY DEF TypeOK, ManagerTypeOK, Shapes, managerVars
<1>2. UnitsOK' /\ SlotsOK' /\ MapOnDisk'
  BY DEF UnitsOK, SlotsOK, MapOnDisk, managerVars
<1>3. DiskIsSearched' /\ StoredUntilAnswered'
  BY DEF DiskIsSearched, StoredUntilAnswered, managerVars
<1> QED BY <1>1, <1>2, <1>3

LEMMA GetCompletedWorkStep ==
  ASSUME IInv, GetCompletedWork
  PROVE  IInv'
<1> USE DEF IInv
<1>1. /\ proc = "up" /\ uploaded = NoUnit /\ batch' = CompletedWork
      /\ UNCHANGED <<managerVars, proc, fetching, slot, uploaded, history, bounds>>
  BY DEF GetCompletedWork
<1>2. \A r \in batch' : Finished(r.unit) /\ r.key = wu[r.unit].key /\ r \in Results
  BY <1>1 DEF CompletedWork, Finished, Results, TypeOK, ManagerTypeOK, WorkUnitsOf
<1>3. /\ TypeOK' /\ Shapes' /\ UnitsOK' /\ SlotsOK' /\ MapOnDisk'
      /\ DiskIsSearched' /\ StoredUntilAnswered'
  <2>1. /\ UNCHANGED <<stored, searched, sends, accepted, refused, faults>>
        /\ faults' \in 0 .. MaxFaults /\ batch' \subseteq Results
        /\ uploaded' \in Units \cup {NoUnit}
        /\ accepted' \subseteq Results /\ refused' \subseteq Units
    BY <1>1, <1>2 DEF TypeOK, history, bounds
  <2> QED BY <1>1, <2>1, UploadFrame
<1>4. BatchOK' /\ UploadedOK' /\ DownOK'
  BY <1>1, <1>2 DEF BatchOK, UploadedOK, DownOK, Finished, managerVars
<1>5. AcceptedIsSearched' /\ KeyIsReported'
  BY <1>1 DEF AcceptedIsSearched, KeyIsReported, history
<1> QED BY <1>3, <1>4, <1>5

LEMMA UploadStep ==
  ASSUME IInv, NEW r \in batch, Upload(r) \/ UploadFails(r)
  PROVE  IInv'
<1> USE DEF IInv
<1>1. /\ proc = "up" /\ uploaded = NoUnit /\ batch' = batch \ {r}
      /\ UNCHANGED <<managerVars, proc, fetching, slot, stored, searched, sends>>
  BY DEF Upload, UploadFails
<1>2. /\ r.unit \in Units /\ r.key \in BOOLEAN /\ Finished(r.unit)
      /\ searched[r.unit] = Items(r.unit)
      /\ r.key <=> HasKey(r.unit)
  BY ResultIsRight
<1>3. /\ accepted' \in {accepted, accepted \cup {r}}
      /\ refused' \in {refused, refused \cup {r.unit}}
      /\ uploaded' # NoUnit => uploaded' = r.unit /\ Answered(r.unit)'
      /\ uploaded' \in {NoUnit, r.unit}
  BY <1>1 DEF Upload, UploadFails, Answered
<1>4. faults' \in 0 .. MaxFaults
  BY FaultBound DEF Upload, UploadFails, TypeOK
<1>5. r \in Results
  BY DEF TypeOK
<1>6. /\ TypeOK' /\ Shapes' /\ UnitsOK' /\ SlotsOK' /\ MapOnDisk'
      /\ DiskIsSearched' /\ StoredUntilAnswered'
  <2>1. /\ batch' \subseteq Results /\ uploaded' \in Units \cup {NoUnit}
        /\ accepted' \subseteq Results /\ refused' \subseteq Units
        /\ accepted \subseteq accepted' /\ refused \subseteq refused'
    BY <1>1, <1>2, <1>3, <1>5 DEF TypeOK
  <2> QED BY <1>1, <1>4, <2>1, UploadFrame
<1>7. BatchOK' /\ DownOK'
  BY <1>1 DEF BatchOK, DownOK, Finished, managerVars
<1>8. UploadedOK'
  <2>1. \A q \in batch' : q.unit # r.unit
    <3>1. ASSUME NEW q \in batch, q.unit = r.unit
          PROVE  q = r
      BY <3>1 DEF BatchOK, TypeOK, Results
    <3> QED BY <1>1, <3>1
  <2> QED BY <1>1, <1>2, <1>3, <2>1 DEF UploadedOK, Finished, managerVars
<1>9. AcceptedIsSearched' /\ KeyIsReported'
  BY <1>1, <1>2, <1>3 DEF AcceptedIsSearched, KeyIsReported
<1> QED BY <1>6, <1>7, <1>8, <1>9

LEMMA RemoveStep ==
  ASSUME IInv, RemoveUploaded \/ RemoveUploadedThrows
  PROVE  IInv'
<1> USE DEF IInv
<1> DEFINE u == uploaded
<1>1. /\ proc = "up" /\ u # NoUnit /\ uploaded' = NoUnit /\ ~stuck
      /\ UNCHANGED <<proc, fetching, slot, batch, history, sends>>
  BY DEF RemoveUploaded, RemoveUploadedThrows, Remove, RemoveThrows, bounds
<1>2. faults' \in 0 .. MaxFaults
  BY FaultBound DEF RemoveUploaded, RemoveUploadedThrows, TypeOK, bounds
<1>3. u \in Units /\ Finished(u) /\ Answered(u) /\ \A r \in batch : r.unit # u
  BY <1>1 DEF UploadedOK, TypeOK
<1>4. UploadedOK' /\ DownOK' /\ AcceptedIsSearched' /\ KeyIsReported'
  BY <1>1 DEF UploadedOK, DownOK, AcceptedIsSearched, KeyIsReported, history
<1>5. CASE RemoveUploaded
  <2>1. /\ files' = [files EXCEPT ![u] = NoFile] /\ archived' = archived \cup {u}
        /\ units' = units \ {u} /\ wu' = [wu EXCEPT ![u] = Created(NumItems[u])]
        /\ UNCHANGED stuck
    BY <1>3, <1>5 DEF RemoveUploaded, Remove, Finished
  <2>2. /\ wu' = [v \in Units |-> wu'[v]] /\ wu'[u] = Created(NumItems[u])
        /\ files' = [v \in Units |-> files'[v]] /\ files'[u] = NoFile
        /\ \A v \in Units \ {u} : wu'[v] = wu[v] /\ files'[v] = files[v]
    BY <1>3, <2>1 DEF Shapes
  <2>3. TypeOK' /\ Shapes'
    <3>1. \A v \in Units : wu'[v] \in WorkUnitsOf(v)
      BY <1>3, <2>2, CreatedIsSound DEF TypeOK, ManagerTypeOK
    <3>2. \A v \in Units :
            \/ files'[v] \in {NoFile, TornFile}
            \/ files'[v] \in [state : {"saved"},
                              unit : [completed : SUBSET Items(v), key : BOOLEAN]]
      BY <2>2 DEF TypeOK, ManagerTypeOK
    <3> QED BY <1>1, <1>2, <1>3, <2>1, <2>2, <3>1, <3>2
            DEF TypeOK, ManagerTypeOK, Shapes, history
  <2>4. UnitsOK' /\ MapOnDisk'
    BY <1>1, <2>1, <2>2 DEF UnitsOK, MapOnDisk, TypeOK, ManagerTypeOK, history
  <2>5. SlotsOK'
    <3>1. ASSUME NEW t \in Slots, slot[t].state # "free"
          PROVE  slot[t].unit # u /\ slot[t].unit \in Units
      BY <1>3, <3>1, HeldIsUnfinished, SlotTypes
    <3>2. \A t \in Slots : slot[t].state # "free" =>
            slot[t].unit \in units' /\ wu'[slot[t].unit] = wu[slot[t].unit]
      BY <2>1, <2>2, <3>1 DEF SlotsOK
    <3> QED BY <1>1, <3>2 DEF SlotsOK, history
  <2>6. BatchOK'
    BY <1>1, <1>3, <2>1, <2>2 DEF BatchOK, Finished, TypeOK, Results
  <2>7. DiskIsSearched'
    <3>1. NoFile.state # "saved"
      BY DEF NoFile
    <3> QED BY <1>1, <2>2, <3>1 DEF DiskIsSearched, history
  <2>8. StoredUntilAnswered'
    BY <1>1, <1>3, <2>2 DEF StoredUntilAnswered, Answered, TypeOK, history
  <2> QED BY <1>4, <2>3, <2>4, <2>5, <2>6, <2>7, <2>8
<1>6. CASE RemoveUploadedThrows
  <2>1. stuck' = TRUE /\ UNCHANGED <<units, wu, files, archived>>
    BY <1>6 DEF RemoveUploadedThrows, RemoveThrows
  <2>2. TypeOK' /\ Shapes'
    BY <1>1, <1>2, <2>1 DEF TypeOK, ManagerTypeOK, Shapes, history
  <2>3. UnitsOK' /\ SlotsOK' /\ BatchOK' /\ MapOnDisk'
    BY <1>1, <2>1 DEF UnitsOK, SlotsOK, BatchOK, MapOnDisk, Finished, history
  <2>4. DiskIsSearched' /\ StoredUntilAnswered'
    BY <1>1, <2>1 DEF DiskIsSearched, StoredUntilAnswered, history
  <2> QED BY <1>4, <2>2, <2>3, <2>4
<1> QED BY <1>5, <1>6

-----------------------------------------------------------------------------
(* Crash and restart *)

LEMMA CrashStep ==
  ASSUME IInv, Crash
  PROVE  IInv'
<1> USE DEF IInv
<1>1. /\ proc' = "down" /\ fetching' = FALSE
      /\ slot' = [s \in Slots |-> Idle] /\ batch' = {} /\ uploaded' = NoUnit
      /\ UNCHANGED <<archived, history, sends>>
      /\ units' = {} /\ stuck' = FALSE
      /\ wu' = [v \in Units |-> Created(NumItems[v])]
  BY DEF Crash, LoseMemory
<1>2. faults' \in 0 .. MaxFaults
  BY FaultBound DEF Crash
<1>3. /\ files' = [v \in Units |-> files'[v]]
      /\ \A v \in Units : files'[v] = files[v] \/ files'[v] = TornFile
  BY DEF Crash, Shapes
<1>4. TypeOK' /\ Shapes'
  <2>1. \A v \in Units : wu'[v] \in WorkUnitsOf(v)
    BY <1>1, CreatedIsSound
  <2> QED BY <1>1, <1>2, <1>3, <2>1 DEF TypeOK, ManagerTypeOK, Shapes, history
<1>5. Idle.state = "free"
  BY DEF Idle
<1>6. UnitsOK' /\ SlotsOK' /\ BatchOK' /\ UploadedOK' /\ DownOK' /\ MapOnDisk'
  BY <1>1, <1>5 DEF UnitsOK, SlotsOK, BatchOK, UploadedOK, DownOK, MapOnDisk
<1>7. AcceptedIsSearched' /\ KeyIsReported'
  BY <1>1 DEF AcceptedIsSearched, KeyIsReported, history
<1>8. TornFile # NoFile /\ TornFile.state # "saved"
  BY DEF TornFile, NoFile
<1>9. DiskIsSearched' /\ StoredUntilAnswered'
  BY <1>1, <1>3, <1>8 DEF DiskIsSearched, StoredUntilAnswered, TypeOK, history
<1> QED BY <1>4, <1>6, <1>7, <1>9

LEMMA RestartStep ==
  ASSUME IInv, Restart
  PROVE  IInv'
<1> USE DEF IInv
<1>1. /\ proc = "down" /\ proc' \in {"up", "dead"}
      /\ UNCHANGED <<threadVars, history, bounds, files, archived>>
  BY DEF Restart, LoadWork, managerVars
<1>2. /\ batch = {} /\ uploaded = NoUnit
      /\ \A s \in Slots : slot[s] = Idle /\ slot[s].state = "free"
  BY <1>1 DEF DownOK, Idle
<1>3. /\ SlotsOK' /\ BatchOK' /\ UploadedOK' /\ DownOK'
      /\ AcceptedIsSearched' /\ KeyIsReported' /\ DiskIsSearched' /\ StoredUntilAnswered'
  BY <1>1, <1>2 DEF SlotsOK, BatchOK, UploadedOK, DownOK, AcceptedIsSearched, KeyIsReported,
                    DiskIsSearched, StoredUntilAnswered, threadVars, history
<1>4. CASE CanLoad
  <2>1. /\ units' = {u \in Units : files[u] # NoFile} /\ UNCHANGED stuck
        /\ wu' = [u \in Units |-> IF files[u] # NoFile
                                  THEN Restored(NumItems[u], files[u].unit.completed,
                                                files[u].unit.key)
                                  ELSE Created(NumItems[u])]
    BY <1>4 DEF Restart, LoadWork
  <2>2. ASSUME NEW u \in Units, files[u] # NoFile
        PROVE  wu'[u] \in WorkUnitsOf(u) /\ Sound(u, wu'[u], searched[u])
    <3>1. files[u] \in [state : {"saved"},
                        unit : [completed : SUBSET Items(u), key : BOOLEAN]]
      BY <1>4, <2>2 DEF CanLoad, TypeOK, ManagerTypeOK
    <3>2. /\ files[u].unit.completed \in SUBSET Items(u) /\ files[u].unit.key \in BOOLEAN
          /\ files[u].state = "saved"
      BY <3>1
    <3>3. /\ files[u].unit.completed \subseteq searched[u]
          /\ files[u].unit.key <=> KeyIn(u, files[u].unit.completed)
      BY <3>2 DEF DiskIsSearched, KeyIn
    <3>4. wu'[u] = Restored(NumItems[u], files[u].unit.completed, files[u].unit.key)
      BY <2>1, <2>2
    <3> QED BY <3>2, <3>3, <3>4, RestoredIsSound
  <2>3. ASSUME NEW u \in Units
        PROVE  wu'[u] \in WorkUnitsOf(u)
    BY <2>1, <2>2, CreatedIsSound
  <2>4. TypeOK' /\ Shapes'
    BY <1>1, <2>1, <2>3 DEF TypeOK, ManagerTypeOK, Shapes, threadVars, history, bounds
  <2>5. UnitsOK' /\ MapOnDisk'
    BY <1>1, <2>1, <2>2 DEF UnitsOK, MapOnDisk, history
  <2> QED BY <1>3, <2>4, <2>5
<1>5. CASE ~CanLoad
  <2>1. UNCHANGED managerVars
    BY <1>5 DEF Restart
  <2>2. TypeOK' /\ Shapes'
    BY <1>1, <2>1 DEF TypeOK, ManagerTypeOK, Shapes, threadVars, history, bounds, managerVars
  <2>3. UnitsOK' /\ MapOnDisk'
    BY <1>1, <2>1 DEF UnitsOK, MapOnDisk, history, managerVars
  <2> QED BY <1>3, <2>2, <2>3
<1> QED BY <1>4, <1>5

-----------------------------------------------------------------------------
LEMMA Initially == Init => IInv
<1> SUFFICES ASSUME Init
             PROVE  IInv
  OBVIOUS
<1> USE DEF Init, ManagerInit
<1>1. \A u \in Units : wu[u] \in WorkUnitsOf(u)
  BY CreatedIsSound
<1>2. TypeOK /\ Shapes
  <2>1. ManagerTypeOK /\ Shapes
    BY <1>1 DEF ManagerTypeOK, Shapes
  <2>2. 0 \in 0 .. MaxSends /\ 0 \in 0 .. MaxFaults
    BY BoundsAssumption, SMT
  <2> QED BY <2>1, <2>2 DEF TypeOK
<1>3. UnitsOK /\ SlotsOK /\ BatchOK /\ UploadedOK /\ DownOK /\ MapOnDisk
  BY DEF UnitsOK, SlotsOK, BatchOK, UploadedOK, DownOK, MapOnDisk, Idle
<1>4. AcceptedIsSearched /\ KeyIsReported /\ StoredUntilAnswered
  BY DEF AcceptedIsSearched, KeyIsReported, StoredUntilAnswered
<1>5. DiskIsSearched
  BY DEF DiskIsSearched, NoFile
<1> QED BY <1>2, <1>3, <1>4, <1>5 DEF IInv

\* The inductive invariant of the client.
THEOREM Invariance == Spec => []IInv
<1>1. IInv /\ [Next]_vars => IInv'
  <2> SUFFICES ASSUME IInv, [Next]_vars
               PROVE  IInv'
    OBVIOUS
  <2>1. CASE FindTooLittle \/ NoDownload \/ UNCHANGED vars
    BY <2>1, DownloadThreadSteps
  <2>2. ASSUME NEW u \in Units, Download(u) \/ DownloadThrows(u)
        PROVE  IInv'
    BY <2>2, DownloadStep, DownloadThrowsStep
  <2>3. ASSUME NEW s \in Slots, StartWorker(s) \/ Worker(s) \/ WorkerFault(s)
        PROVE  IInv'
    BY <2>3, StartWorkerStep, SearchStep, ReturnWorkStep DEF Worker, WorkerFault
  <2>4. CASE GetCompletedWork
    BY <2>4, GetCompletedWorkStep
  <2>5. ASSUME NEW r \in batch, Upload(r) \/ UploadFails(r)
        PROVE  IInv'
    BY <2>5, UploadStep
  <2>6. CASE RemoveUploaded \/ RemoveUploadedThrows
    BY <2>6, RemoveStep
  <2>7. CASE Crash \/ Restart
    BY <2>7, CrashStep, RestartStep
  <2> QED BY <2>1, <2>2, <2>3, <2>4, <2>5, <2>6, <2>7 DEF Next
<1> QED BY <1>1, Initially, PTL DEF Spec

\* The types of the map, the files, the threads' locals and the history, for
\* any number of units, items, GPUs and faults.
THEOREM TypeCorrect == Spec => []TypeOK
<1>1. IInv => TypeOK
  BY DEF IInv
<1> QED BY <1>1, Invariance, PTL

\* Through aborts, crashes, restarts, torn files and lost answers: the server is
\* told that a unit is finished only when every item of it was searched.
THEOREM AcceptedIsSearchedThm == Spec => []AcceptedIsSearched
<1>1. IInv => AcceptedIsSearched
  BY DEF IInv
<1> QED BY <1>1, Invariance, PTL

\* The key is reported with the unit that holds it, and with no other.
THEOREM KeyIsReportedThm == Spec => []KeyIsReported
<1>1. IInv => KeyIsReported
  BY DEF IInv
<1> QED BY <1>1, Invariance, PTL

\* No unit is removed under a thread that holds an item of it, and no item is in
\* the hands of two.
THEOREM NoDanglingItemThm == Spec => []NoDanglingItem
<1>1. IInv => NoDanglingItem
  BY DEF IInv, SlotsOK, NoDanglingItem
<1> QED BY <1>1, Invariance, PTL

\* A file says of no item that it is finished that was not searched, and has the
\* key when the item with the key is among them.
THEOREM DiskIsSearchedThm == Spec => []DiskIsSearched
<1>1. IInv => DiskIsSearched
  BY DEF IInv
<1> QED BY <1>1, Invariance, PTL

\* The file of a unit is there until the server has answered.
THEOREM ForgottenWasAnsweredThm == Spec => []ForgottenWasAnswered
<1>1. IInv => ForgottenWasAnswered
  BY DEF IInv, ForgottenWasAnswered
<1> QED BY <1>1, Invariance, PTL
=============================================================================
