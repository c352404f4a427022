-------------------------- MODULE ServerProjectsProofs ------------------------
(***************************************************************************)
(* Projects are made once and kept, for any number of projects, requests,  *)
(* crashes and failed writes, as long as no two requests make the same one *)
(* at a time.                                                              *)
(***************************************************************************)
EXTENDS ServerProjects, FiniteSetTheorems, TLAPS

-----------------------------------------------------------------------------
(* The inductive invariant *)

\* Request h is somewhere in create_project for n.
Making(h, n) == pc[h] \notin {"idle", "wildcard"} /\ name[h] = n

\* After a crash no request goes on.
DownIsIdle == server # "up" => \A h \in Handlers : pc[h] = "idle"

\* One request makes a project that nobody has disturbed, a new one, with an
\* object of its own.
MakersAreAlone ==
  /\ \A g, h \in Handlers : \A n \in Names \ raced : Making(g, n) /\ Making(h, n) => g = h
  /\ \A h \in Handlers : Making(h, name[h]) /\ name[h] \notin raced =>
       /\ name[h] \notin Registered
       /\ pc[h] # "get" => object[h] = <<name[h], h>>

\* Objects are of the project's name, or of the project called "name".
ObjectsAreNamed ==
  /\ \A h \in Handlers : pc[h] \notin {"idle", "wildcard", "get"} =>
       /\ object[h] \in Objects
       /\ NameOf(object[h]) = name[h] \/ (NameOf(object[h]) = Literal /\ name[h] \in mixed)
  /\ \A n \in Registered :
       NameOf(projects[n]) = n \/ (NameOf(projects[n]) = Literal /\ n \in mixed)
  /\ mixed \subseteq raced

\* What a request has made on disk when it is about to make the next thing.
StagesAreOnDisk ==
  \A h \in Handlers : name[h] \notin Disturbed =>
    /\ pc[h] \in {"database", "insert", "enter", "enterFailed"} => info[name[h]] = "written"
    /\ pc[h] \in {"insert", "enter"} => name[h] \in dbFile /\ object[h] \in hasDb
    /\ pc[h] = "enter" => rows[name[h]] > 0

\* A row is the last thing made, and the project is registered or about to be.
RowsAreKept ==
  \A n \in Names \ Disturbed :
    /\ rows[n] <= 1
    /\ rows[n] > 0 =>
         /\ info[n] = "written" /\ n \in dbFile
         /\ server = "up" => \/ n \in Registered /\ projects[n] \in hasDb
                             \/ \E h \in Handlers : pc[h] = "enter" /\ name[h] = n
    /\ n \in created => rows[n] > 0 /\ (server = "up" => n \in Registered)

IInv == TypeOK /\ DownIsIdle /\ MakersAreAlone /\ ObjectsAreNamed /\ StagesAreOnDisk /\ RowsAreKept

LEMMA InitInvariant == Init => IInv
<1> SUFFICES ASSUME Init PROVE IInv
  OBVIOUS
<1> USE NamesAssumption, BoundsAssumption
<1>1. TypeOK
  <2>1. 0 \in 0 .. Cardinality(Names) /\ 0 \in 0 .. MaxCrashes /\ 0 \in 0 .. MaxFailures
    BY FS_CardinalityType, SMT
  <2> QED BY <2>1 DEF Init, TypeOK, ForAll
<1>2. DownIsIdle /\ MakersAreAlone /\ ObjectsAreNamed /\ StagesAreOnDisk
  BY DEF Init, ForAll, DownIsIdle, MakersAreAlone, ObjectsAreNamed, StagesAreOnDisk, Registered,
         Making
<1>3. RowsAreKept
  BY SMT DEF Init, RowsAreKept
<1> QED BY <1>1, <1>2, <1>3 DEF IInv

LEMMA CreateTestKeeps ==
  ASSUME IInv, NEW h \in Handlers, NEW n \in Names, CreateTest(h, n)
  PROVE  IInv'
<1> USE NamesAssumption, HandlersAssumption, BoundsAssumption
<1> USE DEF IInv, TypeOK, Step, Goto, End, Directory, disk, locals, wildcard, history
<1>1. TypeOK'
  BY DEF CreateTest, Objects, NameOf, ForAll
<1>2. DownIsIdle'
  BY DEF CreateTest, DownIsIdle, ForAll
<1>3. MakersAreAlone'
  BY DEF CreateTest, MakersAreAlone, Making, Registered, ForAll
<1>4. ObjectsAreNamed'
  BY DEF CreateTest, ObjectsAreNamed, MakersAreAlone, Making, Registered, NameOf, Objects
<1>5. StagesAreOnDisk'
  BY DEF CreateTest, StagesAreOnDisk, MakersAreAlone, ObjectsAreNamed, Making, Registered, Disturbed, NameOf
<1>6. RowsAreKept'
  BY DEF CreateTest, RowsAreKept, StagesAreOnDisk, MakersAreAlone, ObjectsAreNamed, Making, Registered, Disturbed, NameOf, DownIsIdle
<1> QED BY <1>1, <1>2, <1>3, <1>4, <1>5, <1>6

LEMMA GetProjectKeeps ==
  ASSUME IInv, NEW h \in Handlers, GetProject(h)
  PROVE  IInv'
<1> USE NamesAssumption, HandlersAssumption, BoundsAssumption
<1> USE DEF IInv, TypeOK, Step, Goto, End, Directory, disk, locals, wildcard, history
<1>1. TypeOK'
  BY DEF GetProject, Objects, NameOf, ForAll
<1>2. DownIsIdle'
  BY DEF GetProject, DownIsIdle, ForAll
<1>3. MakersAreAlone'
  BY DEF GetProject, MakersAreAlone, Making, Registered, ForAll
<1>4. ObjectsAreNamed'
  BY DEF GetProject, ObjectsAreNamed, MakersAreAlone, Making, Registered, NameOf, Objects
<1>5. StagesAreOnDisk'
  BY DEF GetProject, StagesAreOnDisk, MakersAreAlone, ObjectsAreNamed, Making, Registered, Disturbed, NameOf
<1>6. RowsAreKept'
  BY DEF GetProject, RowsAreKept, StagesAreOnDisk, MakersAreAlone, ObjectsAreNamed, Making, Registered, Disturbed, NameOf, DownIsIdle
<1> QED BY <1>1, <1>2, <1>3, <1>4, <1>5, <1>6

LEMMA OpenInfoKeeps ==
  ASSUME IInv, NEW h \in Handlers, OpenInfo(h)
  PROVE  IInv'
<1> USE NamesAssumption, HandlersAssumption, BoundsAssumption
<1> USE DEF IInv, TypeOK, Step, Goto, End, Directory, disk, locals, wildcard, history
<1>1. TypeOK'
  BY DEF OpenInfo, Objects, NameOf, ForAll
<1>2. DownIsIdle'
  BY DEF OpenInfo, DownIsIdle, ForAll
<1>3. MakersAreAlone'
  BY DEF OpenInfo, MakersAreAlone, Making, Registered, ForAll
<1>4. ObjectsAreNamed'
  BY DEF OpenInfo, ObjectsAreNamed, MakersAreAlone, Making, Registered, NameOf, Objects
<1>5. StagesAreOnDisk'
  BY DEF OpenInfo, StagesAreOnDisk, MakersAreAlone, ObjectsAreNamed, Making, Registered, Disturbed, NameOf
<1>6. RowsAreKept'
  BY DEF OpenInfo, RowsAreKept, StagesAreOnDisk, MakersAreAlone, ObjectsAreNamed, Making, Registered, Disturbed, NameOf, DownIsIdle
<1> QED BY <1>1, <1>2, <1>3, <1>4, <1>5, <1>6

LEMMA WriteInfoKeeps ==
  ASSUME IInv, NEW h \in Handlers, WriteInfo(h)
  PROVE  IInv'
<1> USE NamesAssumption, HandlersAssumption, BoundsAssumption
<1> USE DEF IInv, TypeOK, Step, Goto, End, Directory, disk, locals, wildcard, history
<1>1. TypeOK'
  BY DEF WriteInfo, Objects, NameOf, ForAll
<1>2. DownIsIdle'
  BY DEF WriteInfo, DownIsIdle, ForAll
<1>3. MakersAreAlone'
  BY DEF WriteInfo, MakersAreAlone, Making, Registered, ForAll
<1>4. ObjectsAreNamed'
  BY DEF WriteInfo, ObjectsAreNamed, MakersAreAlone, Making, Registered, NameOf, Objects
<1>5. StagesAreOnDisk'
  BY DEF WriteInfo, StagesAreOnDisk, MakersAreAlone, ObjectsAreNamed, Making, Registered, Disturbed, NameOf
<1>6. RowsAreKept'
  BY DEF WriteInfo, RowsAreKept, StagesAreOnDisk, MakersAreAlone, ObjectsAreNamed, Making, Registered, Disturbed, NameOf, DownIsIdle
<1> QED BY <1>1, <1>2, <1>3, <1>4, <1>5, <1>6

LEMMA MakeDatabaseKeeps ==
  ASSUME IInv, NEW h \in Handlers, MakeDatabase(h)
  PROVE  IInv'
<1> USE NamesAssumption, HandlersAssumption, BoundsAssumption
<1> USE DEF IInv, TypeOK, Step, Goto, End, Directory, disk, locals, wildcard, history
<1>1. TypeOK'
  <2>1. object[h] \in Objects /\ Directory(h) \in Names
    BY DEF MakeDatabase, ObjectsAreNamed, Objects, NameOf
  <2>2. hasDb' \subseteq Objects /\ dbFile' \subseteq Names
    BY <2>1 DEF MakeDatabase
  <2>3. pc' \in [Handlers -> {"idle", "get", "openInfo", "writeInfo", "database", "insert",
                            "enter", "enterFailed", "wildcard"}]
    BY DEF MakeDatabase
  <2>4. UNCHANGED <<server, projects, info, rows, done, name, object, wildcard, history, crashes, failures>>
    BY DEF MakeDatabase
  <2> QED BY <2>1, <2>2, <2>3, <2>4
<1>2. DownIsIdle'
  BY DEF MakeDatabase, DownIsIdle, ForAll
<1>3. MakersAreAlone'
  BY DEF MakeDatabase, MakersAreAlone, Making, Registered, ForAll
<1>4. ObjectsAreNamed'
  BY DEF MakeDatabase, ObjectsAreNamed, MakersAreAlone, Making, Registered, NameOf, Objects
<1>5. StagesAreOnDisk'
  BY DEF MakeDatabase, StagesAreOnDisk, MakersAreAlone, ObjectsAreNamed, Making, Registered, Disturbed, NameOf
<1>6. RowsAreKept'
  BY DEF MakeDatabase, RowsAreKept, StagesAreOnDisk, MakersAreAlone, ObjectsAreNamed, Making, Registered, Disturbed, NameOf, DownIsIdle
<1> QED BY <1>1, <1>2, <1>3, <1>4, <1>5, <1>6

LEMMA InsertRowKeeps ==
  ASSUME IInv, NEW h \in Handlers, InsertRow(h)
  PROVE  IInv'
<1> USE NamesAssumption, HandlersAssumption, BoundsAssumption
<1> USE DEF IInv, TypeOK, Step, Goto, End, Directory, disk, locals, wildcard, history
<1>1. TypeOK'
  <2>1. object[h] \in Objects /\ Directory(h) \in Names
    BY DEF InsertRow, ObjectsAreNamed, Objects, NameOf
  <2>2. rows' \in [Names -> Nat]
    BY <2>1, SMT DEF InsertRow
  <2>3. pc' \in [Handlers -> {"idle", "get", "openInfo", "writeInfo", "database", "insert",
                            "enter", "enterFailed", "wildcard"}]
    BY DEF InsertRow
  <2>4. UNCHANGED <<server, projects, hasDb, info, dbFile, done, name, object, wildcard, history, crashes, failures>>
    BY DEF InsertRow
  <2> QED BY <2>1, <2>2, <2>3, <2>4
<1>2. DownIsIdle'
  BY DEF InsertRow, DownIsIdle, ForAll
<1>3. MakersAreAlone'
  BY DEF InsertRow, MakersAreAlone, Making, Registered, ForAll
<1>4. ObjectsAreNamed'
  BY DEF InsertRow, ObjectsAreNamed, MakersAreAlone, Making, Registered, NameOf, Objects
<1>5. StagesAreOnDisk'
  BY DEF InsertRow, StagesAreOnDisk, MakersAreAlone, ObjectsAreNamed, Making, Registered, Disturbed, NameOf
<1>6. RowsAreKept'
  BY DEF InsertRow, RowsAreKept, StagesAreOnDisk, MakersAreAlone, ObjectsAreNamed, Making, Registered, Disturbed, NameOf, DownIsIdle
<1> QED BY <1>1, <1>2, <1>3, <1>4, <1>5, <1>6

LEMMA FailKeeps ==
  ASSUME IInv, NEW h \in Handlers, Fail(h)
  PROVE  IInv'
<1> USE NamesAssumption, HandlersAssumption, BoundsAssumption
<1> USE DEF IInv, TypeOK, Step, Goto, End, Directory, disk, locals, wildcard, history
<1>1. TypeOK'
  <2>1. failures' \in 0 .. MaxFailures
    BY SMT DEF Fail
  <2>2. pc[h] = "database" => Directory(h) \in Names
    BY DEF Fail, ObjectsAreNamed, Objects, NameOf
  <2>3. dbFile' \subseteq Names
    BY <2>2 DEF Fail
  <2>4. pc' \in [Handlers -> {"idle", "get", "openInfo", "writeInfo", "database", "insert",
                            "enter", "enterFailed", "wildcard"}]
    BY DEF Fail
  <2>5. name' \in [Handlers -> Names] /\ object' \in [Handlers -> Objects \cup {NoProject}]
    BY DEF Fail
  <2>6. UNCHANGED <<server, projects, hasDb, info, rows, done, wildcard, history, crashes>>
    BY DEF Fail
  <2> QED BY <2>1, <2>2, <2>3, <2>4, <2>5, <2>6
<1>2. DownIsIdle'
  BY DEF Fail, DownIsIdle, ForAll
<1>3. MakersAreAlone'
  BY DEF Fail, MakersAreAlone, Making, Registered, ForAll
<1>4. ObjectsAreNamed'
  BY DEF Fail, ObjectsAreNamed, MakersAreAlone, Making, Registered, NameOf, Objects
<1>5. StagesAreOnDisk'
  BY DEF Fail, StagesAreOnDisk, MakersAreAlone, ObjectsAreNamed, Making, Registered, Disturbed, NameOf
<1>6. RowsAreKept'
  BY DEF Fail, RowsAreKept, StagesAreOnDisk, MakersAreAlone, ObjectsAreNamed, Making, Registered, Disturbed, NameOf, DownIsIdle
<1> QED BY <1>1, <1>2, <1>3, <1>4, <1>5, <1>6

LEMMA EnterKeeps ==
  ASSUME IInv, NEW h \in Handlers, Enter(h)
  PROVE  IInv'
<1> USE NamesAssumption, HandlersAssumption, BoundsAssumption
<1> USE DEF IInv, TypeOK, Step, Goto, End, Directory, disk, locals, wildcard, history
<1>1. TypeOK'
  BY DEF Enter, Objects, NameOf, ForAll
<1>2. DownIsIdle'
  BY DEF Enter, DownIsIdle, ForAll
<1>3. MakersAreAlone'
  BY DEF Enter, MakersAreAlone, Making, Registered, ForAll
<1>4. ObjectsAreNamed'
  BY DEF Enter, ObjectsAreNamed, MakersAreAlone, Making, Registered, NameOf, Objects
<1>5. StagesAreOnDisk'
  BY DEF Enter, StagesAreOnDisk, MakersAreAlone, ObjectsAreNamed, Making, Registered, Disturbed, NameOf
<1>6. RowsAreKept'
  <2>1. /\ UNCHANGED <<hasDb, rows, info, dbFile, raced, mixed, server>>
        /\ projects' = [projects EXCEPT ![name[h]] = object[h]]
        /\ name[h] \in Names /\ object[h] \in Objects /\ server = "up"
    BY DEF Enter, ObjectsAreNamed
  <2>2. Registered' = Registered \cup {name[h]} /\ Disturbed' = Disturbed
    BY <2>1 DEF Registered, Objects, Disturbed
  <2>3. ASSUME NEW n \in Names \ Disturbed, rows[n] > 0
        PROVE  \/ n \in Registered' /\ projects'[n] \in hasDb
               \/ \E g \in Handlers : pc'[g] = "enter" /\ name'[g] = n
    <3>1. n \notin raced
      BY <2>3 DEF Disturbed
    <3>2. CASE n \in Registered /\ projects[n] \in hasDb
      <4>1. name[h] # n
        BY <3>1, <3>2 DEF Enter, MakersAreAlone, Making
      <4> QED BY <2>1, <2>2, <3>2, <4>1
    <3>3. ASSUME NEW g \in Handlers, pc[g] = "enter", name[g] = n
          PROVE  \/ n \in Registered' /\ projects'[n] \in hasDb
                 \/ pc'[g] = "enter" /\ name'[g] = n
      <4>1. CASE g = h
        <5>1. object[h] \in hasDb
          BY <2>3, <3>3, <4>1 DEF StagesAreOnDisk
        <5> QED BY <2>1, <2>2, <3>3, <4>1, <5>1
      <4>2. CASE g # h
        BY <3>3, <4>2 DEF Enter
      <4> QED BY <4>1, <4>2
    <3> QED BY <2>1, <2>3, <3>2, <3>3 DEF RowsAreKept
  <2>4. ASSUME NEW n \in Names \ Disturbed, n \in created'
        PROVE  rows[n] > 0 /\ n \in Registered'
    <3>1. CASE n \in created
      BY <2>1, <2>2, <3>1 DEF RowsAreKept
    <3>2. CASE n \notin created
      BY <2>2, <2>4, <3>2 DEF Enter, StagesAreOnDisk
    <3> QED BY <3>1, <3>2
  <2>5. \A n \in Names \ Disturbed :
          rows[n] <= 1 /\ (rows[n] > 0 => info[n] = "written" /\ n \in dbFile)
    BY DEF RowsAreKept
  <2> QED BY <2>1, <2>2, <2>3, <2>4, <2>5 DEF RowsAreKept
<1> QED BY <1>1, <1>2, <1>3, <1>4, <1>5, <1>6

LEMMA WildcardBeginKeeps ==
  ASSUME IInv, NEW h \in Handlers, WildcardBegin(h)
  PROVE  IInv'
<1> USE NamesAssumption, HandlersAssumption, BoundsAssumption
<1> USE DEF IInv, TypeOK, Step, Goto, End, Directory, disk, locals, wildcard, history
<1>1. TypeOK'
  <2>1. Registered \subseteq Names
    BY DEF Registered
  <2>2. Cardinality(Registered) \in 0 .. Cardinality(Names)
    BY <2>1, FS_Subset, FS_CardinalityType, SMT
  <2>3. size' \in [Handlers -> 0 .. Cardinality(Names)]
    BY <2>2 DEF WildcardBegin
  <2>4. todo' \in [Handlers -> SUBSET Names] /\ running' \in [Handlers -> SUBSET Names]
    BY <2>1 DEF WildcardBegin
  <2>5. pc' \in [Handlers -> {"idle", "get", "openInfo", "writeInfo", "database", "insert",
                            "enter", "enterFailed", "wildcard"}]
    BY DEF WildcardBegin
  <2>6. UNCHANGED <<server, projects, hasDb, disk, name, object, history, crashes, failures>>
    BY DEF WildcardBegin
  <2> QED BY <2>1, <2>2, <2>3, <2>4, <2>5, <2>6
<1>2. DownIsIdle'
  BY DEF WildcardBegin, DownIsIdle, ForAll
<1>3. MakersAreAlone'
  BY DEF WildcardBegin, MakersAreAlone, Making, Registered, ForAll
<1>4. ObjectsAreNamed'
  BY DEF WildcardBegin, ObjectsAreNamed, MakersAreAlone, Making, Registered, NameOf, Objects
<1>5. StagesAreOnDisk'
  BY DEF WildcardBegin, StagesAreOnDisk, MakersAreAlone, ObjectsAreNamed, Making, Registered, Disturbed, NameOf
<1>6. RowsAreKept'
  BY DEF WildcardBegin, RowsAreKept, StagesAreOnDisk, MakersAreAlone, ObjectsAreNamed, Making, Registered, Disturbed, NameOf, DownIsIdle
<1> QED BY <1>1, <1>2, <1>3, <1>4, <1>5, <1>6

LEMMA WildcardFailsKeeps ==
  ASSUME IInv, NEW h \in Handlers, WildcardFails(h)
  PROVE  IInv'
<1> USE NamesAssumption, HandlersAssumption, BoundsAssumption
<1> USE DEF IInv, TypeOK, Step, Goto, End, Directory, disk, locals, wildcard, history
<1>1. TypeOK'
  <2>1. 0 \in 0 .. Cardinality(Names)
    BY FS_CardinalityType, SMT
  <2>2. size' \in [Handlers -> 0 .. Cardinality(Names)]
    BY <2>1 DEF WildcardFails
  <2>3. todo' \in [Handlers -> SUBSET Names] /\ running' \in [Handlers -> SUBSET Names]
    BY DEF WildcardFails
  <2>4. pc' \in [Handlers -> {"idle", "get", "openInfo", "writeInfo", "database", "insert",
                            "enter", "enterFailed", "wildcard"}]
    BY DEF WildcardFails
  <2>5. UNCHANGED <<server, projects, hasDb, disk, name, object, history, crashes, failures>>
    BY DEF WildcardFails
  <2> QED BY <2>1, <2>2, <2>3, <2>4, <2>5
<1>2. DownIsIdle'
  BY DEF WildcardFails, DownIsIdle, ForAll
<1>3. MakersAreAlone'
  BY DEF WildcardFails, MakersAreAlone, Making, Registered, ForAll
<1>4. ObjectsAreNamed'
  BY DEF WildcardFails, ObjectsAreNamed, MakersAreAlone, Making, Registered, NameOf, Objects
<1>5. StagesAreOnDisk'
  BY DEF WildcardFails, StagesAreOnDisk, MakersAreAlone, ObjectsAreNamed, Making, Registered, Disturbed, NameOf
<1>6. RowsAreKept'
  BY DEF WildcardFails, RowsAreKept, StagesAreOnDisk, MakersAreAlone, ObjectsAreNamed, Making, Registered, Disturbed, NameOf, DownIsIdle
<1> QED BY <1>1, <1>2, <1>3, <1>4, <1>5, <1>6

LEMMA WildcardLookKeeps ==
  ASSUME IInv, NEW h \in Handlers, NEW n \in Names, WildcardLook(h, n)
  PROVE  IInv'
<1> USE NamesAssumption, HandlersAssumption, BoundsAssumption
<1> USE DEF IInv, TypeOK, Step, Goto, End, Directory, disk, locals, wildcard, history
<1>1. TypeOK'
  BY DEF WildcardLook, Objects, NameOf, ForAll
<1>2. DownIsIdle'
  BY DEF WildcardLook, DownIsIdle, ForAll
<1>3. MakersAreAlone'
  BY DEF WildcardLook, MakersAreAlone, Making, Registered, ForAll
<1>4. ObjectsAreNamed'
  BY DEF WildcardLook, ObjectsAreNamed, MakersAreAlone, Making, Registered, NameOf, Objects
<1>5. StagesAreOnDisk'
  BY DEF WildcardLook, StagesAreOnDisk, MakersAreAlone, ObjectsAreNamed, Making, Registered, Disturbed, NameOf
<1>6. RowsAreKept'
  BY DEF WildcardLook, RowsAreKept, StagesAreOnDisk, MakersAreAlone, ObjectsAreNamed, Making, Registered, Disturbed, NameOf, DownIsIdle
<1> QED BY <1>1, <1>2, <1>3, <1>4, <1>5, <1>6

LEMMA WildcardAnswerKeeps ==
  ASSUME IInv, NEW h \in Handlers, WildcardAnswer(h)
  PROVE  IInv'
<1> USE NamesAssumption, HandlersAssumption, BoundsAssumption
<1> USE DEF IInv, TypeOK, Step, Goto, End, Directory, disk, locals, wildcard, history
<1>1. TypeOK'
  <2>1. 0 \in 0 .. Cardinality(Names)
    BY FS_CardinalityType, SMT
  <2>2. size' \in [Handlers -> 0 .. Cardinality(Names)]
    BY <2>1 DEF WildcardAnswer
  <2>3. running' \in [Handlers -> SUBSET Names]
    BY DEF WildcardAnswer
  <2>4. pc' \in [Handlers -> {"idle", "get", "openInfo", "writeInfo", "database", "insert",
                            "enter", "enterFailed", "wildcard"}]
    BY DEF WildcardAnswer
  <2>5. UNCHANGED <<server, projects, hasDb, disk, name, object, todo, history, crashes, failures>>
    BY DEF WildcardAnswer
  <2> QED BY <2>1, <2>2, <2>3, <2>4, <2>5
<1>2. DownIsIdle'
  BY DEF WildcardAnswer, DownIsIdle, ForAll
<1>3. MakersAreAlone'
  BY DEF WildcardAnswer, MakersAreAlone, Making, Registered, ForAll
<1>4. ObjectsAreNamed'
  BY DEF WildcardAnswer, ObjectsAreNamed, MakersAreAlone, Making, Registered, NameOf, Objects
<1>5. StagesAreOnDisk'
  BY DEF WildcardAnswer, StagesAreOnDisk, MakersAreAlone, ObjectsAreNamed, Making, Registered, Disturbed, NameOf
<1>6. RowsAreKept'
  BY DEF WildcardAnswer, RowsAreKept, StagesAreOnDisk, MakersAreAlone, ObjectsAreNamed, Making, Registered, Disturbed, NameOf, DownIsIdle
<1> QED BY <1>1, <1>2, <1>3, <1>4, <1>5, <1>6

LEMMA ReportKeyKeeps ==
  ASSUME IInv, NEW n \in Names, ReportKey(n)
  PROVE  IInv'
<1> USE NamesAssumption, HandlersAssumption, BoundsAssumption
<1> USE DEF IInv, TypeOK, Step, Goto, End, Directory, disk, locals, wildcard, history
<1>1. TypeOK'
  <2>1. projects[n] \in Objects
    BY DEF ReportKey, Registered
  <2>2. done' \subseteq Names
    BY <2>1 DEF ReportKey, NameOf, Objects
  <2>3. UNCHANGED <<server, projects, hasDb, info, dbFile, rows, locals, wildcard, history, crashes, failures>>
    BY DEF ReportKey
  <2> QED BY <2>1, <2>2, <2>3
<1>2. DownIsIdle'
  BY DEF ReportKey, DownIsIdle, ForAll
<1>3. MakersAreAlone'
  BY DEF ReportKey, MakersAreAlone, Making, Registered, ForAll
<1>4. ObjectsAreNamed'
  BY DEF ReportKey, ObjectsAreNamed, MakersAreAlone, Making, Registered, NameOf, Objects
<1>5. StagesAreOnDisk'
  BY DEF ReportKey, StagesAreOnDisk, MakersAreAlone, ObjectsAreNamed, Making, Registered, Disturbed, NameOf
<1>6. RowsAreKept'
  BY DEF ReportKey, RowsAreKept, StagesAreOnDisk, MakersAreAlone, ObjectsAreNamed, Making, Registered, Disturbed, NameOf, DownIsIdle
<1> QED BY <1>1, <1>2, <1>3, <1>4, <1>5, <1>6

LEMMA CrashKeeps ==
  ASSUME IInv, Crash
  PROVE  IInv'
<1> USE NamesAssumption, HandlersAssumption, BoundsAssumption
<1> USE DEF IInv, TypeOK, Step, Goto, End, Directory, disk, locals, wildcard, history
<1>1. TypeOK'
  <2>1. 0 \in 0 .. Cardinality(Names)
    BY FS_CardinalityType, SMT
  <2>2. size' \in [Handlers -> 0 .. Cardinality(Names)]
    BY <2>1 DEF Crash, ForAll
  <2>3. crashes' \in 0 .. MaxCrashes
    BY SMT DEF Crash
  <2>4. pc' \in [Handlers -> {"idle", "get", "openInfo", "writeInfo", "database", "insert",
                            "enter", "enterFailed", "wildcard"}] /\ name' \in [Handlers -> Names]
    BY DEF Crash, ForAll
  <2>5. object' \in [Handlers -> Objects \cup {NoProject}] /\ todo' \in [Handlers -> SUBSET Names]
       /\ running' \in [Handlers -> SUBSET Names]
    BY DEF Crash, ForAll
  <2>6. projects' \in [Names -> Objects \cup {NoProject}] /\ hasDb' \subseteq Objects /\ server' = "down"
    BY DEF Crash
  <2>7. UNCHANGED <<disk, history, failures>>
    BY DEF Crash
  <2> QED BY <2>1, <2>2, <2>3, <2>4, <2>5, <2>6, <2>7
<1>2. DownIsIdle'
  BY DEF Crash, DownIsIdle, ForAll
<1>3. MakersAreAlone'
  BY DEF Crash, MakersAreAlone, Making, Registered, ForAll
<1>4. ObjectsAreNamed'
  <2>1. \A g \in Handlers : pc'[g] = "idle"
    BY DEF Crash, ForAll
  <2>2. Registered' = {} /\ UNCHANGED <<mixed, raced>>
    BY DEF Crash, Registered
  <2> QED BY <2>1, <2>2 DEF ObjectsAreNamed
<1>5. StagesAreOnDisk'
  <2>1. \A g \in Handlers : pc'[g] = "idle"
    BY DEF Crash, ForAll
  <2> QED BY <2>1 DEF StagesAreOnDisk
<1>6. RowsAreKept'
  BY DEF Crash, RowsAreKept, StagesAreOnDisk, MakersAreAlone, ObjectsAreNamed, Making, Registered, Disturbed, NameOf, DownIsIdle
<1> QED BY <1>1, <1>2, <1>3, <1>4, <1>5, <1>6

LEMMA RestartKeeps ==
  ASSUME IInv, Restart
  PROVE  IInv'
<1> USE NamesAssumption, HandlersAssumption, BoundsAssumption
<1> USE DEF IInv, TypeOK, Step, Goto, End, Directory, disk, locals, wildcard, history
<1>1. TypeOK'
  BY DEF Restart, Objects, NameOf, ForAll
<1>2. DownIsIdle'
  BY DEF Restart, DownIsIdle, ForAll
<1>3. MakersAreAlone'
  <2>1. \A g \in Handlers : pc'[g] = "idle"
    BY DEF Restart, DownIsIdle
  <2> QED BY <2>1 DEF MakersAreAlone, Making
<1>4. ObjectsAreNamed'
  BY DEF Restart, ObjectsAreNamed, MakersAreAlone, Making, Registered, NameOf, Objects
<1>5. StagesAreOnDisk'
  <2>1. \A g \in Handlers : pc'[g] = "idle"
    BY DEF Restart, DownIsIdle
  <2> QED BY <2>1 DEF StagesAreOnDisk
<1>6. RowsAreKept'
  BY DEF Restart, RowsAreKept, StagesAreOnDisk, MakersAreAlone, ObjectsAreNamed, Making, Registered, Disturbed, NameOf, DownIsIdle
<1> QED BY <1>1, <1>2, <1>3, <1>4, <1>5, <1>6

LEMMA NextInvariant == IInv /\ [Next]_vars => IInv'
<1> SUFFICES ASSUME IInv, [Next]_vars
             PROVE  IInv'
  OBVIOUS
<1>1. ASSUME NEW h \in Handlers, NEW n \in Names, CreateTest(h, n) \/ WildcardLook(h, n)
      PROVE  IInv'
  BY <1>1, CreateTestKeeps, WildcardLookKeeps
<1>2. ASSUME NEW h \in Handlers, GetProject(h) \/ OpenInfo(h) \/ WriteInfo(h)
                                \/ MakeDatabase(h) \/ InsertRow(h) \/ Fail(h) \/ Enter(h)
      PROVE  IInv'
  BY <1>2, GetProjectKeeps, OpenInfoKeeps, WriteInfoKeeps, MakeDatabaseKeeps, InsertRowKeeps,
     FailKeeps, EnterKeeps
<1>3. ASSUME NEW h \in Handlers, WildcardBegin(h) \/ WildcardFails(h) \/ WildcardAnswer(h)
      PROVE  IInv'
  BY <1>3, WildcardBeginKeeps, WildcardFailsKeeps, WildcardAnswerKeeps
<1>4. ASSUME NEW n \in Names, ReportKey(n)
      PROVE  IInv'
  BY <1>4, ReportKeyKeeps
<1>5. CASE Crash \/ Restart
  BY <1>5, CrashKeeps, RestartKeeps
<1>6. CASE UNCHANGED vars
  BY <1>6 DEF IInv, vars, disk, locals, wildcard, history, TypeOK, DownIsIdle, MakersAreAlone,
     ObjectsAreNamed, StagesAreOnDisk, RowsAreKept, Making, Registered, Disturbed
<1> QED BY <1>1, <1>2, <1>3, <1>4, <1>5, <1>6 DEF Next

\* However requests fail, crash and are repeated, a project that no two requests
\* made at once has one row, and only overlapping requests mix projects up.
THEOREM CreatedOnceThm == Spec => []CreatedOnce
<1>1. IInv => CreatedOnce
  BY DEF IInv, RowsAreKept, ObjectsAreNamed, CreatedOnce, Registered, Disturbed
<1> QED BY <1>1, InitInvariant, NextInvariant, PTL DEF Spec

\* A project whose creation was answered Ok is on disk for good, and in the
\* registry with its database whenever the server is up.
THEOREM CreatedIsKeptThm == Spec => []CreatedIsKept
<1>1. IInv => CreatedIsKept
  <2> SUFFICES ASSUME IInv, NEW n \in created \ Disturbed
               PROVE  /\ info[n] = "written" /\ n \in dbFile
                      /\ server = "up" => n \in Registered /\ NameOf(projects[n]) = n
                                          /\ Usable(projects[n])
    BY DEF IInv, CreatedIsKept
  <2>1. n \in Names /\ n \notin raced /\ rows[n] > 0
    BY DEF IInv, TypeOK, RowsAreKept, Disturbed
  <2>2. info[n] = "written" /\ n \in dbFile
    BY <2>1 DEF IInv, RowsAreKept
  <2>3. ASSUME server = "up"
        PROVE  n \in Registered /\ NameOf(projects[n]) = n /\ projects[n] \in hasDb
    <3>1. n \in Registered
      BY <2>3, <2>1 DEF IInv, RowsAreKept
    <3>2. NameOf(projects[n]) = n
      BY <2>1, <3>1 DEF IInv, ObjectsAreNamed
    <3>3. ~ \E h \in Handlers : pc[h] = "enter" /\ name[h] = n
      BY <2>1, <3>1 DEF IInv, MakersAreAlone, Making
    <3>4. projects[n] \in hasDb
      BY <2>1, <2>3, <3>3 DEF IInv, RowsAreKept
    <3> QED BY <3>1, <3>2, <3>4
  <2> QED BY <2>1, <2>2, <2>3 DEF Usable
<1> QED BY <1>1, InitInvariant, NextInvariant, PTL DEF Spec
=============================================================================
