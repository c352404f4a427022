---------------------------- MODULE ServerProjects ----------------------------
(***************************************************************************)
(* The server's registry of projects (server.py, _projects) and what of it *)
(* is on disk: a directory per project with INFO.txt and a database.       *)
(* Flask runs every request in a thread of its own, with no lock, so what  *)
(* a handler does between two looks at shared state is one action.  Work   *)
(* units are module BruteForceDB; here a database is its ProjectInfo rows. *)
(***************************************************************************)
EXTENDS Naturals, FiniteSets

CONSTANTS
  Names,        \* project names
  Literal,      \* the name "name", which get_project looks up by mistake
  Handlers,     \* threads that serve requests
  Loader,       \* load_projects
  NoProject,    \* "not in _projects"
  MaxCrashes, MaxFailures \* bounds

ASSUME NamesAssumption == /\ IsFiniteSet(Names) /\ Literal \in Names
                          /\ NoProject \notin Names \X (Handlers \cup {Loader})
ASSUME HandlersAssumption == Loader \notin Handlers
ASSUME BoundsAssumption == MaxCrashes \in Nat /\ MaxFailures \in Nat

VARIABLES
  server,       \* "up", "down", or "dead": it cannot start
  projects,     \* _projects: name -> project object
  hasDb,        \* objects whose attribute db is set
  info,         \* name -> INFO.txt: "none", "empty", "written"
  dbFile,       \* names whose database file exists
  rows, done,   \* name -> rows of ProjectInfo; names whose status is done
  pc, name, object,     \* handler -> where it is; its name; its project object
  todo, size, running,  \* a request for "*": names to look at, size, running ones
  created,      \* history: names whose creation was answered Ok
  raced,        \* history: names that two requests created at once
  mixed,        \* history: names that were given the project called "name"
  crashes, failures

\* A project object, by the name it was made for and who made it.
Objects == Names \X (Handlers \cup {Loader})
NameOf(o) == o[1]

disk     == <<info, dbFile, rows, done>>
locals   == <<pc, name, object>>
wildcard == <<todo, size, running>>
history  == <<created, raced, mixed>>
vars == <<server, projects, hasDb, disk, locals, wildcard, history, crashes, failures>>

Registered == {n \in Names : projects[n] # NoProject}

TypeOK ==
  /\ server \in {"up", "down", "dead"}
  /\ projects \in [Names -> Objects \cup {NoProject}]
  /\ hasDb \subseteq Objects
  /\ info \in [Names -> {"none", "empty", "written"}]
  /\ dbFile \subseteq Names /\ rows \in [Names -> Nat] /\ done \subseteq Names
  /\ pc \in [Handlers -> {"idle", "get", "openInfo", "writeInfo", "database", "insert",
                          "enter", "enterFailed", "wildcard"}]
  /\ name \in [Handlers -> Names]
  /\ object \in [Handlers -> Objects \cup {NoProject}]
  /\ todo \in [Handlers -> SUBSET Names] /\ size \in [Handlers -> 0 .. Cardinality(Names)]
  /\ running \in [Handlers -> SUBSET Names]
  /\ created \subseteq Names /\ raced \subseteq Names /\ mixed \subseteq Names
  /\ crashes \in 0 .. MaxCrashes /\ failures \in 0 .. MaxFailures

ForAll(x) == [h \in Handlers |-> x]

Init ==
  /\ server = "up"
  /\ projects = [n \in Names |-> NoProject] /\ hasDb = {}
  /\ info = [n \in Names |-> "none"] /\ dbFile = {}
  /\ rows = [n \in Names |-> 0] /\ done = {}
  /\ pc = ForAll("idle") /\ name = ForAll(Literal) /\ object = ForAll(NoProject)
  /\ todo = ForAll({}) /\ size = ForAll(0) /\ running = ForAll({})
  /\ created = {} /\ raced = {} /\ mixed = {}
  /\ crashes = 0 /\ failures = 0

Goto(h, to) == pc' = [pc EXCEPT ![h] = to]
\* The request is answered, and its locals are gone.
End(h) ==
  /\ Goto(h, "idle")
  /\ name' = [name EXCEPT ![h] = Literal] /\ object' = [object EXCEPT ![h] = NoProject]
Step(h, from) == server = "up" /\ pc[h] = from

-----------------------------------------------------------------------------
(* create_project *)

\* Mutant of CreateTest: the name is not looked up.
CreateUntested(h, n) ==
  /\ Step(h, "idle")
  /\ Goto(h, "get")
  /\ name' = [name EXCEPT ![h] = n]
  /\ raced' = IF \E g \in Handlers : pc[g] \notin {"idle", "wildcard"} /\ name[g] = n
              THEN raced \cup {n} ELSE raced
  /\ UNCHANGED <<server, projects, hasDb, disk, object, wildcard, created, mixed,
                 crashes, failures>>

\* name not in _projects, tested before anything is made
CreateTest(h, n) ==
  /\ Step(h, "idle") /\ n \notin Registered
  /\ Goto(h, "get")
  /\ name' = [name EXCEPT ![h] = n]
  /\ raced' = IF \E g \in Handlers : pc[g] \notin {"idle", "wildcard"} /\ name[g] = n
              THEN raced \cup {n} ELSE raced
  /\ UNCHANGED <<server, projects, hasDb, disk, object, wildcard, created, mixed,
                 crashes, failures>>

\* get_project: a new object, or _projects['name'], or KeyError.
GetProject(h) ==
  /\ Step(h, "get")
  /\ LET n == name[h]
     IN  \/ /\ n \notin Registered
            /\ object' = [object EXCEPT ![h] = <<n, h>>]
            /\ hasDb' = IF n \in dbFile THEN hasDb \cup {<<n, h>>} ELSE hasDb \ {<<n, h>>}
            /\ Goto(h, "openInfo")
            /\ UNCHANGED <<name, mixed>>
         \/ /\ n \in Registered /\ Literal \in Registered
            /\ object' = [object EXCEPT ![h] = projects[Literal]]
            /\ mixed' = mixed \cup {n}
            /\ Goto(h, "openInfo")
            /\ UNCHANGED <<name, hasDb>>
         \/ /\ n \in Registered /\ Literal \notin Registered
            /\ End(h)
            /\ UNCHANGED <<hasDb, mixed>>
  /\ UNCHANGED <<server, projects, disk, wildcard, created, raced, crashes, failures>>

Directory(h) == NameOf(object[h])

\* write_info: open truncates, the write comes later.
OpenInfo(h) ==
  /\ Step(h, "openInfo")
  /\ info' = [info EXCEPT ![Directory(h)] = "empty"]
  /\ Goto(h, "writeInfo")
  /\ UNCHANGED <<server, projects, hasDb, dbFile, rows, done, name, object, wildcard, history,
                 crashes, failures>>

\* Mutant of WriteInfo: the file is left as open made it.
WriteNoInfo(h) ==
  /\ Step(h, "writeInfo")
  /\ Goto(h, "database")
  /\ UNCHANGED <<server, projects, hasDb, disk, name, object, wildcard, history,
                 crashes, failures>>

WriteInfo(h) ==
  /\ Step(h, "writeInfo")
  /\ info' = [info EXCEPT ![Directory(h)] = "written"]
  /\ Goto(h, "database")
  /\ UNCHANGED <<server, projects, hasDb, dbFile, rows, done, name, object, wildcard, history,
                 crashes, failures>>

\* if not self.db_exists
MakeDatabase(h) ==
  /\ Step(h, "database")
  /\ hasDb' = hasDb \cup {object[h]}
  /\ dbFile' = dbFile \cup {Directory(h)}
  /\ Goto(h, "insert")
  /\ UNCHANGED <<server, projects, info, rows, done, name, object, wildcard, history,
                 crashes, failures>>

InsertRow(h) ==
  /\ Step(h, "insert")
  /\ rows' = [rows EXCEPT ![Directory(h)] = @ + 1]
  /\ Goto(h, "enter")
  /\ UNCHANGED <<server, projects, hasDb, info, dbFile, done, name, object, wildcard, history,
                 crashes, failures>>

\* A write that fails: of INFO.txt, which ends the request; of the database,
\* which is answered with ServerError after the project has been entered.
Fail(h) ==
  /\ server = "up" /\ failures < MaxFailures
  /\ failures' = failures + 1
  /\ \/ pc[h] \in {"openInfo", "writeInfo"} /\ End(h) /\ UNCHANGED dbFile
     \/ /\ pc[h] = "database" /\ object[h] \notin hasDb
        /\ dbFile' \in {dbFile, dbFile \cup {Directory(h)}}
        /\ Goto(h, "enterFailed") /\ UNCHANGED <<name, object>>
     \/ pc[h] = "insert" /\ Goto(h, "enterFailed") /\ UNCHANGED <<dbFile, name, object>>
  /\ UNCHANGED <<server, projects, hasDb, info, rows, done, wildcard, history, crashes>>

\* _projects[name] = project, and the answer: Ok or ServerError
Enter(h) ==
  /\ server = "up" /\ pc[h] \in {"enter", "enterFailed"}
  /\ projects' = [projects EXCEPT ![name[h]] = object[h]]
  /\ created' = IF pc[h] = "enter" THEN created \cup {name[h]} ELSE created
  /\ End(h)
  /\ UNCHANGED <<server, hasDb, disk, wildcard, raced, mixed, crashes, failures>>

-----------------------------------------------------------------------------
(* request_work and report_work *)

\* for p in _projects: get_state()
WildcardBegin(h) ==
  /\ Step(h, "idle")
  /\ todo' = [todo EXCEPT ![h] = Registered]
  /\ size' = [size EXCEPT ![h] = Cardinality(Registered)]
  /\ running' = [running EXCEPT ![h] = {}]
  /\ Goto(h, "wildcard")
  /\ UNCHANGED <<server, projects, hasDb, disk, name, object, history, crashes, failures>>

Usable(o) == o \in hasDb /\ rows[NameOf(o)] > 0

\* The dictionary has grown, or get_state finds no database or no row: the
\* request is over, whatever the other projects are.
WildcardFails(h) ==
  /\ Step(h, "wildcard")
  /\ \/ Cardinality(Registered) # size[h]
     \/ \E n \in todo[h] : ~Usable(projects[n])
  /\ Goto(h, "idle")
  /\ todo' = [todo EXCEPT ![h] = {}] /\ running' = [running EXCEPT ![h] = {}]
  /\ size' = [size EXCEPT ![h] = 0]
  /\ UNCHANGED <<server, projects, hasDb, disk, name, object, history, crashes, failures>>

WildcardLook(h, n) ==
  /\ Step(h, "wildcard") /\ n \in todo[h]
  /\ Cardinality(Registered) = size[h] /\ Usable(projects[n])
  /\ todo' = [todo EXCEPT ![h] = @ \ {n}]
  /\ running' = [running EXCEPT ![h] = IF NameOf(projects[n]) \in done THEN @ ELSE @ \cup {n}]
  /\ UNCHANGED <<server, projects, hasDb, disk, locals, size, history, crashes, failures>>

\* Work of a running project, or NoWorkAvailable.
WildcardAnswer(h) ==
  /\ Step(h, "wildcard") /\ todo[h] = {} /\ Cardinality(Registered) = size[h]
  /\ Goto(h, "idle")
  /\ running' = [running EXCEPT ![h] = {}] /\ size' = [size EXCEPT ![h] = 0]
  /\ UNCHANGED <<server, projects, hasDb, disk, name, object, todo, history, crashes, failures>>

\* A report with a private key; one for a project not in _projects is
\* answered Ok and ignored.
ReportKey(n) ==
  /\ server = "up" /\ n \in Registered /\ Usable(projects[n])
  /\ done' = done \cup {NameOf(projects[n])}
  /\ UNCHANGED <<server, projects, hasDb, info, dbFile, rows, locals, wildcard, history,
                 crashes, failures>>

-----------------------------------------------------------------------------
(* The process *)

Crash ==
  /\ server = "up" /\ crashes < MaxCrashes
  /\ crashes' = crashes + 1
  /\ server' = "down"
  /\ projects' = [n \in Names |-> NoProject] /\ hasDb' = {}
  /\ pc' = ForAll("idle") /\ name' = ForAll(Literal) /\ object' = ForAll(NoProject)
  /\ todo' = ForAll({}) /\ size' = ForAll(0) /\ running' = ForAll({})
  /\ UNCHANGED <<disk, history, failures>>

\* load_projects: a directory without INFO.txt is left out; an empty INFO.txt
\* is an unknown type, which nothing catches.
Restart ==
  /\ server = "down"
  /\ IF \E n \in Names : info[n] = "empty"
     THEN server' = "dead" /\ UNCHANGED <<projects, hasDb>>
     ELSE /\ server' = "up"
          /\ projects' = [n \in Names |-> IF info[n] = "written" THEN <<n, Loader>>
                                          ELSE NoProject]
          /\ hasDb' = {n \in dbFile : info[n] = "written"} \X {Loader}
  /\ UNCHANGED <<disk, locals, wildcard, history, crashes, failures>>

Next ==
  \/ \E h \in Handlers :
       \/ \E n \in Names : CreateTest(h, n) \/ WildcardLook(h, n)
       \/ GetProject(h) \/ OpenInfo(h) \/ WriteInfo(h) \/ MakeDatabase(h) \/ InsertRow(h)
       \/ Fail(h) \/ Enter(h)
       \/ WildcardBegin(h) \/ WildcardFails(h) \/ WildcardAnswer(h)
  \/ \E n \in Names : ReportKey(n)
  \/ Crash \/ Restart

Spec == Init /\ [][Next]_vars

-----------------------------------------------------------------------------
(* Properties *)

\* Names that two requests created at once, and the project "name" once it
\* was taken for another.
Disturbed == raced \cup (IF mixed = {} THEN {} ELSE {Literal})

\* A project whose creation was answered Ok is there for good: on disk, and in
\* the registry with its own database after every crash and restart, unless two
\* requests created it at once (server.py:181-203, load_projects).
CreatedIsKept ==
  /\ TypeOK
  /\ \A n \in created \ Disturbed :
       /\ info[n] = "written" /\ n \in dbFile
       /\ server = "up" => n \in Registered /\ NameOf(projects[n]) = n /\ Usable(projects[n])

\* No sequence of failures, crashes and repeated requests makes a project
\* twice; only overlapping requests do, and only they mix projects up.
CreatedOnce ==
  /\ \A n \in Names \ Disturbed : rows[n] <= 1
  /\ mixed \subseteq raced
  /\ \A n \in Registered \ raced : NameOf(projects[n]) = n
=============================================================================
