---------------------------- MODULE WorkUnitManager ----------------------------
(***************************************************************************)
(* The client's store of work units (parcrypt_lib/work_unit_manager.cpp):  *)
(* a map in memory, one .wrk file per unit in work_units, and the          *)
(* directory completed_work to which files of finished units are moved.    *)
(* Every method holds one mutex from start to end, so it is one action;    *)
(* but the mutex is locked by hand, and a method that throws leaves it     *)
(* locked.  The file system and the crashes of the process are the         *)
(* caller's to choose (module Client).                                     *)
(***************************************************************************)
EXTENDS BruteForceWorkUnit, FiniteSetsExt

CONSTANTS
  Units,        \* work unit ids
  NumItems      \* unit -> how many items its range is cut into

VARIABLES
  units,        \* the keys of _work_units
  wu,           \* the units themselves, Created(..) outside the map
  files,        \* unit -> its file in work_units
  archived,     \* units whose file is in completed_work
  stuck         \* the mutex was left locked by a method that threw

managerVars == <<units, wu, files, archived, stuck>>

NoFile == [state |-> "none"]
TornFile == [state |-> "torn"]      \* truncated, or written in part
WorkFile(w) == [state |-> "saved", unit |-> Saved(w)]

Items(u) == 0 .. NumItems[u] - 1

WorkUnitsOf(u) == [available : SUBSET Items(u), outstanding : SUBSET Items(u),
                   completed : SUBSET Items(u), key : BOOLEAN]

ManagerTypeOK ==
  /\ units \subseteq Units
  /\ \A u \in Units :
       /\ wu[u] \in WorkUnitsOf(u)
       /\ \/ files[u] \in {NoFile, TornFile}
          \/ files[u] \in [state : {"saved"},
                           unit : [completed : SUBSET Items(u), key : BOOLEAN]]
  /\ archived \subseteq Units
  /\ stuck \in BOOLEAN

ManagerInit ==
  /\ units = {}
  /\ wu = [u \in Units |-> Created(NumItems[u])]
  /\ files = [u \in Units |-> NoFile]
  /\ archived = {}
  /\ stuck = FALSE

\* The constructor in a process that starts: the mutex is new and load_work
\* reads every file.  A torn one makes uint256("") throw, which nothing
\* catches: CanLoad says whether the program survives its start.
CanLoad == \A u \in Units : files[u] # TornFile

\* Mutant of LoadWork: the key is not read back.
LoadWithoutKey ==
  /\ units' = {u \in Units : files[u] # NoFile}
  /\ wu' = [u \in Units |-> IF files[u] # NoFile
                            THEN Restored(NumItems[u], files[u].unit.completed, FALSE)
                            ELSE Created(NumItems[u])]
  /\ UNCHANGED <<files, archived, stuck>>

LoadWork ==
  /\ units' = {u \in Units : files[u] # NoFile}
  /\ wu' = [u \in Units |-> IF files[u] # NoFile
                            THEN Restored(NumItems[u], files[u].unit.completed,
                                          files[u].unit.key)
                            ELSE Created(NumItems[u])]
  /\ UNCHANGED <<files, archived, stuck>>

\* The process is gone, with the map and the mutex.
LoseMemory ==
  /\ units' = {}
  /\ wu' = [u \in Units |-> Created(NumItems[u])]
  /\ stuck' = FALSE

\* save(path): ofstream truncates the file, then writes it.  A failed write
\* is not noticed; the file stays torn until the next save.
Save(u, w, torn) ==
  files' = [files EXCEPT ![u] = IF torn THEN TornFile ELSE WorkFile(w)]

Add(u, torn) ==
  /\ ~stuck
  /\ \/ /\ u \in units          \* "already exists": the new object is dropped
        /\ UNCHANGED managerVars
     \/ /\ u \notin units
        /\ units' = units \cup {u}
        /\ wu' = [wu EXCEPT ![u] = Created(NumItems[u])]
        /\ Save(u, wu'[u], torn)
        /\ UNCHANGED <<archived, stuck>>

\* create_directories throws after the unit has entered the map.
AddThrows(u) ==
  /\ ~stuck /\ u \notin units
  /\ units' = units \cup {u}
  /\ wu' = [wu EXCEPT ![u] = Created(NumItems[u])]
  /\ stuck' = TRUE
  /\ UNCHANGED <<files, archived>>

\* The first unit with a free item, in the order of the ids, which are
\* random: any of them.
GetWork(u) ==
  /\ ~stuck
  /\ u \in units /\ ~Done(wu[u]) /\ Free(wu[u]) # {}
  /\ wu' = [wu EXCEPT ![u] = Taken(@, NextItem(@))]
  /\ UNCHANGED <<units, files, archived, stuck>>

ReportWork(u, i, status, foundKey, torn) ==
  /\ ~stuck
  /\ IF u \in units
     THEN /\ wu' = [wu EXCEPT ![u] = Reported(@, i, status, foundKey)]
          /\ Save(u, wu'[u], torn)
     ELSE UNCHANGED <<wu, files>>
  /\ UNCHANGED <<units, archived, stuck>>

\* The results of the finished units, and the map's unit in each.
CompletedWork == {[unit |-> u, key |-> wu[u].key] : u \in {v \in units : Done(wu[v])}}

\* Mutant of Remove: the file stays where load_work finds it.
RemoveKeepingFile(u) ==
  /\ ~stuck
  /\ units' = units \ {u}
  /\ wu' = [wu EXCEPT ![u] = Created(NumItems[u])]
  /\ archived' = archived \cup ({u} \cap units)
  /\ UNCHANGED <<files, stuck>>

\* remove: the file is renamed, then the unit deleted.
Remove(u) ==
  /\ ~stuck
  /\ IF u \in units
     THEN /\ files' = [files EXCEPT ![u] = NoFile]
          /\ archived' = archived \cup {u}
          /\ units' = units \ {u}
          /\ wu' = [wu EXCEPT ![u] = Created(NumItems[u])]
     ELSE UNCHANGED <<files, archived, units, wu>>
  /\ UNCHANGED stuck

\* create_directories or rename throws.
RemoveThrows(u) ==
  /\ ~stuck /\ u \in units
  /\ stuck' = TRUE
  /\ UNCHANGED <<units, wu, files, archived>>

TotalWorkAvailable == MapThenSumSet(LAMBDA u : AvailableWork(wu[u]), units)
=============================================================================
