--------------------------------- MODULE Client --------------------------------
(***************************************************************************)
(* The client program (parcrypt/main.cpp): the download thread, the work   *)
(* manager thread with one worker thread per GPU slot, and the upload      *)
(* thread, which all work on the WorkUnitManager; the server as far as a   *)
(* client sees it; crashes of the process and restarts.  A GPU's search of *)
(* one item is two steps here: it runs, then it has ended.                 *)
(***************************************************************************)
EXTENDS WorkUnitManager

CONSTANTS
  Slots,        \* _worker_slots, one per GPU
  KeyItems,     \* the item that holds the private key, {} or {<<unit, item>>}
  NoUnit,       \* "no unit"
  MaxSends,     \* bound: how many units the server sends
  Faults,       \* the kinds of fault that may happen
  MaxFaults     \* bound: how many of them

ASSUME UnitsAssumption  == NumItems \in [Units -> Nat] /\ NoUnit \notin Units
ASSUME BoundsAssumption == MaxSends \in Nat /\ MaxFaults \in Nat

FaultKinds == {"abort", "leak", "noAnswer", "serverError", "crash", "torn", "throw"}
ASSUME FaultsAssumption == Faults \subseteq FaultKinds

VARIABLES
  proc,         \* the process: "up", "down", or "dead" when it cannot start
  fetching,     \* the download thread has found too little work
  slot,         \* slot -> its thread's state and work item
  batch,        \* the upload thread's completed_work, results still to upload
  uploaded,     \* the unit whose result was answered and is to be removed
  accepted,     \* history: results the server has taken
  refused,      \* history: units whose result it answered with ServerError
  stored,       \* history: units that add has put into a file
  searched,     \* history: unit -> items a GPU has searched to the end
  sends, faults \* bounds

threadVars == <<fetching, slot, batch, uploaded>>
history    == <<accepted, refused, stored, searched>>
bounds     == <<sends, faults>>
vars       == <<managerVars, proc, threadVars, history, bounds>>

Idle == [state |-> "free", unit |-> NoUnit, item |-> 0]
AllItems == UNION {Items(u) : u \in Units}
Results == [unit : Units, key : BOOLEAN]

TypeOK ==
  /\ ManagerTypeOK
  /\ proc \in {"up", "down", "dead"}
  /\ fetching \in BOOLEAN
  /\ slot \in [Slots -> {Idle} \cup
                 [state : {"running", "completed", "aborted", "leaked"},
                  unit : Units, item : AllItems]]
  /\ batch \subseteq Results
  /\ uploaded \in Units \cup {NoUnit}
  /\ accepted \subseteq Results
  /\ refused \subseteq Units /\ stored \subseteq Units
  /\ \A u \in Units : searched[u] \subseteq Items(u)
  /\ sends \in 0 .. MaxSends /\ faults \in 0 .. MaxFaults

Init ==
  /\ ManagerInit
  /\ proc = "up"
  /\ fetching = FALSE
  /\ slot = [s \in Slots |-> Idle]
  /\ batch = {} /\ uploaded = NoUnit
  /\ accepted = {} /\ refused = {} /\ stored = {}
  /\ searched = [u \in Units |-> {}]
  /\ sends = 0 /\ faults = 0

Fault(kind) ==
  /\ kind \in Faults /\ faults < MaxFaults
  /\ faults' = faults + 1

\* Whether the save of this step is torn.
TornSave(torn) == \/ ~torn /\ UNCHANGED faults
                  \/ torn /\ Fault("torn")

-----------------------------------------------------------------------------
(* download_thread_function *)

\* have_enough_work compares an int with a size_t: a negative total is taken
\* for a huge one.
HaveEnoughWork ==
  TotalWorkAvailable < 0 \/ TotalWorkAvailable >= Cardinality(Slots)

FindTooLittle ==
  /\ proc = "up" /\ ~stuck /\ ~fetching
  /\ ~HaveEnoughWork
  /\ fetching' = TRUE
  /\ UNCHANGED <<managerVars, proc, slot, batch, uploaded, history, bounds>>

\* The server sends a unit, perhaps one this client already has.
Download(u) ==
  /\ proc = "up" /\ fetching /\ sends < MaxSends
  /\ \E torn \in BOOLEAN : Add(u, torn) /\ TornSave(torn)
  /\ fetching' = FALSE
  /\ stored' = stored \cup {u}
  /\ sends' = sends + 1
  /\ UNCHANGED <<proc, slot, batch, uploaded, accepted, refused, searched>>

\* add throws: the unit is in the map and has no file.  The thread catches it
\* and goes on, without the mutex.
DownloadThrows(u) ==
  /\ proc = "up" /\ fetching /\ sends < MaxSends
  /\ Fault("throw")
  /\ AddThrows(u)
  /\ fetching' = FALSE
  /\ sends' = sends + 1
  /\ UNCHANGED <<proc, slot, batch, uploaded, history>>

\* The server has no work, or does not answer.
NoDownload ==
  /\ proc = "up" /\ fetching
  /\ fetching' = FALSE
  /\ UNCHANGED <<managerVars, proc, slot, batch, uploaded, history, bounds>>

-----------------------------------------------------------------------------
(* work_manager_thread_function and worker_thread *)

StartWorker(s) ==
  /\ proc = "up" /\ slot[s] = Idle
  /\ \E u \in Units :
       /\ GetWork(u)
       /\ slot' = [slot EXCEPT ![s] = [state |-> "running", unit |-> u,
                                       item |-> NextItem(wu[u])]]
  /\ UNCHANGED <<proc, fetching, batch, uploaded, history, bounds>>

\* The GPU has searched the item: status Completed, private key if found.
SearchEnds(s) ==
  /\ proc = "up" /\ slot[s].state = "running"
  /\ slot' = [slot EXCEPT ![s].state = "completed"]
  /\ searched' = [searched EXCEPT ![slot[s].unit] = @ \cup {slot[s].item}]
  /\ UNCHANGED <<managerVars, proc, fetching, batch, uploaded,
                 accepted, refused, stored, bounds>>

\* The search raises an exception: status Aborted.
SearchFails(s) ==
  /\ proc = "up" /\ slot[s].state = "running"
  /\ Fault("abort")
  /\ slot' = [slot EXCEPT ![s].state = "aborted"]
  /\ UNCHANGED <<managerVars, proc, fetching, batch, uploaded, history, sends>>

\* The GPU context cannot be created: the thread returns at once and gives
\* neither the slot nor the item back.
WorkerLeaks(s) ==
  /\ proc = "up" /\ slot[s].state = "running"
  /\ Fault("leak")
  /\ slot' = [slot EXCEPT ![s].state = "leaked"]
  /\ UNCHANGED <<managerVars, proc, fetching, batch, uploaded, history, sends>>

ReturnWork(s) ==
  /\ proc = "up" /\ slot[s].state \in {"completed", "aborted"}
  /\ \E torn \in BOOLEAN :
       /\ ReportWork(slot[s].unit, slot[s].item, slot[s].state,
                     slot[s].state = "completed" /\
                       <<slot[s].unit, slot[s].item>> \in KeyItems,
                     torn)
       /\ TornSave(torn)
  /\ slot' = [slot EXCEPT ![s] = Idle]
  /\ UNCHANGED <<proc, fetching, batch, uploaded, history, sends>>

-----------------------------------------------------------------------------
(* upload_thread_function *)

GetCompletedWork ==
  /\ proc = "up" /\ ~stuck
  /\ batch = {} /\ uploaded = NoUnit
  /\ batch' = CompletedWork
  /\ UNCHANGED <<managerVars, proc, fetching, slot, uploaded, history, bounds>>

\* Mutant of Upload: the unit is not held until its result was answered.
UploadUnanswered(r) ==
  /\ proc = "up" /\ r \in batch /\ uploaded = NoUnit
  /\ batch' = batch \ {r}
  /\ uploaded' = r.unit
  /\ \/ accepted' = accepted \cup {r} /\ UNCHANGED <<refused, faults>>
     \/ Fault("noAnswer") /\ UNCHANGED <<accepted, refused>>
  /\ UNCHANGED <<managerVars, proc, fetching, slot, stored, searched, sends>>

\* report_results returns: 'Ok', or ServerError, which is not looked at.
Upload(r) ==
  /\ proc = "up" /\ r \in batch /\ uploaded = NoUnit
  /\ batch' = batch \ {r}
  /\ uploaded' = r.unit
  /\ \/ accepted' = accepted \cup {r} /\ UNCHANGED <<refused, faults>>
     \/ Fault("serverError") /\ refused' = refused \cup {r.unit} /\ UNCHANGED accepted
  /\ UNCHANGED <<managerVars, proc, fetching, slot, stored, searched, sends>>

\* report_results throws: the server never got the result, or its answer was
\* lost.  The unit stays for the next round.
UploadFails(r) ==
  /\ proc = "up" /\ r \in batch /\ uploaded = NoUnit
  /\ Fault("noAnswer")
  /\ batch' = batch \ {r}
  /\ accepted' \in {accepted, accepted \cup {r}}
  /\ UNCHANGED <<managerVars, proc, fetching, slot, uploaded, refused, stored,
                 searched, sends>>

RemoveUploaded ==
  /\ proc = "up" /\ uploaded # NoUnit
  /\ Remove(uploaded)
  /\ uploaded' = NoUnit
  /\ UNCHANGED <<proc, fetching, slot, batch, history, bounds>>

\* remove throws; the thread catches it, and blocks on the mutex next time.
RemoveUploadedThrows ==
  /\ proc = "up" /\ uploaded # NoUnit
  /\ Fault("throw")
  /\ RemoveThrows(uploaded)
  /\ uploaded' = NoUnit
  /\ UNCHANGED <<proc, fetching, slot, batch, history, sends>>

-----------------------------------------------------------------------------
(* The process *)

\* The units a save may be in the middle of: one that a worker reports an item
\* of, and one that the download thread adds.
BeingSaved ==
  {u \in units : \E s \in Slots : slot[s].unit = u /\ slot[s].state \in {"completed", "aborted"}}
    \cup {u \in Units \ units : fetching /\ sends < MaxSends}

\* The process ends with all threads; a save in the middle leaves a torn file.
Crash ==
  /\ proc = "up"
  /\ Fault("crash")
  /\ proc' = "down"
  /\ LoseMemory
  /\ \/ UNCHANGED files
     \/ /\ "torn" \in Faults /\ ~stuck
        /\ \E u \in BeingSaved : files' = [files EXCEPT ![u] = TornFile]
  /\ fetching' = FALSE
  /\ slot' = [s \in Slots |-> Idle]
  /\ batch' = {} /\ uploaded' = NoUnit
  /\ UNCHANGED <<archived, history, sends>>

Restart ==
  /\ proc = "down"
  /\ \/ /\ CanLoad
        /\ proc' = "up"
        /\ LoadWork
     \/ /\ ~CanLoad
        /\ proc' = "dead"
        /\ UNCHANGED managerVars
  /\ UNCHANGED <<threadVars, history, bounds>>

-----------------------------------------------------------------------------
Worker(s) == SearchEnds(s) \/ ReturnWork(s)
WorkerFault(s) == SearchFails(s) \/ WorkerLeaks(s)

Next ==
  \/ FindTooLittle \/ NoDownload
  \/ \E u \in Units : Download(u) \/ DownloadThrows(u)
  \/ \E s \in Slots : StartWorker(s) \/ Worker(s) \/ WorkerFault(s)
  \/ GetCompletedWork
  \/ \E r \in batch : Upload(r) \/ UploadFails(r)
  \/ RemoveUploaded \/ RemoveUploadedThrows
  \/ Crash \/ Restart

Spec == Init /\ [][Next]_vars

(***************************************************************************)
(* Fairness: every thread loops, a GPU ends the search of an item, and a   *)
(* process that died is started again.  A request of the upload thread is  *)
(* assumed to end, which the code does not ensure: http_client.cpp:39-45   *)
(* sets no timeout, and ClientThreads models the request that never ends.  *)
(* Nothing is assumed of the download thread: what a client has must get   *)
(* done without new work.                                                  *)
(***************************************************************************)
Fairness ==
  /\ \A s \in Slots : WF_vars(StartWorker(s)) /\ WF_vars(Worker(s))
  /\ WF_vars(GetCompletedWork)
  /\ WF_vars(\E r \in batch : Upload(r))
  /\ WF_vars(RemoveUploaded)
  /\ WF_vars(Restart)

FairSpec == Spec /\ Fairness

-----------------------------------------------------------------------------
(* Properties *)

HasKey(u) == \E i \in Items(u) : <<u, i>> \in KeyItems

\* The server is told that a unit is finished only when GPUs have searched
\* every item of it to the end, through aborts, crashes and restarts.
AcceptedIsSearched == \A r \in accepted : searched[r.unit] = Items(r.unit)

\* The private key is reported exactly with the unit that holds it: it is
\* neither lost on the way (a later item, a file, a restart) nor made up.
KeyIsReported == \A r \in accepted : r.key <=> HasKey(r.unit)

\* Two GPUs never search the same item, and no unit is removed while an item
\* of it is being searched: "otherwise this work unit might be removed while
\* work items are still running. This will cause a crash"
\* (brute_force_work_unit.cpp:151-154).
NoDanglingItem ==
  \A s \in Slots : slot[s].state \in {"running", "completed", "aborted"} =>
    /\ slot[s].unit \in units
    /\ slot[s].item \in wu[slot[s].unit].available
    /\ \A t \in Slots \ {s} : slot[t].state # "free" =>
         <<slot[t].unit, slot[t].item>> # <<slot[s].unit, slot[s].item>>

\* What is on disk as finished was searched, and the key item's file has the
\* key: a restart neither skips an item nor forgets the key.
DiskIsSearched ==
  \A u \in Units : files[u].state = "saved" =>
    LET f == files[u].unit
    IN  /\ f.completed \subseteq searched[u]
        /\ f.key <=> \E i \in f.completed : <<u, i>> \in KeyItems

\* The file of a unit stays in its directory until the server has answered the
\* unit's result, be it with ServerError (main.cpp:274-276).
StoredUntilAnswered ==
  \A u \in stored :
    files[u] # NoFile \/ u \in refused \/ \E r \in accepted : r.unit = u

\* A unit in the map has a file, until a method throws and leaves the mutex
\* locked: the unit whose add throws is the only one that a crash forgets.
MapOnDisk == ~stuck => \A u \in units : files[u] # NoFile

\* No unit is forgotten before its result was answered, but for that one.
ForgottenWasAnswered == StoredUntilAnswered /\ MapOnDisk

\* Every unit on disk is searched, reported and moved away, whatever crashes,
\* aborts and lost answers do, unless the client hangs (mutex left locked),
\* loses a GPU for good (leak) or cannot start (torn file).
UnitsGetDone ==
  \A u \in Units :
    files[u] # NoFile ~>
      \/ files[u] = NoFile
      \/ stuck \/ proc = "dead"
      \/ \E s \in Slots : slot[s].state = "leaked"
=============================================================================
