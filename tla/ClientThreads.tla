----------------------------- MODULE ClientThreads -----------------------------
(***************************************************************************)
(* The lives of the client's threads and of what they share (main.cpp):    *)
(* main, which starts four threads, waits and deletes the manager; the     *)
(* four loops; one detached worker per slot, whose WorkerThreadState the   *)
(* status thread reads; and CTRL-C, at any time.  What the threads do with *)
(* work units is module Client.  The manager's mutex is locked by hand and *)
(* stays locked after a method that throws, and a request to the server    *)
(* may never end: http_client.cpp sets no timeout.  After undefined        *)
(* behaviour no step is taken: proc is "undefined", and cause tells what   *)
(* was used too late.                                                      *)
(***************************************************************************)
EXTENDS Integers, FiniteSets

CONSTANTS
  NumSlots,     \* devices in the configuration
  NumGpus,      \* GPUs that the machine has
  UnitItems,    \* items of a work unit
  MaxUnits,     \* bound: units the server gives
  NoSlot        \* no slot

Slots == 1 .. NumSlots

ASSUME SlotsAssumption == NumSlots \in Nat /\ NoSlot \notin Slots
ASSUME NumbersAssumption == NumGpus \in Nat /\ UnitItems \in Nat /\ MaxUnits \in Nat

VARIABLES
  proc, cause,          \* "run", "exited", "undefined"; and by what
  running,              \* _running
  main,                 \* where main and run() are
  manager,              \* _manager: "none", "alive", "deleted"
  available, units,     \* items in the manager; units received so far
  stuck,                \* the manager's mutex was left locked
  wm, wmSlot,           \* the work manager thread and its i
  download,             \* the download thread
  upload, toSend,       \* the upload thread; finished units it has still to report
  inUse,                \* slot -> in_use
  worker,               \* slot -> where its worker thread is
  item,                 \* slot -> its state's _work_item is set
  list,                 \* slots whose state is in _thread_states
  status,               \* the status thread
  toScan, checked,      \* states it has still to look at; the one it is at
  snapshot,             \* states it has copied and not yet printed
  freed,                \* states deleted while it had a pointer to them
  ended                 \* history: workers that ended during its report

mainVars     == <<main, manager>>
wmVars       == <<wm, wmSlot>>
store        == <<available, units, stuck>>
uploadVars   == <<upload, toSend>>
workerVars   == <<inUse, worker, item, list>>
statusVars   == <<status, toScan, checked, snapshot>>
sinceLock    == <<freed, ended>>
vars == <<proc, cause, running, mainVars, store, wmVars, download, uploadVars,
          workerVars, statusVars, sinceLock>>

ThreadTypes ==
  /\ proc \in {"run", "exited", "undefined"}
  /\ cause \in {"none", "device", "manager", "report"}
  /\ running \in BOOLEAN
  /\ main \in {"config", "watch", "joinManager", "joinDownload", "joinUpload",
               "joinStatus", "delete", "return"}
  /\ manager \in {"none", "alive", "deleted"}
  /\ units \in 0 .. MaxUnits
  /\ wm \in {"off", "sleep", "scan", "ended"} /\ wmSlot \in 1 .. NumSlots + 1
  /\ stuck \in BOOLEAN
  /\ download \in {"off", "sleep", "waits", "add", "hung", "ended"}
  /\ upload \in {"off", "sleep", "waits", "send", "remove", "hung", "ended"}
  /\ toSend \in 0 .. MaxUnits /\ (upload \in {"send", "remove"} => toSend > 0)
  /\ inUse \in [Slots -> BOOLEAN] /\ item \in [Slots -> BOOLEAN]
  /\ worker \in [Slots -> {"none", "started", "adding", "working", "returning", "removing",
                           "deleting", "leaked"}]
  /\ list \subseteq Slots
  /\ status \in {"off", "top", "sleep", "lock", "scan", "ended"}
  /\ toScan \subseteq Slots /\ snapshot \subseteq Slots
  /\ freed \subseteq Slots /\ ended \subseteq Slots
  /\ checked \in Slots \cup {NoSlot}

TypeOK == ThreadTypes /\ available \in 0 .. MaxUnits * UnitItems

Init ==
  /\ proc = "run" /\ cause = "none" /\ running = TRUE
  /\ main = "config" /\ manager = "none"
  /\ available = 0 /\ units = 0 /\ stuck = FALSE
  /\ wm = "off" /\ wmSlot = 1
  /\ download = "off"
  /\ upload = "off" /\ toSend = 0
  /\ inUse = [s \in Slots |-> FALSE]
  /\ worker = [s \in Slots |-> "none"]
  /\ item = [s \in Slots |-> FALSE]
  /\ list = {}
  /\ status = "off" /\ toScan = {} /\ checked = NoSlot /\ snapshot = {}
  /\ freed = {} /\ ended = {}

Undefined(why) == proc' = "undefined" /\ cause' = why
Defined == UNCHANGED <<proc, cause>>

-----------------------------------------------------------------------------
(* main and run() *)

\* main up to run(): a configuration, a manager or a GPU that is not there
\* ends the program.  The device ids are tested one after the other, and one
\* equal to the number of GPUs passes the test.
Configure(ids) ==
  /\ proc = "run" /\ main = "config"
  /\ \/ /\ NumGpus = 0
        /\ proc' = "exited"
        /\ UNCHANGED <<cause, main, manager, wm, download, upload, status>>
     \/ /\ NumGpus > 0
        /\ \E s \in Slots :
             /\ ids[s] >= NumGpus /\ \A t \in 1 .. s - 1 : ids[t] < NumGpus
             /\ IF ids[s] > NumGpus THEN proc' = "exited" /\ UNCHANGED cause
                                    ELSE Undefined("device")
        /\ UNCHANGED <<main, manager, wm, download, upload, status>>
     \/ /\ NumGpus > 0 /\ \A s \in Slots : ids[s] < NumGpus
        /\ main' = "watch" /\ manager' = "alive"
        /\ wm' = "sleep" /\ download' = "sleep" /\ upload' = "sleep" /\ status' = "top"
        /\ Defined
  /\ UNCHANGED <<running, store, wmSlot, toSend, workerVars, toScan, checked, snapshot, sinceLock>>

ConfigureFails ==
  /\ proc = "run" /\ main = "config"
  /\ proc' = "exited"
  /\ UNCHANGED <<cause, running, mainVars, store, wmVars, download, uploadVars,
                 workerVars, statusVars, sinceLock>>

\* while(_thread_states.size() > 0): a look without the lock, once if the
\* list is empty as it is at the start.
Watch ==
  /\ proc = "run" /\ main = "watch" /\ list = {}
  /\ main' = "joinManager"
  /\ UNCHANGED <<proc, cause, running, manager, store, wmVars, download,
                 uploadVars, workerVars, statusVars, sinceLock>>

Join ==
  /\ proc = "run"
  /\ \/ main = "joinManager" /\ wm = "ended" /\ main' = "joinDownload"
     \/ main = "joinDownload" /\ download = "ended" /\ main' = "joinUpload"
     \/ main = "joinUpload" /\ upload = "ended" /\ main' = "joinStatus"
     \/ main = "joinStatus" /\ status = "ended" /\ main' = "delete"
  /\ UNCHANGED <<proc, cause, running, manager, store, wmVars, download,
                 uploadVars, workerVars, statusVars, sinceLock>>

\* delete _manager, and later the return that ends the workers still alive.
DeleteManager ==
  /\ proc = "run" /\ main = "delete"
  /\ manager' = "deleted" /\ main' = "return"
  /\ UNCHANGED <<proc, cause, running, store, wmVars, download, uploadVars,
                 workerVars, statusVars, sinceLock>>
Return ==
  /\ proc = "run" /\ main = "return"
  /\ proc' = "exited"
  /\ UNCHANGED <<cause, running, mainVars, store, wmVars, download, uploadVars,
                 workerVars, statusVars, sinceLock>>

\* console_handler
CtrlC ==
  /\ proc = "run" /\ main # "config" /\ running
  /\ running' = FALSE
  /\ UNCHANGED <<proc, cause, mainVars, store, wmVars, download, uploadVars,
                 workerVars, statusVars, sinceLock>>

-----------------------------------------------------------------------------
(* work_manager_thread_function *)

ManagerLoop ==
  /\ proc = "run"
  /\ \/ wm = "sleep" /\ wm' = (IF running THEN "scan" ELSE "ended") /\ wmSlot' = 1
     \/ wm = "scan" /\ wmSlot > NumSlots /\ wm' = "sleep" /\ UNCHANGED wmSlot
  /\ UNCHANGED <<proc, cause, running, mainVars, store, download, uploadVars,
                 workerVars, statusVars, sinceLock>>

\* start_worker_thread when the slot is free and get_work has an item.
ManagerScan ==
  /\ proc = "run" /\ wm = "scan" /\ wmSlot \in Slots
  /\ inUse[wmSlot] \/ ~stuck
  /\ wmSlot' = wmSlot + 1
  /\ IF ~inUse[wmSlot] /\ available > 0
     THEN /\ available' = available - 1
          /\ inUse' = [inUse EXCEPT ![wmSlot] = TRUE]
          /\ worker' = [worker EXCEPT ![wmSlot] = "started"]
     ELSE UNCHANGED <<available, inUse, worker>>
  /\ UNCHANGED <<proc, cause, running, mainVars, units, stuck, wm, download, uploadVars, item,
                 list, statusVars, sinceLock>>

\* The thread cannot be started: std::thread throws, and the loop is over.
ManagerDies ==
  /\ proc = "run" /\ wm = "scan" /\ wmSlot \in Slots
  /\ ~inUse[wmSlot] /\ ~stuck /\ available > 0
  /\ available' = available - 1
  /\ inUse' = [inUse EXCEPT ![wmSlot] = TRUE]
  /\ running' = FALSE /\ wm' = "ended"
  /\ UNCHANGED <<proc, cause, mainVars, units, stuck, wmSlot, download, uploadVars, worker, item,
                 list, statusVars, sinceLock>>

-----------------------------------------------------------------------------
(* download_thread_function and upload_thread_function *)

DownloadRest == <<proc, cause, running, mainVars, wmVars, uploadVars, workerVars, statusVars,
                  sinceLock>>

\* The loop looks at _running and then needs the mutex, for have_enough_work:
\* it goes on at once (Fetch) or waits for a mutex that is never released.
DownloadLoop ==
  /\ proc = "run" /\ download = "sleep"
  /\ \/ ~running /\ download' = "ended"
     \/ running /\ stuck /\ download' = "waits"
  /\ UNCHANGED <<store, DownloadRest>>

\* There is enough work, or get_work_from_server up to add: a unit, none or
\* an exception, or no answer for ever.  total_work_available counts items that
\* are not in available and compares an int with a size_t, so it may say
\* anything; a failed attempt is repeated after 30 seconds only.
Fetch ==
  /\ proc = "run" /\ download = "sleep" /\ running /\ ~stuck
  /\ \/ download' \in {"sleep", "hung"}
     \/ download' = "add" /\ MaxUnits > 0
  /\ UNCHANGED <<store, DownloadRest>>

\* WorkUnitManager::add: the unit is new or known already; it throws with the
\* unit in the map and the mutex locked when its directory cannot be made.
AddUnit ==
  /\ proc = "run" /\ download = "add" /\ ~stuck
  /\ download' = "sleep"
  /\ \/ /\ units < MaxUnits
        /\ units' = units + 1 /\ available' = available + UnitItems
        /\ stuck' \in BOOLEAN
     \/ units > 0 /\ UNCHANGED store
  /\ UNCHANGED DownloadRest

UploadRest == <<proc, cause, running, mainVars, available, units, wmVars, download, workerVars,
                statusVars, sinceLock>>

\* Once the list is at its end the thread sleeps.
SendRest(n) == toSend' = n /\ upload' = (IF n = 0 THEN "sleep" ELSE "send")

\* get_completed_work, or the wait for a mutex that is never released.
Collect ==
  /\ upload = "sleep"
  /\ \/ ~stuck /\ \E n \in 0 .. units : SendRest(n)
     \/ stuck /\ upload' = "waits" /\ UNCHANGED toSend
  /\ UNCHANGED stuck

\* report_results for a unit of the list: an answer, an exception, or no
\* answer for ever.
Send ==
  /\ upload = "send"
  /\ \/ SendRest(toSend - 1)
     \/ upload' \in {"remove", "hung"} /\ UNCHANGED toSend
  /\ UNCHANGED stuck

\* remove, which throws with the mutex locked when the file cannot be moved.
RemoveUnit ==
  /\ upload = "remove" /\ ~stuck
  /\ SendRest(toSend - 1)
  /\ stuck' \in BOOLEAN

\* Mutant of UploadLoop: the thread does not look at _running.
UploadLoopForever ==
  /\ proc = "run"
  /\ Collect \/ Send \/ RemoveUnit
  /\ UNCHANGED UploadRest

UploadLoop ==
  /\ proc = "run"
  /\ \/ running /\ Collect
     \/ ~running /\ upload = "sleep" /\ upload' = "ended" /\ UNCHANGED <<toSend, stuck>>
     \/ Send \/ RemoveUnit
  /\ UNCHANGED UploadRest

-----------------------------------------------------------------------------
(* worker_thread *)

WorkerMoves(s, from, to) ==
  /\ proc = "run" /\ worker[s] = from
  /\ worker' = [worker EXCEPT ![s] = to]

Reporting == status = "scan" \/ snapshot # {}
WorkerRest == <<running, mainVars, units, stuck, wmVars, download, uploadVars, statusVars>>

\* The state is made and given its item.
Create(s) ==
  /\ WorkerMoves(s, "started", "adding")
  /\ item' = [item EXCEPT ![s] = TRUE]
  /\ Defined /\ UNCHANGED <<WorkerRest, available, inUse, list, sinceLock>>

\* No GPU context: the thread ends, and its slot stays in use.
Leak(s) ==
  /\ WorkerMoves(s, "started", "leaked")
  /\ Defined /\ UNCHANGED <<WorkerRest, available, inUse, item, list, sinceLock>>

AddThread(s) ==
  /\ WorkerMoves(s, "adding", "working")
  /\ status # "scan"
  /\ list' = list \cup {s}
  /\ Defined /\ UNCHANGED <<WorkerRest, available, inUse, item, sinceLock>>

\* The search ends by itself, by an exception or because _running is false;
\* then set_work_item(nullptr), without the lock.
EndSearch(s) ==
  /\ WorkerMoves(s, "working", "returning")
  /\ item' = [item EXCEPT ![s] = FALSE]
  /\ ended' = IF Reporting THEN ended \cup {s} ELSE {}
  /\ Defined /\ UNCHANGED <<WorkerRest, available, inUse, list, freed>>

\* return_work: an item that was not finished is free again.
ReturnItem(s) ==
  /\ WorkerMoves(s, "returning", "removing")
  /\ IF manager = "deleted" THEN Undefined("manager") ELSE ~stuck /\ Defined
  /\ \E again \in {0, 1} : available' = available + again
  /\ UNCHANGED <<WorkerRest, inUse, item, list, sinceLock>>

\* report_work throws where nothing catches it: std::terminate.
ReturnThrows(s) ==
  /\ proc = "run" /\ worker[s] = "returning" /\ manager # "deleted" /\ ~stuck
  /\ proc' = "exited"
  /\ UNCHANGED <<cause, WorkerRest, available, inUse, worker, item, list, sinceLock>>

\* Mutant of RemoveThread: the list is not locked.
RemoveThreadUnlocked(s) ==
  /\ WorkerMoves(s, "removing", "deleting")
  /\ list' = list \ {s}
  /\ Defined /\ UNCHANGED <<WorkerRest, available, inUse, item, sinceLock>>

RemoveThread(s) ==
  /\ WorkerMoves(s, "removing", "deleting")
  /\ status # "scan"
  /\ list' = list \ {s}
  /\ Defined /\ UNCHANGED <<WorkerRest, available, inUse, item, sinceLock>>

\* delete state; the status thread may still have the pointer.
DeleteState(s) ==
  /\ WorkerMoves(s, "deleting", "none")
  /\ inUse' = [inUse EXCEPT ![s] = FALSE]
  /\ freed' = freed \cup ({s} \cap (toScan \cup snapshot))
  /\ Defined /\ UNCHANGED <<WorkerRest, available, item, list, ended>>

Worker(s) ==
  \/ Create(s) \/ Leak(s) \/ AddThread(s) \/ EndSearch(s) \/ ReturnItem(s)
  \/ ReturnThrows(s) \/ RemoveThread(s) \/ DeleteState(s)

-----------------------------------------------------------------------------
(* status_thread_function *)

StatusRest == <<running, mainVars, store, wmVars, download, uploadVars, workerVars>>

\* The size of the list is read without the lock.
StatusLoop ==
  /\ proc = "run"
  /\ \/ status = "top" /\ snapshot = {} /\ status' = IF running THEN "sleep" ELSE "ended"
     \/ status = "sleep" /\ status' = IF list = {} THEN "top" ELSE "lock"
  /\ freed' = {} /\ ended' = {}
  /\ Defined /\ UNCHANGED <<StatusRest, toScan, checked, snapshot>>

Lock ==
  /\ proc = "run" /\ status = "lock"
  /\ status' = "scan" /\ toScan' = list
  /\ Defined /\ UNCHANGED <<StatusRest, checked, snapshot, sinceLock>>

\* work_item() is tested, and read again for its parent.
CheckItem(s) ==
  /\ proc = "run" /\ status = "scan" /\ checked = NoSlot /\ s \in toScan
  /\ IF s \in freed THEN Undefined("report") /\ UNCHANGED <<toScan, checked>>
     ELSE IF item[s] THEN checked' = s /\ Defined /\ UNCHANGED toScan
     ELSE toScan' = toScan \ {s} /\ Defined /\ UNCHANGED checked
  /\ UNCHANGED <<StatusRest, status, snapshot, sinceLock>>

CopyState ==
  /\ proc = "run" /\ status = "scan" /\ checked # NoSlot
  /\ IF checked \in freed \/ ~item[checked]
     THEN Undefined("report") /\ UNCHANGED <<toScan, checked, snapshot>>
     ELSE /\ Defined
          /\ snapshot' = snapshot \cup {checked}
          /\ toScan' = toScan \ {checked} /\ checked' = NoSlot
  /\ UNCHANGED <<StatusRest, status, sinceLock>>

Unlock ==
  /\ proc = "run" /\ status = "scan" /\ toScan = {}
  /\ status' = "top"
  /\ Defined /\ UNCHANGED <<StatusRest, toScan, checked, snapshot, sinceLock>>

\* What the copies point to is read after the unlock.
Report(s) ==
  /\ proc = "run" /\ status = "top" /\ s \in snapshot
  /\ IF s \in freed THEN Undefined("report") ELSE Defined
  /\ snapshot' = snapshot \ {s}
  /\ UNCHANGED <<StatusRest, status, toScan, checked, sinceLock>>

StatusThread ==
  \/ StatusLoop \/ Lock \/ CopyState \/ Unlock
  \/ \E s \in Slots : CheckItem(s) \/ Report(s)

-----------------------------------------------------------------------------
Next ==
  \/ \E ids \in [Slots -> 0 .. NumGpus + 1] : Configure(ids)
  \/ ConfigureFails \/ Watch \/ Join \/ DeleteManager \/ Return \/ CtrlC
  \/ ManagerLoop \/ ManagerScan \/ ManagerDies
  \/ DownloadLoop \/ Fetch \/ AddUnit \/ UploadLoop
  \/ \E s \in Slots : Worker(s)
  \/ StatusThread

Spec == Init /\ [][Next]_vars

\* Every thread that can go on does: searches end because they look at
\* _running once a second, and no loop sleeps without looking at it.  A thread
\* that waits for the mutex when it is stuck, or for an answer that does not
\* come, cannot go on: its actions are not enabled.
FairSpec ==
  /\ Spec
  /\ WF_vars(Watch \/ Join \/ DeleteManager \/ Return)
  /\ WF_vars(ManagerLoop \/ ManagerScan)
  /\ WF_vars(DownloadLoop \/ Fetch \/ AddUnit)
  /\ WF_vars(UploadLoop)
  /\ \A s \in Slots : WF_vars(Worker(s))
  /\ WF_vars(StatusThread)

-----------------------------------------------------------------------------
(* Properties *)

\* A state is in the list only while its worker has it: what the status
\* thread looks at under the lock exists.
ListedAreAlive ==
  /\ \A s \in list : worker[s] \in {"working", "returning", "removing"}
  /\ status = "scan" => toScan \subseteq list /\ toScan \cap freed = {}

\* A slot has one worker at a time, and its in_use covers the worker's life.
SlotsAreExclusive == \A s \in Slots : worker[s] # "none" => inUse[s]

\* A report in which no worker ends is safe: pointers that are read twice, or
\* after the unlock, fail only against a worker that has ended since the lock.
QuietReportIsSafe ==
  /\ cause = "report" => ended # {}
  /\ snapshot \cap freed \subseteq ended

\* When main deletes the manager its four threads have ended: the only users
\* left are workers, which it did not wait for, and no worker starts any more.
ManagerOutlivesThreads ==
  manager = "deleted" =>
    /\ wm = "ended" /\ download = "ended" /\ upload = "ended" /\ status = "ended"
    /\ cause # "report"

\* The lives of main.cpp's objects: states, slots and the manager.
LifetimesAreOrdered ==
  TypeOK /\ ListedAreAlive /\ SlotsAreExclusive /\ QuietReportIsSafe /\ ManagerOutlivesThreads

\* A thread that main waits for is in a request that never ends.
NoAnswer == download = "hung" \/ upload = "hung"

\* A thread, or a worker in the list, waits for the manager's mutex after a
\* method has thrown with it (work_unit_manager.cpp:82-105, 110-126).
MutexIsLost ==
  /\ stuck
  /\ \/ wm = "scan" /\ wmSlot \in Slots /\ ~inUse[wmSlot]
     \/ download \in {"waits", "add"}
     \/ upload \in {"waits", "remove"}
     \/ \E s \in Slots : worker[s] = "returning"

\* After CTRL-C, or when a thread has died, the program ends (main.cpp:410-449),
\* whatever main and its threads are at, for two reasons only it does not:
\* the server never answers, or the manager's mutex was left locked.
ProgramEnds == ~running ~> proc # "run" \/ NoAnswer \/ MutexIsLost
=============================================================================
