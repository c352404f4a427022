------------------------------- MODULE HashDevice ------------------------------
(***************************************************************************)
(* The search of one work item on one GPU                                  *)
(* (modules/btc_pub_key_hash): the client's worker thread, which           *)
(* initialises a BTCPubKeyHashGPU and polls it once a second, and the      *)
(* thread of the device, which calls step() until it is done.  They share  *)
(* _running, _done, _found and _private_key without a lock or an atomic.   *)
(* Keys are numbers and the GPU's points the keys they belong to (module   *)
(* PointKernels).                                                          *)
(***************************************************************************)
EXTENDS PointKernels, FiniteSets

CONSTANTS
  Dims,         \* the numbers of threads a kernel may be called with
  MaxKey,       \* bound: the largest key of an item
  MaxCalls      \* bound: calls of each kernel while it is tuned

ASSUME DimsAssumption   == Dims \subseteq Nat \ {0} /\ Dims # {}
ASSUME BoundsAssumption == MaxKey \in Nat \ {0} /\ MaxCalls \in Nat

VARIABLES
  \* the item, and the key that hashes to the target
  first, last, target,
  \* device memory
  points, flag, idx,
  \* BTCPubKeyHashGPU: threads of increment_keys and of its variant with
  \* double, _key_current, _done, _found, _private_key, _running
  dims, keyCurrent, done, found, privateKey, running,
  \* the next statement of each thread
  worker, thread,
  \* *_run_flag: FALSE after CTRL-C
  programRunning,
  \* what the worker reports: status and private key
  item,
  \* history: whether this search tuned the kernels, and the keys hashed by
  \* the search; bound: calls of the kernel being tuned
  tuned, tested, calls

task    == <<first, last, target>>
memory  == <<points, flag, idx>>
results == <<done, found, privateKey>>
vars    == <<task, memory, dims, keyCurrent, results, running, worker, thread,
             programRunning, item, tuned, tested, calls>>

NoKey == 0              \* _private_key as constructed
Keys == 1 .. MaxKey

TypeOK ==
  /\ first \in Keys /\ last \in Keys /\ target \in Keys
  /\ points \in [Indices -> Nat]
  /\ flag \in BOOLEAN /\ idx \in Indices
  /\ dims \in [single : Dims, double : Dims]
  /\ keyCurrent \in first .. last + NumPoints
  /\ done \in BOOLEAN /\ found \in BOOLEAN /\ running \in BOOLEAN
  /\ privateKey \in {NoKey} \cup first .. last + NumPoints
  /\ worker \in {"tuneSingle", "tuneDouble", "tuneHash", "poll", "slept", "join",
                 "joined", "returned"}
  /\ thread \in {"none", "kernels", "readFlag", "setDone", "setKey", "advance",
                 "checkEnd", "loop", "end"}
  /\ programRunning \in BOOLEAN
  /\ item \in [status : {"running", "completed", "aborted"},
               key : {NoKey} \cup first .. last + NumPoints, found : BOOLEAN]
  /\ tuned \in BOOLEAN
  /\ tested \subseteq Nat
  /\ calls \in 0 .. MaxCalls

\* init() up to the tuning: the points are set, the kernels' grids are known
\* from the settings or are about to be tuned.
Init ==
  /\ first \in Keys /\ last \in first .. MaxKey /\ target \in Keys
  /\ points = InitPublicKeys(first)
  /\ flag = FALSE /\ idx = 0
  /\ dims \in [single : Dims, double : Dims]
  /\ keyCurrent = first
  /\ done = FALSE /\ found = FALSE /\ privateKey = NoKey
  /\ programRunning = TRUE
  /\ item = [status |-> "running", key |-> NoKey, found |-> FALSE]
  /\ tested = {} /\ calls = 0
  /\ \/ tuned = FALSE /\ worker = "poll" /\ thread = "kernels" /\ running = TRUE
     \/ tuned = TRUE /\ worker = "tuneSingle" /\ thread = "none" /\ running = FALSE

-----------------------------------------------------------------------------
(* Tuning: each kernel is called with every grid and the best one is kept. *)

TuneSingle ==
  /\ worker = "tuneSingle"
  /\ \/ /\ calls < MaxCalls
        /\ calls' = calls + 1
        /\ \E d \in Dims : points' = IncrementKeys(points, d)
        /\ UNCHANGED <<dims, worker>>
     \/ /\ calls' = 0
        /\ \E d \in Dims : dims' = [dims EXCEPT !.single = d]
        /\ worker' = "tuneDouble"
        /\ UNCHANGED points
  /\ UNCHANGED <<task, flag, idx, keyCurrent, results, running, thread, programRunning,
                 item, tuned, tested>>

TuneDouble ==
  /\ worker = "tuneDouble"
  /\ \/ /\ calls < MaxCalls
        /\ calls' = calls + 1
        /\ \E d \in Dims : points' = IncrementKeysWithDouble(points, d)
        /\ UNCHANGED <<dims, worker>>
     \/ /\ calls' = 0
        /\ \E d \in Dims : dims' = [dims EXCEPT !.double = d]
        /\ worker' = "tuneHash"
        /\ UNCHANGED points
  /\ UNCHANGED <<task, flag, idx, keyCurrent, results, running, thread, programRunning,
                 item, tuned, tested>>

\* Mutant of HashKeys: the last point is not looked at.
HashAllButLast(p) ==
  IF Matches(p, target) \ {NumPoints - 1} = {} THEN UNCHANGED <<flag, idx>>
  ELSE flag' = TRUE /\ idx' \in Matches(p, target)

\* The hash kernel on points p: it only ever sets the flag.
HashKeys(p) ==
  IF Matches(p, target) = {} THEN UNCHANGED <<flag, idx>>
  ELSE flag' = TRUE /\ idx' \in Matches(p, target)

\* The points are then set again, the flag is not; and start() is called.
TuneHash ==
  /\ worker = "tuneHash"
  /\ HashKeys(points)
  /\ points' = InitPublicKeys(first)
  /\ worker' = "poll"
  /\ thread' = "kernels"
  /\ running' = TRUE
  /\ UNCHANGED <<task, dims, keyCurrent, results, programRunning, item, tuned, tested, calls>>

-----------------------------------------------------------------------------
(* The device's thread: step() in a loop *)

\* Mutant of RunKernels: the points advance before they are hashed.
IncrementBeforeHash ==
  /\ thread = "kernels"
  /\ points' = IF keyCurrent <= NumPoints
               THEN IncrementKeysWithDouble(points, dims.double)
               ELSE IncrementKeys(points, dims.single)
  /\ HashKeys(points')
  /\ tested' = tested \cup {points'[i] : i \in Indices}
  /\ thread' = "readFlag"
  /\ UNCHANGED <<task, dims, keyCurrent, results, running, worker, programRunning,
                 item, tuned, calls>>

\* The two kernels of a step run in the order of the queue.
RunKernels ==
  /\ thread = "kernels"
  /\ HashKeys(points)
  /\ points' = IF keyCurrent <= NumPoints
               THEN IncrementKeysWithDouble(points, dims.double)
               ELSE IncrementKeys(points, dims.single)
  /\ tested' = tested \cup {points[i] : i \in Indices}
  /\ thread' = "readFlag"
  /\ UNCHANGED <<task, dims, keyCurrent, results, running, worker, programRunning,
                 item, tuned, calls>>

ReadFlag ==
  /\ thread = "readFlag"
  /\ found' = (found \/ flag)
  /\ thread' = IF flag THEN "setDone" ELSE "advance"
  /\ UNCHANGED <<task, memory, dims, keyCurrent, done, privateKey, running, worker,
                 programRunning, item, tuned, tested, calls>>

SetDone ==
  /\ thread = "setDone"
  /\ done' = TRUE
  /\ thread' = "setKey"
  /\ UNCHANGED <<task, memory, dims, keyCurrent, found, privateKey, running, worker,
                 programRunning, item, tuned, tested, calls>>

SetKey ==
  /\ thread = "setKey"
  /\ privateKey' = keyCurrent + idx
  /\ thread' = "advance"
  /\ UNCHANGED <<task, memory, dims, keyCurrent, done, found, running, worker,
                 programRunning, item, tuned, tested, calls>>

Advance ==
  /\ thread = "advance"
  /\ keyCurrent' = keyCurrent + NumPoints
  /\ thread' = "checkEnd"
  /\ UNCHANGED <<task, memory, dims, results, running, worker, programRunning, item,
                 tuned, tested, calls>>

\* Mutant of CheckEnd: the end of the range is met only exactly.
EndExactly ==
  /\ thread = "checkEnd"
  /\ done' = (done \/ keyCurrent = last)
  /\ thread' = "loop"
  /\ UNCHANGED <<task, memory, dims, keyCurrent, found, privateKey, running, worker,
                 programRunning, item, tuned, tested, calls>>

CheckEnd ==
  /\ thread = "checkEnd"
  /\ done' = (done \/ keyCurrent > last)
  /\ thread' = "loop"
  /\ UNCHANGED <<task, memory, dims, keyCurrent, found, privateKey, running, worker,
                 programRunning, item, tuned, tested, calls>>

Loop ==
  /\ thread = "loop"
  /\ running' = (running /\ ~done)
  /\ thread' = IF running' THEN "kernels" ELSE "end"
  /\ UNCHANGED <<task, memory, dims, keyCurrent, results, worker, programRunning, item,
                 tuned, tested, calls>>

-----------------------------------------------------------------------------
(* The worker thread: btc_pubkey_worker *)

\* Return from the worker with what it finds in _done, _private_key, _found.
\* The device is destroyed; its thread is not waited for.
Report ==
  /\ item' = IF done THEN [status |-> "completed", found |-> found,
                           key |-> IF found THEN privateKey ELSE NoKey]
             ELSE [status |-> "aborted", found |-> FALSE, key |-> NoKey]
  /\ worker' = "returned"

Poll ==
  /\ worker = "poll"
  /\ IF done THEN Report ELSE worker' = "slept" /\ UNCHANGED item
  /\ UNCHANGED <<task, memory, dims, keyCurrent, results, running, thread, programRunning,
                 tuned, tested, calls>>

\* Mutant of CheckRunning: stop() does not join.
StopWithoutJoin ==
  /\ worker = "slept"
  /\ IF programRunning THEN worker' = "poll" /\ UNCHANGED running
     ELSE worker' = "joined" /\ running' = FALSE
  /\ UNCHANGED <<task, memory, dims, keyCurrent, results, thread, programRunning, item,
                 tuned, tested, calls>>

\* After the sleep: stop(), if the program is about to end.
CheckRunning ==
  /\ worker = "slept"
  /\ IF programRunning THEN worker' = "poll" /\ UNCHANGED running
     ELSE worker' = "join" /\ running' = FALSE
  /\ UNCHANGED <<task, memory, dims, keyCurrent, results, thread, programRunning, item,
                 tuned, tested, calls>>

\* Mutant of Join: the search is waited for, not the thread.
JoinOnDone ==
  /\ worker = "join" /\ done
  /\ worker' = "joined"
  /\ UNCHANGED <<task, memory, dims, keyCurrent, results, running, thread, programRunning,
                 item, tuned, tested, calls>>

Join ==
  /\ worker = "join" /\ thread = "end"
  /\ worker' = "joined"
  /\ UNCHANGED <<task, memory, dims, keyCurrent, results, running, thread, programRunning,
                 item, tuned, tested, calls>>

ReportStopped ==
  /\ worker = "joined"
  /\ Report
  /\ UNCHANGED <<task, memory, dims, keyCurrent, results, running, thread, programRunning,
                 tuned, tested, calls>>

\* CTRL-C: main's wait ends and _running becomes FALSE.
Shutdown ==
  /\ programRunning
  /\ programRunning' = FALSE
  /\ UNCHANGED <<task, memory, dims, keyCurrent, results, running, worker, thread, item,
                 tuned, tested, calls>>

-----------------------------------------------------------------------------
Step == \/ RunKernels \/ ReadFlag \/ SetDone \/ SetKey \/ Advance \/ CheckEnd \/ Loop

Work == \/ TuneSingle \/ TuneDouble \/ TuneHash
        \/ Poll \/ CheckRunning \/ Join \/ ReportStopped

Next == Step \/ Work \/ Shutdown

Spec == Init /\ [][Next]_vars

(***************************************************************************)
(* Fairness: both threads run.  The loops over a kernel's grids are finite *)
(* (calls); nothing is assumed of CTRL-C.                                  *)
(***************************************************************************)
FairSpec == Spec /\ WF_vars(Step) /\ WF_vars(Work)

-----------------------------------------------------------------------------
(* Properties *)

\* The grids of the two kernels do not make a point lag: one that the first
\* step's kernel leaves alone is left alone by the later ones.
NoLag == first > NumPoints \/ dims.double <= dims.single

\* No point that stays behind equals the incrementor.
NoZeroDifference == NumPoints \notin first .. first + dims.double - 1

\* The thread ends with the right key.  A point that is never advanced was
\* tested in the first step, so it raises the flag there, when _key_current +
\* index still is its key, or never.  Tuning can leave the flag set.
FoundIsTarget == thread = "end" /\ found /\ ~tuned /\ NoLag => privateKey = target

\* A key that was hashed is never missed, whichever step hashed it.
TestedIsFound == thread = "end" /\ target \in tested => found

\* The keys that a search to the end leaves out all belong to the first
\* stride of a kernel, in a step after the first one.
MissedAreFirstStride ==
  thread = "end" /\ keyCurrent > last /\ ~found /\ NoLag /\ NoZeroDifference =>
    \A k \in first .. last :
      \/ k \in tested
      \/ /\ k >= first + NumPoints
         /\ (k - first) % NumPoints < dims.single

\* An item goes back to the pool only when its search has stopped without a
\* find: CTRL-C does not lose the key.
AbortedIsUnfinished == item.status = "aborted" => thread = "end" /\ ~found

\* The worker thread returns and reports its item, whatever tuning does.
WorkerReturns == <>(worker = "returned")

\* 'start' and 'end' are "the start of the keyspace to search" and "the end of
\* the keyspace to search" (BruteForceProject.py:27-28): an item without a
\* find was searched as a whole.
CompletedIsTested ==
  item.status = "completed" /\ ~item.found => first .. last \subseteq tested

\* The report has "the private key (if found)" (BruteForceProject.py:90).
ResultIsTarget == item.found => item.key = target
=============================================================================
