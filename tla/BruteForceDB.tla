----------------------------- MODULE BruteForceDB ------------------------------
(***************************************************************************)
(* The work distribution of one brute force project: the three tables of   *)
(* server/BruteForceDB.py and the two handlers that use them,              *)
(* request_work and report_work (the latter with the tail that             *)
(* server/BTCPubKeyHash.py adds to it).                                    *)
(*                                                                         *)
(* Flask runs every HTTP request in a thread of its own and the handlers   *)
(* take no lock; SQLite only makes each transaction atomic.  So a handler  *)
(* is a sequence of steps, one per transaction or read, and the steps of   *)
(* different handlers interleave.                                          *)
(*                                                                         *)
(* The keyspace is abstracted to its blocks 0 .. NumBlocks - 1: module     *)
(* KeySpace says which keys a block stands for.  Block NumBlocks stands    *)
(* for the (empty or one-key) range past the end, which request_work can   *)
(* compute.                                                                *)
(***************************************************************************)
EXTENDS Integers, FiniteSets

CONSTANTS
  Handlers,     \* the server's request threads
  Units,        \* pool that uuid4 draws work unit ids from
  NoUnit,       \* work_unit_id of a handler that has none
  NumBlocks,    \* ProjectInfo.num_blocks
  KeyBlock,     \* the block that holds the private key, -1 if none does
  MaxLapses,    \* bound: how often a unit's ten minutes run out
  MaxFailures   \* bound: exceptions in handlers and crashes of the server

ASSUME NumBlocksAssumption == NumBlocks \in Nat \ {0}
ASSUME KeyBlockAssumption  == KeyBlock \in -1 .. NumBlocks - 1
ASSUME NoUnitAssumption    == NoUnit \notin Units
ASSUME BoundsAssumption    == MaxLapses \in Nat /\ MaxFailures \in Nat

VARIABLES
  \* table ProjectInfo
  nextBlock, status,
  \* table WorkUnits: its rows are the units whose status is not "none"
  unitBlock, unitStatus,
  \* table OutstandingWork; lapsed holds the units whose expiry < now
  outStatus, lapsed,
  \* per handler: the next statement, and the Python locals block_num,
  \* work_unit_id and (for report_work) whether private_key is non-empty
  pc, block, unit, found,
  \* history: the work returned to clients, and the work whose result was
  \* acknowledged with 'Ok'
  issued, acked,
  \* history, read by properties only: the blocks whose number two requests
  \* had read at once, or whose request died before it wrote next_block; the
  \* units that were given out again while they were reported; the blocks
  \* whose request died before it wrote the unit's OutstandingWork row
  disturbed, contested, stranded,
  \* bounds
  lapses, failures

project     == <<nextBlock, status>>
workUnits   == <<unitBlock, unitStatus>>
outstanding == <<outStatus, lapsed>>
locals      == <<block, unit, found>>
answers     == <<issued, acked>>
accidents   == <<disturbed, contested, stranded>>
bounds      == <<lapses, failures>>
rest        == <<answers, accidents, bounds>>
vars        == <<project, workUnits, outstanding, pc, locals, rest>>

Blocks == 0 .. NumBlocks      \* NumBlocks: the range past the end
Work   == [unit : Units, block : Blocks]

\* A handler's program counter names the statement it executes next.
PCs == {"idle", "readProject", "readExpired", "insertUnit", "advance", "track",
        "respond", "markOutstanding", "markUnit", "setKey", "setKeyAnyway", "acknowledge"}

TypeOK ==
  /\ nextBlock \in Blocks
  /\ status \in {"running", "done"}
  /\ unitBlock \in [Units -> 0 .. NumBlocks - 1]
  /\ unitStatus \in [Units -> {"none", "running", "done"}]
  /\ outStatus \in [Units -> {"none", "running", "expired", "done"}]
  /\ lapsed \subseteq Units
  /\ pc \in [Handlers -> PCs]
  /\ block \in [Handlers -> Blocks]
  /\ unit \in [Handlers -> Units \cup {NoUnit}]
  /\ found \in [Handlers -> BOOLEAN]
  /\ issued \subseteq Work
  /\ acked \subseteq Work
  /\ disturbed \subseteq Blocks
  /\ contested \subseteq Units
  /\ stranded \subseteq Blocks
  /\ lapses \in 0 .. MaxLapses
  /\ failures \in 0 .. MaxFailures

\* create_project has run: one ProjectInfo row, no unit yet.
Init ==
  /\ nextBlock = 0
  /\ status = "running"
  /\ unitBlock = [u \in Units |-> 0]
  /\ unitStatus = [u \in Units |-> "none"]
  /\ outStatus = [u \in Units |-> "none"]
  /\ lapsed = {}
  /\ pc = [h \in Handlers |-> "idle"]
  /\ block = [h \in Handlers |-> 0]
  /\ unit = [h \in Handlers |-> NoUnit]
  /\ found = [h \in Handlers |-> FALSE]
  /\ issued = {}
  /\ acked = {}
  /\ disturbed = {} /\ contested = {} /\ stranded = {}
  /\ lapses = 0
  /\ failures = 0

Goto(h, label) == pc' = [pc EXCEPT ![h] = label]

\* The handler returns or dies: its locals are gone.
Return(h) ==
  /\ Goto(h, "idle")
  /\ block' = [block EXCEPT ![h] = 0]
  /\ unit' = [unit EXCEPT ![h] = NoUnit]
  /\ found' = [found EXCEPT ![h] = FALSE]

\* Mutants of CleanupExpired: the comparison with now turned round, and the
\* test for 'done' dropped.
CleanupUnexpired ==
  outStatus' = [u \in Units |->
                  IF u \notin lapsed /\ outStatus[u] \in {"running", "expired"}
                  THEN "expired" ELSE outStatus[u]]

CleanupDoneToo ==
  outStatus' = [u \in Units |->
                  IF u \in lapsed /\ outStatus[u] # "none" THEN "expired" ELSE outStatus[u]]

\* update OutstandingWork set status = 'expired'
\*   where status != 'done' and expiry < now
CleanupExpired ==
  outStatus' = [u \in Units |->
                  IF u \in lapsed /\ outStatus[u] \in {"running", "expired"}
                  THEN "expired" ELSE outStatus[u]]

-----------------------------------------------------------------------------
(* request_work *)

\* Bound: a request starts only while every request that may still insert a
\* unit has an id left in the pool.
PoolSuffices ==
  Cardinality({u \in Units : unitStatus[u] = "none"}) >
    Cardinality({h \in Handlers : pc[h] \in {"readProject", "readExpired", "insertUnit"}})

RequestBegin(h) ==
  /\ pc[h] = "idle"
  /\ PoolSuffices
  /\ CleanupExpired
  /\ Goto(h, "readProject")
  /\ UNCHANGED <<project, workUnits, lapsed, locals, rest>>

\* The handler has read next_block and may still write it from its copy.
InFlight(h) == pc[h] \in {"readExpired", "insertUnit", "advance"}

\* block_num is read here and not read again.
ReadProject(h) ==
  /\ pc[h] = "readProject"
  /\ \/ /\ status = "done"
        /\ Return(h)
        /\ UNCHANGED disturbed
     \/ /\ status # "done"
        /\ block' = [block EXCEPT ![h] = nextBlock]
        /\ disturbed' = IF \E g \in Handlers : InFlight(g) /\ block[g] <= nextBlock
                        THEN disturbed \cup {nextBlock} ELSE disturbed
        /\ Goto(h, "readExpired")
        /\ UNCHANGED <<unit, found>>
  /\ UNCHANGED <<project, workUnits, outstanding, answers, contested, stranded, bounds>>

Expired == {u \in Units : outStatus[u] = "expired"}

\* A request is going to give the unit out; a report is going to finish it.
GivingOut(h, u) == pc[h] \in {"advance", "track"} /\ unit[h] = u
Finishing(h, u) == pc[h] \in {"markOutstanding", "markUnit"} /\ unit[h] = u

\* select ... where status = 'expired' limit 1: no order is asked for.
ReadExpired(h) ==
  /\ pc[h] = "readExpired"
  /\ \/ \E u \in Expired :
          /\ unit' = [unit EXCEPT ![h] = u]
          /\ contested' = IF \E g \in Handlers : Finishing(g, u)
                          THEN contested \cup {u} ELSE contested
          /\ Goto(h, "track")
          /\ UNCHANGED <<block, found>>
     \/ /\ Expired = {}
        /\ block[h] >= NumBlocks
        /\ Return(h)
        /\ UNCHANGED contested
     \/ /\ Expired = {}
        /\ block[h] < NumBlocks
        /\ Goto(h, "insertUnit")
        /\ UNCHANGED <<locals, contested>>
  /\ UNCHANGED <<project, workUnits, outstanding, answers, disturbed, stranded, bounds>>

\* Mutant of InsertUnit: next_block is advanced with the insert.
InsertAndAdvance(h) ==
  /\ pc[h] = "insertUnit"
  /\ \E u \in Units :
       /\ unitStatus[u] = "none"
       /\ unitStatus' = [unitStatus EXCEPT ![u] = "running"]
       /\ unitBlock' = [unitBlock EXCEPT ![u] = block[h]]
       /\ unit' = [unit EXCEPT ![h] = u]
  /\ nextBlock' = block[h] + 1
  /\ Goto(h, "advance")
  /\ UNCHANGED <<status, outstanding, block, found, rest>>

InsertUnit(h) ==
  /\ pc[h] = "insertUnit"
  /\ \E u \in Units :
       /\ unitStatus[u] = "none"
       /\ unitStatus' = [unitStatus EXCEPT ![u] = "running"]
       /\ unitBlock' = [unitBlock EXCEPT ![u] = block[h]]
       /\ unit' = [unit EXCEPT ![h] = u]
  /\ Goto(h, "advance")
  /\ UNCHANGED <<project, outstanding, block, found, rest>>

\* Mutants of AdvanceNextBlock: next_block incremented in SQL instead of
\* written from the copy; not incremented; the insert after it left out.
AdvanceInSql(h) ==
  /\ pc[h] = "advance"
  /\ nextBlock' = nextBlock + 1
  /\ Goto(h, "track")
  /\ UNCHANGED <<status, workUnits, outstanding, locals, rest>>

AdvanceForgotten(h) ==
  /\ pc[h] = "advance"
  /\ Goto(h, "track")
  /\ UNCHANGED <<project, workUnits, outstanding, locals, rest>>

AdvanceUntracked(h) ==
  /\ pc[h] = "advance"
  /\ nextBlock' = block[h] + 1
  /\ Goto(h, "respond")
  /\ UNCHANGED <<status, workUnits, outstanding, locals, rest>>

AdvanceNextBlock(h) ==
  /\ pc[h] = "advance"
  /\ nextBlock' = block[h] + 1
  /\ Goto(h, "track")
  /\ UNCHANGED <<status, workUnits, outstanding, locals, rest>>

\* Mutant of Track: giving a unit out resets its WorkUnits row as well.
TrackAndReset(h) ==
  /\ pc[h] = "track"
  /\ outStatus' = [outStatus EXCEPT ![unit[h]] = "running"]
  /\ unitStatus' = [unitStatus EXCEPT ![unit[h]] = "running"]
  /\ lapsed' = lapsed \ {unit[h]}
  /\ Goto(h, "respond")
  /\ UNCHANGED <<project, unitBlock, locals, rest>>

\* The insert for a new unit and the update for an expired one leave the
\* same row: status running and ten minutes to go, whatever was there.
Track(h) ==
  /\ pc[h] = "track"
  /\ outStatus' = [outStatus EXCEPT ![unit[h]] = "running"]
  /\ lapsed' = lapsed \ {unit[h]}
  /\ Goto(h, "respond")
  /\ UNCHANGED <<project, workUnits, locals, rest>>

\* Mutant of Respond: the range is computed from next_block read again.
RespondFreshBlock(h) ==
  /\ pc[h] = "respond"
  /\ issued' = issued \cup {[unit |-> unit[h], block |-> nextBlock]}
  /\ Return(h)
  /\ UNCHANGED <<project, workUnits, outstanding, acked, accidents, bounds>>

\* The work returned is the unit's id with the key range of block_num, which
\* for a reissued unit is the project's next block and not the unit's own.
Respond(h) ==
  /\ pc[h] = "respond"
  /\ issued' = issued \cup {[unit |-> unit[h], block |-> block[h]]}
  /\ Return(h)
  /\ UNCHANGED <<project, workUnits, outstanding, acked, accidents, bounds>>

-----------------------------------------------------------------------------
(* report_work.  A client reports work it was given; it reports again when *)
(* it did not hear the answer, so work may be reported any number of       *)
(* times.  It sends the key exactly when the range it searched holds it.   *)

ReportBegin(h, w) ==
  /\ pc[h] = "idle"
  /\ unit' = [unit EXCEPT ![h] = w.unit]
  /\ block' = [block EXCEPT ![h] = w.block]
  /\ found' = [found EXCEPT ![h] = w.block = KeyBlock]
  /\ contested' = IF \E g \in Handlers : GivingOut(g, w.unit)
                  THEN contested \cup {w.unit} ELSE contested
  /\ CleanupExpired
  /\ Goto(h, "markOutstanding")
  /\ UNCHANGED <<project, workUnits, lapsed, answers, disturbed, stranded, bounds>>

MarkOutstanding(h) ==
  /\ pc[h] = "markOutstanding"
  /\ outStatus' = [outStatus EXCEPT ![unit[h]] = "done"]
  /\ Goto(h, "markUnit")
  /\ UNCHANGED <<project, workUnits, lapsed, locals, rest>>

\* Mutants of MarkUnit: the test for a non-empty private_key dropped, and the
\* key not stored.
MarkUnitAndClose(h) ==
  /\ pc[h] = "markUnit"
  /\ unitStatus' = [unitStatus EXCEPT ![unit[h]] = "done"]
  /\ Goto(h, "setKey")
  /\ UNCHANGED <<project, unitBlock, outstanding, locals, rest>>

MarkUnitOnly(h) ==
  /\ pc[h] = "markUnit"
  /\ unitStatus' = [unitStatus EXCEPT ![unit[h]] = "done"]
  /\ Goto(h, "acknowledge")
  /\ UNCHANGED <<project, unitBlock, outstanding, locals, rest>>

MarkUnit(h) ==
  /\ pc[h] = "markUnit"
  /\ unitStatus' = [unitStatus EXCEPT ![unit[h]] = "done"]
  /\ Goto(h, IF found[h] THEN "setKey" ELSE "acknowledge")
  /\ UNCHANGED <<project, unitBlock, outstanding, locals, rest>>

\* BTCPubKeyHash.report_work: set_private_key, which sets private_key and
\* status together, and the key file.  It runs whether or not the rows above
\* could be written.
SetPrivateKey(h) ==
  /\ status' = "done"
  /\ \/ /\ pc[h] = "setKey"
        /\ Goto(h, "acknowledge")
        /\ UNCHANGED locals
     \/ /\ pc[h] = "setKeyAnyway"       \* answered with 'ServerError'
        /\ Return(h)
  /\ UNCHANGED <<nextBlock, workUnits, outstanding, rest>>

\* The client hears 'Ok'.
Acknowledge(h) ==
  /\ pc[h] = "acknowledge"
  /\ acked' = acked \cup {[unit |-> unit[h], block |-> block[h]]}
  /\ Return(h)
  /\ UNCHANGED <<project, workUnits, outstanding, issued, accidents, bounds>>

-----------------------------------------------------------------------------
(* Failures and time *)

\* What handlers that die leave behind: a unit whose block is still
\* next_block, and a unit without a row in OutstandingWork.
Die(hs) ==
  /\ disturbed' = disturbed \cup {block[h] : h \in {g \in hs : pc[g] = "advance"}}
  /\ stranded' = stranded \cup
       {unitBlock[unit[h]] : h \in {g \in hs : pc[g] = "track" /\ outStatus[unit[g]] = "none"}}

\* A statement raises (the database stays locked for five seconds, the disk
\* is full): what is committed stays.  request_work answers with the error.
\* BruteForceProject.report_work catches it and answers 'ServerError', but
\* its caller still stores a key that was found.  An exception there ends
\* the handler.
Fail(h) ==
  /\ failures < MaxFailures
  /\ pc[h] # "idle"
  /\ failures' = failures + 1
  /\ \/ /\ pc[h] \in {"markOutstanding", "markUnit"} /\ found[h]
        /\ Goto(h, "setKeyAnyway")
        /\ UNCHANGED locals
     \/ /\ ~(pc[h] \in {"markOutstanding", "markUnit"} /\ found[h])
        /\ Return(h)
  /\ Die({h})
  /\ UNCHANGED <<project, workUnits, outstanding, answers, contested, lapses>>

\* The server process dies and is started again: only the database survives.
Crash ==
  /\ failures < MaxFailures
  /\ \E h \in Handlers : pc[h] # "idle"
  /\ failures' = failures + 1
  /\ pc' = [h \in Handlers |-> "idle"]
  /\ block' = [h \in Handlers |-> 0]
  /\ unit' = [h \in Handlers |-> NoUnit]
  /\ found' = [h \in Handlers |-> FALSE]
  /\ Die(Handlers)
  /\ UNCHANGED <<project, workUnits, outstanding, answers, contested, lapses>>

\* A unit's expiry passes.
Lapse(u) ==
  /\ lapses < MaxLapses
  /\ outStatus[u] = "running"
  /\ u \notin lapsed
  /\ lapsed' = lapsed \cup {u}
  /\ lapses' = lapses + 1
  /\ UNCHANGED <<project, workUnits, outStatus, pc, locals, answers, accidents, failures>>

-----------------------------------------------------------------------------
RequestRest(h) == \/ ReadProject(h) \/ ReadExpired(h) \/ InsertUnit(h)
                  \/ AdvanceNextBlock(h) \/ Track(h) \/ Respond(h)

ReportRest(h) == MarkOutstanding(h) \/ MarkUnit(h) \/ SetPrivateKey(h) \/ Acknowledge(h)

Next == \/ \E h \in Handlers : \/ RequestBegin(h) \/ RequestRest(h)
                               \/ \E w \in issued : ReportBegin(h, w)
                               \/ ReportRest(h)
                               \/ Fail(h)
        \/ Crash
        \/ \E u \in Units : Lapse(u)

Spec == Init /\ [][Next]_vars

(***************************************************************************)
(* Fairness: a handler that has started goes on; clients keep asking for   *)
(* work; a unit is reported some day unless its ten minutes have run out,  *)
(* for then its client may be gone.  The begin of a handler is strongly    *)
(* fair because Flask starts a thread for every request: it is never       *)
(* refused for good because others are served.                             *)
(***************************************************************************)
ReportUnit(h, u) == /\ u \notin lapsed
                    /\ \E w \in issued : w.unit = u /\ ReportBegin(h, w)

Fairness ==
  \A h \in Handlers :
    /\ WF_vars(RequestRest(h) \/ ReportRest(h))
    /\ SF_vars(RequestBegin(h))
    /\ \A u \in Units : SF_vars(ReportUnit(h, u))

FairSpec == Spec /\ Fairness

-----------------------------------------------------------------------------
(* Properties *)

Created(u) == unitStatus[u] # "none"

\* next_block is written from a copy read four statements earlier, so two
\* requests can move it backwards.  It still never passes a block for which
\* no work unit exists: no block of the keyspace is silently left out.
NoBlockSkipped ==
  \A b \in 0 .. nextBlock - 1 : \E u \in Units : Created(u) /\ unitBlock[u] = b

\* Whatever a client was given has its rows in WorkUnits and in
\* OutstandingWork, whatever fails or dies before the client hears of it
\* ("the server tracks which work units were sent out", README.md:146).
IssuedIsTracked ==
  \A w \in issued : Created(w.unit) /\ outStatus[w.unit] # "none"

\* A unit goes out with the key range of its own block as long as nothing
\* has expired, however the requests interleave.
OwnRangeUntilExpiry ==
  lapses = 0 => \A w \in issued : w.block = unitBlock[w.unit]

\* The project is closed only by a client that searched the key's block.
DoneOnlyWhenFound ==
  status = "done" => \E w \in issued : w.block = KeyBlock

\* An 'Ok' of the project is a promise: the client deletes the unit, so its
\* completion and the key it carried must be in the database.  (The 'Ok' for a
\* project that the server does not know, server.py:221-223, promises nothing.)
AckedIsRecorded ==
  \A w \in acked : /\ unitStatus[w.unit] = "done"
                   /\ w.block = KeyBlock => status = "done"

\* Counting finished units counts finished blocks (get_status) as long as a
\* block has one unit.  A second one is made in two cases only: a request
\* read the block's number while another one had it, or an earlier one, in
\* hand; or the first unit's request died before it wrote next_block.
OneUnitPerBlock ==
  \A u, v \in Units :
    /\ Created(u) /\ Created(v)
    /\ unitBlock[u] = unitBlock[v]
    /\ unitBlock[u] \notin disturbed
    => u = v

\* A finished unit never goes out again, through every failure and resent
\* report: its OutstandingWork row is done as well and cannot expire.  The
\* only exception is a unit that one request was about to give out again
\* while another one reported it.
FinishedIsRetired ==
  \A u \in Units :
    unitStatus[u] = "done" /\ u \notin contested => outStatus[u] = "done"

\* The unit can expire, or its handler is about to write the row that can.
Recoverable(u) ==
  /\ Created(u)
  /\ outStatus[u] # "none" \/ \E h \in Handlers : pc[h] = "track" /\ unit[h] = u

\* Every block below next_block can be given out again when its client is
\* gone: it has a unit with a row in OutstandingWork.  Only a request that
\* dies between the second and the third commit of request_work leaves a
\* block that never comes back; before the second one it loses nothing.
NoBlockStranded ==
  \A b \in 0 .. nextBlock - 1 :
    b \in stranded \/ \E u \in Units : Recoverable(u) /\ unitBlock[u] = b

\* The project gets done: the key is found, or every block has a unit and
\* all units are finished, although units expire on the way.
ProjectFinishes ==
  <>(\/ status = "done"
     \/ /\ nextBlock = NumBlocks
        /\ \A u \in Units : Created(u) => unitStatus[u] = "done")

\* A unit whose result was accepted has been searched: some client reported
\* the range of the unit's own block.  get_status counts the unit as
\* block_size keys tested ("keys_tested", BruteForceDB.py:228 and 258).
FinishedIsSearched ==
  \A w \in acked : [unit |-> w.unit, block |-> unitBlock[w.unit]] \in acked

\* The ledger a client sees: units sent out, and finished for good only
\* after that.
Ledger == INSTANCE WorkLedger WITH
            sent     <- {w.unit : w \in issued},
            finished <- {u \in Units : unitStatus[u] = "done"}
LedgerSpec == Ledger!LedgerSpec

=============================================================================
