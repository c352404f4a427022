--------------------------- MODULE BruteForceDBProofs --------------------------
(***************************************************************************)
(* Theorems about BruteForceDB, for any number of request threads, unit    *)
(* ids, blocks, expiries and failures.                                     *)
(***************************************************************************)
EXTENDS BruteForceDB, TLAPS

\* Every block below n has a work unit.
Covered(n) == \A b \in 0 .. n - 1 : \E u \in Units : Created(u) /\ unitBlock[u] = b

\* Only units of table WorkUnits are in table OutstandingWork.
TrackedIsCreated == \A u \in Units : outStatus[u] # "none" => Created(u)

\* What a request handler knows at each of its statements.
RequestOK(h) ==
  /\ pc[h] \in {"readExpired", "insertUnit", "advance"} => Covered(block[h])
  /\ pc[h] \in {"insertUnit", "advance"} => block[h] < NumBlocks
  /\ pc[h] \in {"advance", "track", "respond"} => unit[h] \in Units /\ Created(unit[h])
  /\ pc[h] = "advance" => unitBlock[unit[h]] = block[h]
  /\ pc[h] = "respond" => outStatus[unit[h]] # "none"

\* What a report handler knows at each of its statements.
ReportOK(h) ==
  /\ pc[h] \in {"markOutstanding", "markUnit", "setKey", "setKeyAnyway", "acknowledge"}
       => /\ [unit |-> unit[h], block |-> block[h]] \in issued
          /\ found[h] = (block[h] = KeyBlock)
  /\ pc[h] \in {"setKey", "acknowledge"} => unitStatus[unit[h]] = "done"
  /\ pc[h] \in {"setKey", "setKeyAnyway"} => found[h]
  /\ pc[h] = "acknowledge" /\ found[h] => status = "done"

HandlersOK == \A h \in Handlers : RequestOK(h) /\ ReportOK(h)

IInv ==
  /\ TypeOK
  /\ TrackedIsCreated
  /\ HandlersOK
  /\ NoBlockSkipped
  /\ IssuedIsTracked
  /\ DoneOnlyWhenFound
  /\ AckedIsRecorded

\* No step takes back a row, an answer or a conclusion.
Persists ==
  /\ \A u \in Units : Created(u) => Created(u)' /\ unitBlock'[u] = unitBlock[u]
  /\ \A u \in Units : unitStatus[u] = "done" => unitStatus'[u] = "done"
  /\ \A u \in Units : outStatus[u] # "none" => outStatus'[u] # "none"
  /\ issued \subseteq issued'
  /\ status = "done" => status' = "done"

\* The two alternatives of a handler step, and the steps that are no
\* handler's, as one disjunction to split proofs on.
HandlerStep(h) ==
  \/ RequestBegin(h) \/ ReadProject(h) \/ ReadExpired(h) \/ InsertUnit(h)
  \/ AdvanceNextBlock(h) \/ Track(h) \/ Respond(h)
  \/ \E w \in issued : ReportBegin(h, w)
  \/ MarkOutstanding(h) \/ MarkUnit(h) \/ SetPrivateKey(h) \/ Acknowledge(h)
  \/ Fail(h)

LEMMA NextSplit ==
  ASSUME Next
  PROVE  (\E h \in Handlers : HandlerStep(h)) \/ Crash \/ (\E u \in Units : Lapse(u))
BY DEF Next, HandlerStep, RequestRest, ReportRest

\* The blocks that dead handlers leave behind are blocks.
LEMMA DieTypes ==
  ASSUME TypeOK, HandlersOK, NEW hs \in SUBSET Handlers, Die(hs)
  PROVE  disturbed' \subseteq Blocks /\ stranded' \subseteq Blocks
<1>1. \A h \in hs : block[h] \in Blocks
  BY DEF TypeOK
<1>2. \A h \in hs : pc[h] = "track" => unitBlock[unit[h]] \in Blocks
  BY NumBlocksAssumption DEF TypeOK, HandlersOK, RequestOK, Blocks
<1> QED BY <1>1, <1>2 DEF Die, TypeOK

\* Types are kept by every step of the server: the rows of the three tables,
\* the handlers' locals and the history stay in their sets, next_block among
\* them never passes num_blocks (BruteForceDB.py:137-151).
LEMMA TypeStep ==
  ASSUME TypeOK, HandlersOK, [Next]_vars
  PROVE  TypeOK'
<1> USE NumBlocksAssumption, KeyBlockAssumption, NoUnitAssumption, BoundsAssumption
<1>1. CASE UNCHANGED vars
  BY <1>1 DEF TypeOK, vars, project, workUnits, outstanding, locals,
       rest, answers, accidents, bounds, Blocks, Work
<1>2. ASSUME NEW h \in Handlers, HandlerStep(h)
      PROVE  TypeOK'
  <2> USE DEF TypeOK, PCs, Blocks, Work, Goto, Return, project, workUnits, outstanding,
              locals, rest, answers, accidents, bounds
  <2>1. CASE RequestBegin(h)
    <3>1. outStatus' \in [Units -> {"none", "running", "expired", "done"}]
      BY <2>1 DEF RequestBegin, CleanupExpired
    <3> QED BY <2>1, <3>1 DEF RequestBegin
  <2>2. CASE ReadProject(h)
    <3>1. disturbed' \subseteq Blocks
      <4>1. disturbed' = disturbed \/ disturbed' = disturbed \cup {nextBlock}
        BY <2>2 DEF ReadProject
      <4> QED BY <4>1
    <3>2. CASE Return(h)
      BY <2>2, <3>1, <3>2 DEF ReadProject
    <3>3. CASE ~Return(h)
      BY <2>2, <3>1, <3>3 DEF ReadProject
    <3> QED BY <3>2, <3>3
  <2>3. CASE ReadExpired(h)
    <3>0. contested' \subseteq Units
      BY <2>3 DEF ReadExpired, Expired
    <3>1. CASE Return(h)
      BY <2>3, <3>0, <3>1 DEF ReadExpired
    <3>2. ASSUME NEW u \in Units, unit' = [unit EXCEPT ![h] = u], Goto(h, "track"),
                 UNCHANGED <<block, found>>
          PROVE  TypeOK'
      BY <2>3, <3>0, <3>2 DEF ReadExpired
    <3>3. CASE Goto(h, "insertUnit") /\ UNCHANGED locals
      BY <2>3, <3>0, <3>3 DEF ReadExpired
    <3> QED BY <2>3, <3>1, <3>2, <3>3 DEF ReadExpired, Expired
  <2>4. CASE InsertUnit(h)
    <3>1. block[h] \in 0 .. NumBlocks - 1
      BY <2>4 DEF InsertUnit, HandlersOK, RequestOK
    <3> QED BY <2>4, <3>1 DEF InsertUnit
  <2>5. CASE AdvanceNextBlock(h)
    <3>1. block[h] + 1 \in 0 .. NumBlocks
      BY <2>5 DEF AdvanceNextBlock, HandlersOK, RequestOK
    <3> QED BY <2>5, <3>1 DEF AdvanceNextBlock
  <2>6. CASE Track(h)
    BY <2>6 DEF Track
  <2>7. CASE Respond(h)
    <3>1. unit[h] \in Units
      BY <2>7 DEF Respond, HandlersOK, RequestOK
    <3> QED BY <2>7, <3>1 DEF Respond
  <2>8. CASE \E w \in issued : ReportBegin(h, w)
    BY <2>8 DEF ReportBegin, CleanupExpired
  <2>9. CASE MarkOutstanding(h)
    BY <2>9 DEF MarkOutstanding
  <2>10. CASE MarkUnit(h)
    <3>1. pc' \in [Handlers -> PCs]
      BY <2>10 DEF MarkUnit
    <3> QED BY <2>10, <3>1 DEF MarkUnit
  <2>11. CASE SetPrivateKey(h)
    <3>1. CASE Return(h)
      BY <2>11, <3>1 DEF SetPrivateKey
    <3>2. CASE ~Return(h)
      BY <2>11, <3>2 DEF SetPrivateKey
    <3> QED BY <3>1, <3>2
  <2>12. CASE Acknowledge(h)
    <3>1. [unit |-> unit[h], block |-> block[h]] \in Work
      BY <2>12 DEF Acknowledge, HandlersOK, ReportOK
    <3> QED BY <2>12, <3>1 DEF Acknowledge
  <2>13. CASE Fail(h)
    <3>0. disturbed' \subseteq Blocks /\ stranded' \subseteq Blocks
      BY <2>13, DieTypes DEF Fail
    <3>1. CASE Return(h)
      BY <2>13, <3>0, <3>1 DEF Fail
    <3>2. CASE ~Return(h)
      BY <2>13, <3>0, <3>2 DEF Fail
    <3> QED BY <3>1, <3>2
  <2> QED BY <1>2, <2>1, <2>2, <2>3, <2>4, <2>5, <2>6, <2>7, <2>8, <2>9, <2>10, <2>11,
             <2>12, <2>13 DEF HandlerStep
<1>3. CASE Crash
  <2>1. disturbed' \subseteq Blocks /\ stranded' \subseteq Blocks
    BY <1>3, DieTypes DEF Crash
  <2> QED BY <1>3, <2>1 DEF Crash, TypeOK, PCs, Blocks, Work, project, workUnits, outstanding,
            answers
<1>4. ASSUME NEW u \in Units, Lapse(u)
      PROVE  TypeOK'
  BY <1>4 DEF Lapse, TypeOK, Blocks, Work, project, workUnits, locals, answers, accidents
<1> QED BY <1>1, <1>2, <1>3, <1>4, NextSplit

\* Rows, answers and conclusions are only added: InsertUnit takes a fresh id,
\* and no other statement touches a unit's block or resets its status.
LEMMA PersistStep ==
  ASSUME IInv, [Next]_vars
  PROVE  Persists
<1> USE DEF IInv, TypeOK, Persists, Created, project, workUnits, outstanding,
     rest, answers, accidents, bounds
<1>1. CASE UNCHANGED vars
  BY <1>1 DEF vars
<1>2. ASSUME NEW h \in Handlers, HandlerStep(h)
      PROVE  Persists
  <2>1. CASE RequestBegin(h) \/ \E w \in issued : ReportBegin(h, w)
    BY <2>1 DEF RequestBegin, ReportBegin, CleanupExpired
  <2>2. CASE ReadProject(h) \/ ReadExpired(h) \/ AdvanceNextBlock(h) \/ Fail(h)
    BY <2>2 DEF ReadProject, ReadExpired, AdvanceNextBlock, Fail
  <2>3. CASE InsertUnit(h)
    BY <2>3 DEF InsertUnit
  <2>4. CASE Track(h)
    BY <2>4 DEF Track
  <2>5. CASE Respond(h) \/ Acknowledge(h) \/ SetPrivateKey(h)
    BY <2>5 DEF Respond, Acknowledge, SetPrivateKey
  <2>6. CASE MarkOutstanding(h)
    BY <2>6 DEF MarkOutstanding
  <2>7. CASE MarkUnit(h)
    BY <2>7 DEF MarkUnit
  <2> QED BY <1>2, <2>1, <2>2, <2>3, <2>4, <2>5, <2>6, <2>7 DEF HandlerStep
<1>3. CASE Crash
  BY <1>3 DEF Crash
<1>4. ASSUME NEW u \in Units, Lapse(u)
      PROVE  Persists
  BY <1>4 DEF Lapse
<1> QED BY <1>1, <1>2, <1>3, <1>4, NextSplit

\* A block that has a unit keeps it.
LEMMA CoveredPersists ==
  ASSUME Persists, NEW n \in Int, Covered(n)
  PROVE  \A b \in 0 .. n - 1 : \E u \in Units : unitStatus'[u] # "none" /\ unitBlock'[u] = b
BY DEF Persists, Covered, Created

\* What a handler knows is not disturbed by the steps of others: its locals
\* are its own and every row it relies on persists.
LEMMA OtherHandlers ==
  ASSUME IInv, Persists, TypeOK', NEW g \in Handlers,
         pc'[g] = pc[g], block'[g] = block[g], unit'[g] = unit[g], found'[g] = found[g]
  PROVE  RequestOK(g)' /\ ReportOK(g)'
<1>1. RequestOK(g) /\ ReportOK(g)
  BY DEF IInv, HandlersOK
<1>2. block[g] \in Int
  BY NumBlocksAssumption DEF IInv, TypeOK, Blocks
<1>3. ASSUME pc[g] \in {"readExpired", "insertUnit", "advance"}
      PROVE  Covered(block[g])'
  <2>1. \A b \in 0 .. block[g] - 1 :
          \E u \in Units : unitStatus'[u] # "none" /\ unitBlock'[u] = b
    BY <1>1, <1>2, <1>3, CoveredPersists DEF RequestOK
  <2> QED BY <2>1 DEF Covered, Created
<1>4. RequestOK(g)'
  BY <1>1, <1>3 DEF RequestOK, Persists
<1>5. ReportOK(g)'
  BY <1>1 DEF ReportOK, Persists, IInv, TypeOK, Work
<1> QED BY <1>4, <1>5

\* A handler's own statement leaves it with what its next statement relies on.
LEMMA OwnStep ==
  ASSUME IInv, Persists, TypeOK', NEW h \in Handlers, HandlerStep(h)
  PROVE  RequestOK(h)' /\ ReportOK(h)'
<1> USE DEF IInv, TypeOK, Goto, Return, Created, project, workUnits, outstanding, locals,
     rest, answers, accidents, bounds
<1>0. RequestOK(h) /\ ReportOK(h)
  BY DEF HandlersOK
<1>1. CASE RequestBegin(h)
  BY <1>1 DEF RequestBegin, RequestOK, ReportOK
<1>2. CASE ReadProject(h)
  <2>1. CASE Return(h)
    BY <2>1 DEF RequestOK, ReportOK
  <2>2. CASE ~Return(h)
    <3>1. pc'[h] = "readExpired" /\ block'[h] = nextBlock
      BY <1>2, <2>2 DEF ReadProject
    <3>2. \A b \in 0 .. nextBlock - 1 :
            \E u \in Units : unitStatus'[u] # "none" /\ unitBlock'[u] = b
      BY <1>2 DEF ReadProject, NoBlockSkipped
    <3> QED BY <3>1, <3>2 DEF RequestOK, ReportOK, Covered
  <2> QED BY <2>1, <2>2
<1>3. CASE ReadExpired(h)
  <2>1. CASE Return(h)
    BY <2>1 DEF RequestOK, ReportOK
  <2>2. ASSUME NEW u \in Expired, unit' = [unit EXCEPT ![h] = u], Goto(h, "track")
        PROVE  RequestOK(h)' /\ ReportOK(h)'
    BY <1>3, <2>2 DEF ReadExpired, RequestOK, ReportOK, Expired, TrackedIsCreated
  <2>3. CASE block[h] < NumBlocks /\ Goto(h, "insertUnit") /\ UNCHANGED locals
    BY <1>0, <1>3, <2>3 DEF ReadExpired, RequestOK, ReportOK, Covered
  <2> QED BY <1>3, <2>1, <2>2, <2>3 DEF ReadExpired
<1>4. CASE InsertUnit(h)
  <2>1. PICK u \in Units : /\ unitStatus' = [unitStatus EXCEPT ![u] = "running"]
                           /\ unitBlock' = [unitBlock EXCEPT ![u] = block[h]]
                           /\ unit' = [unit EXCEPT ![h] = u]
    BY <1>4 DEF InsertUnit
  <2>2. pc'[h] = "advance" /\ block'[h] = block[h] /\ pc[h] = "insertUnit"
    BY <1>4 DEF InsertUnit
  <2>3. Covered(block[h]) /\ block[h] \in Int /\ block[h] < NumBlocks
    BY <1>0, <2>2, NumBlocksAssumption DEF RequestOK, Blocks
  <2>4. \A b \in 0 .. block[h] - 1 :
          \E v \in Units : unitStatus'[v] # "none" /\ unitBlock'[v] = b
    BY <2>3, CoveredPersists
  <2> QED BY <2>1, <2>2, <2>3, <2>4 DEF RequestOK, ReportOK, Covered
<1>5. CASE AdvanceNextBlock(h)
  BY <1>0, <1>5 DEF AdvanceNextBlock, RequestOK, ReportOK
<1>6. CASE Track(h)
  BY <1>0, <1>6 DEF Track, RequestOK, ReportOK
<1>7. CASE Respond(h) \/ Acknowledge(h)
  BY <1>7 DEF Respond, Acknowledge, RequestOK, ReportOK
<1>8. ASSUME NEW w \in issued, ReportBegin(h, w)
      PROVE  RequestOK(h)' /\ ReportOK(h)'
  BY <1>8 DEF ReportBegin, RequestOK, ReportOK, Work
<1>9. CASE MarkOutstanding(h)
  BY <1>0, <1>9 DEF MarkOutstanding, RequestOK, ReportOK
<1>10. CASE MarkUnit(h)
  <2>1. unit[h] \in Units
    BY <1>0, <1>10 DEF MarkUnit, ReportOK, Work
  <2> QED BY <1>0, <1>10, <2>1 DEF MarkUnit, RequestOK, ReportOK
<1>11. CASE SetPrivateKey(h)
  BY <1>0, <1>11 DEF SetPrivateKey, RequestOK, ReportOK
<1>12. CASE Fail(h)
  BY <1>0, <1>12 DEF Fail, RequestOK, ReportOK
<1> QED BY <1>1, <1>2, <1>3, <1>4, <1>5, <1>6, <1>7, <1>8, <1>9, <1>10, <1>11, <1>12
        DEF HandlerStep

\* Only the running handler's locals change, and a crash clears them all.
LEMMA HandlersStep ==
  ASSUME IInv, TypeOK', [Next]_vars
  PROVE  HandlersOK'
<1> DEFINE Kept(g) == /\ pc'[g] = pc[g] /\ block'[g] = block[g]
                      /\ unit'[g] = unit[g] /\ found'[g] = found[g]
<1>1. Persists
  BY PersistStep
<1>2. ASSUME NEW h \in Handlers, HandlerStep(h), NEW g \in Handlers, g # h
      PROVE  Kept(g)
  BY <1>2 DEF HandlerStep, RequestBegin, ReadProject, ReadExpired, InsertUnit, AdvanceNextBlock,
       Track, Respond, ReportBegin, MarkOutstanding, MarkUnit, SetPrivateKey, Acknowledge, Fail,
       Goto, Return, locals, IInv, TypeOK
<1>3. ASSUME NEW h \in Handlers, HandlerStep(h)
      PROVE  HandlersOK'
  BY <1>1, <1>2, <1>3, OwnStep, OtherHandlers DEF HandlersOK
<1>4. CASE Crash
  BY <1>4 DEF Crash, HandlersOK, RequestOK, ReportOK
<1>5. CASE UNCHANGED vars \/ \E u \in Units : Lapse(u)
  <2>1. \A g \in Handlers : Kept(g)
    BY <1>5 DEF vars, locals, Lapse
  <2> QED BY <1>1, <2>1, OtherHandlers DEF HandlersOK
<1> QED BY <1>3, <1>4, <1>5, NextSplit

\* Which statements write next_block, the ProjectInfo status and the histories.
LEMMA Writers ==
  ASSUME [Next]_vars
  PROVE  /\ nextBlock' = nextBlock \/ \E h \in Handlers : AdvanceNextBlock(h)
         /\ status' = status \/ \E h \in Handlers : SetPrivateKey(h)
         /\ issued' = issued \/ \E h \in Handlers : Respond(h)
         /\ acked' = acked \/ \E h \in Handlers : Acknowledge(h)
<1> USE DEF project, rest, answers, accidents, bounds
<1>1. ASSUME NEW h \in Handlers, HandlerStep(h)
      PROVE  /\ nextBlock' = nextBlock \/ AdvanceNextBlock(h)
             /\ status' = status \/ SetPrivateKey(h)
             /\ issued' = issued \/ Respond(h)
             /\ acked' = acked \/ Acknowledge(h)
  BY <1>1 DEF HandlerStep, RequestBegin, ReadProject, ReadExpired, InsertUnit, AdvanceNextBlock,
       Track, Respond, ReportBegin, MarkOutstanding, MarkUnit, SetPrivateKey, Acknowledge, Fail
<1>2. CASE UNCHANGED vars \/ Crash \/ \E u \in Units : Lapse(u)
  BY <1>2 DEF vars, Crash, Lapse
<1> QED BY <1>1, <1>2, NextSplit

\* A row enters OutstandingWork only for a unit that is in WorkUnits.
LEMMA TrackedStep ==
  ASSUME IInv, [Next]_vars
  PROVE  TrackedIsCreated'
<1> USE DEF IInv, TypeOK, TrackedIsCreated, Created, project, workUnits, outstanding
<1>1. Persists
  BY PersistStep
<1>2. CASE outStatus' = outStatus
  BY <1>1, <1>2 DEF Persists
<1>3. ASSUME NEW h \in Handlers, HandlerStep(h)
      PROVE  TrackedIsCreated'
  <2>1. CASE RequestBegin(h) \/ \E w \in issued : ReportBegin(h, w)
    BY <2>1 DEF RequestBegin, ReportBegin, CleanupExpired
  <2>2. CASE Track(h)
    BY <2>2 DEF Track, HandlersOK, RequestOK
  <2>3. CASE MarkOutstanding(h)
    BY <2>3 DEF MarkOutstanding, HandlersOK, ReportOK, IssuedIsTracked, Work
  <2>4. CASE outStatus' = outStatus
    BY <1>2, <2>4
  <2> QED BY <1>3, <2>1, <2>2, <2>3, <2>4 DEF HandlerStep, ReadProject, ReadExpired, InsertUnit,
        AdvanceNextBlock, Respond, MarkUnit, SetPrivateKey, Acknowledge, Fail
<1>4. CASE UNCHANGED vars \/ Crash \/ \E u \in Units : Lapse(u)
  BY <1>2, <1>4 DEF vars, Crash, Lapse
<1> QED BY <1>3, <1>4, NextSplit

\* next_block is set to one past a block whose unit its writer inserted.
LEMMA NoBlockSkippedStep ==
  ASSUME IInv, TypeOK', [Next]_vars
  PROVE  NoBlockSkipped'
<1>1. Persists
  BY PersistStep
<1>2. nextBlock \in Int /\ \A h \in Handlers : block[h] \in Int
  BY NumBlocksAssumption DEF IInv, TypeOK, Blocks
<1>3. CASE nextBlock' = nextBlock
  BY <1>1, <1>3 DEF Persists, IInv, NoBlockSkipped, Created
<1>4. ASSUME NEW h \in Handlers, AdvanceNextBlock(h)
      PROVE  NoBlockSkipped'
  <2>1. /\ nextBlock' = block[h] + 1 /\ Covered(block[h])
        /\ unit[h] \in Units /\ Created(unit[h]) /\ unitBlock[unit[h]] = block[h]
        /\ UNCHANGED <<unitBlock, unitStatus>>
    BY <1>4 DEF AdvanceNextBlock, IInv, HandlersOK, RequestOK, workUnits
  <2> QED BY <1>2, <2>1 DEF NoBlockSkipped, Covered, Created
<1> QED BY <1>3, <1>4, Writers

\* Work is returned after its rows are committed, and rows are never deleted.
LEMMA IssuedStep ==
  ASSUME IInv, [Next]_vars
  PROVE  IssuedIsTracked'
<1>1. Persists
  BY PersistStep
<1>2. \A w \in issued : w.unit \in Units
  BY DEF IInv, TypeOK, Work
<1>3. CASE issued' = issued
  BY <1>1, <1>2, <1>3 DEF Persists, IInv, IssuedIsTracked, Created
<1>4. ASSUME NEW h \in Handlers, Respond(h)
      PROVE  IssuedIsTracked'
  <2>1. unit[h] \in Units /\ Created(unit[h]) /\ outStatus[unit[h]] # "none"
    BY <1>4 DEF Respond, IInv, HandlersOK, RequestOK
  <2> QED BY <1>1, <1>2, <1>4, <2>1 DEF Respond, Persists, IInv, IssuedIsTracked, Created
<1> QED BY <1>3, <1>4, Writers

\* The key that closes the project came out of the key's block.
LEMMA DoneStep ==
  ASSUME IInv, [Next]_vars
  PROVE  DoneOnlyWhenFound'
<1>1. Persists
  BY PersistStep
<1>2. CASE status' = status
  BY <1>1, <1>2 DEF Persists, IInv, DoneOnlyWhenFound
<1>3. ASSUME NEW h \in Handlers, SetPrivateKey(h)
      PROVE  DoneOnlyWhenFound'
  <2>1. [unit |-> unit[h], block |-> block[h]] \in issued /\ block[h] = KeyBlock
    BY <1>3 DEF SetPrivateKey, IInv, TypeOK, HandlersOK, ReportOK
  <2> QED BY <1>1, <2>1 DEF Persists, DoneOnlyWhenFound
<1> QED BY <1>2, <1>3, Writers

\* 'Ok' is the last statement of a report handler that has not failed.
LEMMA AckedStep ==
  ASSUME IInv, [Next]_vars
  PROVE  AckedIsRecorded'
<1>1. Persists
  BY PersistStep
<1>2. \A w \in acked : w.unit \in Units
  BY DEF IInv, TypeOK, Work
<1>3. CASE acked' = acked
  BY <1>1, <1>2, <1>3 DEF Persists, IInv, AckedIsRecorded
<1>4. ASSUME NEW h \in Handlers, Acknowledge(h)
      PROVE  AckedIsRecorded'
  <2>1. /\ unit[h] \in Units /\ unitStatus[unit[h]] = "done"
        /\ block[h] = KeyBlock => status = "done"
    BY <1>4 DEF Acknowledge, IInv, TypeOK, HandlersOK, ReportOK, Work
  <2> QED BY <1>1, <1>2, <1>4, <2>1 DEF Acknowledge, Persists, IInv, AckedIsRecorded
<1> QED BY <1>3, <1>4, Writers

-----------------------------------------------------------------------------
\* The inductive invariant of the server.
THEOREM Invariance == Spec => []IInv
<1>1. Init => IInv
  BY NumBlocksAssumption, BoundsAssumption
  DEF Init, IInv, TypeOK, PCs, Blocks, Work, TrackedIsCreated, HandlersOK, RequestOK, ReportOK,
      NoBlockSkipped, IssuedIsTracked, DoneOnlyWhenFound, AckedIsRecorded, Created
<1>2. IInv /\ [Next]_vars => IInv'
  BY TypeStep, TrackedStep, HandlersStep, NoBlockSkippedStep, IssuedStep, DoneStep, AckedStep
  DEF IInv
<1> QED BY <1>1, <1>2, PTL DEF Spec

\* The rows of the three tables, the handlers' locals and the histories keep
\* their types; next_block stays within 0 .. num_blocks (BruteForceDB.py:137).
THEOREM TypeCorrect == Spec => []TypeOK
BY Invariance, PTL DEF IInv

\* However requests interleave, fail or die between the commits of
\* request_work, no block below next_block is without a work unit.
THEOREM NoBlockSkippedThm == Spec => []NoBlockSkipped
BY Invariance, PTL DEF IInv

\* Every unit a client was given is in WorkUnits and in OutstandingWork.
THEOREM IssuedIsTrackedThm == Spec => []IssuedIsTracked
BY Invariance, PTL DEF IInv

\* The project is closed only after the key's block was given out.
THEOREM DoneOnlyWhenFoundThm == Spec => []DoneOnlyWhenFound
BY Invariance, PTL DEF IInv

\* A client that hears 'Ok' to its result can forget the unit: its completion
\* is committed, and so is the key.
THEOREM AckedIsRecordedThm == Spec => []AckedIsRecorded
BY Invariance, PTL DEF IInv

-----------------------------------------------------------------------------
(* While nothing has expired, a unit goes out with its own block *)

\* As long as no unit's ten minutes ran out there is nothing to reissue, and a
\* handler's unit is the one it made for the block it read.
OwnRangeInv ==
  lapses = 0 =>
    /\ lapsed = {}
    /\ \A u \in Units : outStatus[u] # "expired"
    /\ \A h \in Handlers : pc[h] \in {"advance", "track", "respond"} =>
                            unitBlock[unit[h]] = block[h]
    /\ \A w \in issued : w.block = unitBlock[w.unit]

\* No statement marks a row expired that has not lapsed.
LEMMA NothingExpires ==
  ASSUME IInv, OwnRangeInv, [Next]_vars, lapses' = 0
  PROVE  lapses = 0 /\ lapsed' = {} /\ \A u \in Units : outStatus'[u] # "expired"
<1> USE BoundsAssumption DEF IInv, TypeOK, OwnRangeInv, outstanding,
     rest, answers, accidents, bounds
<1>1. lapses = 0
  <2>1. ASSUME NEW h \in Handlers, HandlerStep(h)
        PROVE  lapses' = lapses
    BY <2>1 DEF HandlerStep, RequestBegin, ReadProject, ReadExpired, InsertUnit, AdvanceNextBlock,
         Track, Respond, ReportBegin, MarkOutstanding, MarkUnit, SetPrivateKey, Acknowledge, Fail
  <2>2. CASE UNCHANGED vars \/ Crash
    BY <2>2 DEF vars, Crash
  <2>3. ASSUME NEW u \in Units, Lapse(u)
        PROVE  lapses' # 0
    BY <2>3 DEF Lapse
  <2> QED BY <2>1, <2>2, <2>3, NextSplit
<1>2. ASSUME NEW h \in Handlers, HandlerStep(h)
      PROVE  lapsed' = {} /\ \A u \in Units : outStatus'[u] # "expired"
  <2>1. CASE RequestBegin(h) \/ \E w \in issued : ReportBegin(h, w)
    BY <1>1, <2>1 DEF RequestBegin, ReportBegin, CleanupExpired
  <2>2. CASE Track(h) \/ MarkOutstanding(h)
    BY <1>1, <2>2 DEF Track, MarkOutstanding
  <2>3. CASE UNCHANGED outstanding
    BY <1>1, <2>3
  <2> QED BY <1>2, <2>1, <2>2, <2>3 DEF HandlerStep, ReadProject, ReadExpired, InsertUnit,
        AdvanceNextBlock, Respond, MarkUnit, SetPrivateKey, Acknowledge, Fail
<1>3. CASE UNCHANGED vars \/ Crash
  BY <1>1, <1>3 DEF vars, Crash
<1>4. ~(\E u \in Units : Lapse(u))
  BY <1>1 DEF Lapse
<1> QED BY <1>1, <1>2, <1>3, <1>4, NextSplit

\* InsertUnit makes the unit of the handler's block, and nothing else gives a
\* handler a unit while none has expired.
LEMMA OwnRangeStep ==
  ASSUME IInv, OwnRangeInv, TypeOK', [Next]_vars
  PROVE  OwnRangeInv'
<1> SUFFICES ASSUME lapses' = 0
             PROVE  OwnRangeInv'
  BY DEF OwnRangeInv
<1>0. Persists
  BY PersistStep
<1>1. lapses = 0 /\ lapsed' = {} /\ \A u \in Units : outStatus'[u] # "expired"
  BY NothingExpires
<1>2. \A w \in issued : w.block = unitBlock'[w.unit]
  BY <1>0, <1>1 DEF OwnRangeInv, Persists, IInv, TypeOK, IssuedIsTracked, Work
<1>3. \A h \in Handlers : pc[h] \in {"advance", "track", "respond"} =>
                          unitBlock'[unit[h]] = block[h]
  BY <1>0, <1>1 DEF OwnRangeInv, Persists, IInv, HandlersOK, RequestOK
<1>4. \A w \in issued' : w.block = unitBlock'[w.unit]
  <2>1. CASE issued' = issued
    BY <1>2, <2>1
  <2>2. ASSUME NEW h \in Handlers, Respond(h)
        PROVE  \A w \in issued' : w.block = unitBlock'[w.unit]
    BY <1>2, <1>3, <2>2 DEF Respond
  <2> QED BY <2>1, <2>2, Writers
<1>5. ASSUME NEW h \in Handlers, HandlerStep(h), NEW g \in Handlers,
             pc'[g] \in {"advance", "track", "respond"}
      PROVE  unitBlock'[unit'[g]] = block'[g]
  <2> USE DEF IInv, TypeOK, Goto, Return, locals
  <2>1. CASE InsertUnit(h)
    BY <1>3, <1>5, <2>1 DEF InsertUnit
  <2>2. CASE AdvanceNextBlock(h) \/ Track(h)
    BY <1>3, <1>5, <2>2 DEF AdvanceNextBlock, Track
  <2>3. CASE ReadExpired(h)
    BY <1>1, <1>3, <1>5, <2>3 DEF ReadExpired, Expired, OwnRangeInv
  <2>4. CASE RequestBegin(h) \/ \E w \in issued : ReportBegin(h, w)
    BY <1>3, <1>5, <2>4 DEF RequestBegin, ReportBegin
  <2>5. CASE ReadProject(h) \/ Respond(h) \/ Acknowledge(h)
    BY <1>3, <1>5, <2>5 DEF ReadProject, Respond, Acknowledge
  <2>6. CASE MarkOutstanding(h) \/ MarkUnit(h) \/ SetPrivateKey(h) \/ Fail(h)
    BY <1>3, <1>5, <2>6 DEF MarkOutstanding, MarkUnit, SetPrivateKey, Fail
  <2> QED BY <1>5, <2>1, <2>2, <2>3, <2>4, <2>5, <2>6 DEF HandlerStep
<1>6. CASE UNCHANGED vars \/ Crash \/ \E u \in Units : Lapse(u)
  BY <1>1, <1>3, <1>4, <1>6 DEF OwnRangeInv, vars, locals, Crash, Lapse
<1>7. CASE \E h \in Handlers : HandlerStep(h)
  BY <1>1, <1>4, <1>5, <1>7 DEF OwnRangeInv
<1> QED BY <1>6, <1>7, NextSplit

\* Interleaved requests never mix up units and blocks: until a unit expires,
\* every client searches the block its unit stands for (BruteForceDB.py:167).
THEOREM OwnRangeThm == Spec => []OwnRangeUntilExpiry
<1>1. Init => OwnRangeInv
  BY DEF Init, OwnRangeInv
<1>2. IInv /\ IInv' /\ OwnRangeInv /\ [Next]_vars => OwnRangeInv'
  BY OwnRangeStep DEF IInv
<1>3. OwnRangeInv => OwnRangeUntilExpiry
  BY DEF OwnRangeInv, OwnRangeUntilExpiry
<1> QED BY <1>1, <1>2, <1>3, Invariance, PTL DEF Spec

-----------------------------------------------------------------------------
(* BruteForceDB implements WorkLedger *)

Sent == {w.unit : w \in issued}
Finished == {u \in Units : unitStatus[u] = "done"}

\* Respond sends, the first MarkUnit of a unit finishes, and the rest of the
\* server's steps leave the ledger alone.
LEMMA LedgerStep ==
  ASSUME IInv, [Next]_vars
  PROVE  [Ledger!LedgerNext]_<<Sent, Finished>>
<1> USE DEF Sent, Finished, IInv, TypeOK
<1>1. CASE issued' = issued /\ unitStatus' = unitStatus
  BY <1>1
<1>2. ASSUME NEW h \in Handlers, Respond(h)
      PROVE  \E u \in Units : Sent' = Sent \cup {u} /\ Finished' = Finished
  <2>1. unit[h] \in Units
    BY <1>2 DEF Respond, HandlersOK, RequestOK
  <2>2. issued' = issued \cup {[unit |-> unit[h], block |-> block[h]]}
    BY <1>2 DEF Respond
  <2> DEFINE w == [unit |-> unit[h], block |-> block[h]]
  <2>3. Sent' = Sent \cup {unit[h]}
    <3>1. w.unit = unit[h]
      OBVIOUS
    <3> HIDE DEF w
    <3>2. issued' = issued \cup {w}
      BY <2>2 DEF w
    <3> QED BY <3>1, <3>2
  <2>4. Finished' = Finished
    BY <1>2 DEF Respond, workUnits
  <2> QED BY <2>1, <2>3, <2>4
<1>3. ASSUME NEW h \in Handlers, MarkUnit(h)
      PROVE  \E u \in Sent : u \in Units /\ Finished' = Finished \cup {u} /\ Sent' = Sent
  <2>1. /\ unit[h] \in Units
        /\ unit[h] \in Sent
    <3>1. [unit |-> unit[h], block |-> block[h]] \in issued
      BY <1>3 DEF MarkUnit, HandlersOK, ReportOK
    <3>2. [unit |-> unit[h], block |-> block[h]].unit = unit[h]
      OBVIOUS
    <3>3. unit[h] \in Sent
      BY <3>1, <3>2
    <3>4. unit[h] \in Units
      BY <3>1, <3>2 DEF Work
    <3> QED BY <3>3, <3>4
  <2>2. unitStatus' = [unitStatus EXCEPT ![unit[h]] = "done"] /\ issued' = issued
    BY <1>3 DEF MarkUnit, rest, answers, accidents, bounds
  <2>3. \A u \in Units : unitStatus'[u] = "done" <=> unitStatus[u] = "done" \/ u = unit[h]
    BY <2>1, <2>2
  <2>4. Finished' = Finished \cup {unit[h]}
    BY <2>1, <2>3
  <2>5. Sent' = Sent
    BY <2>2
  <2> QED BY <2>1, <2>4, <2>5
<1>4. ASSUME NEW h \in Handlers, InsertUnit(h)
      PROVE  UNCHANGED <<Sent, Finished>>
  <2>1. /\ issued' = issued
        /\ \E u \in Units : /\ unitStatus[u] = "none"
                            /\ unitStatus' = [unitStatus EXCEPT ![u] = "running"]
    BY <1>4 DEF InsertUnit, rest, answers, accidents, bounds
  <2>2. \A u \in Units : unitStatus'[u] = "done" <=> unitStatus[u] = "done"
    BY <2>1
  <2>3. Finished' = Finished
    BY <2>2
  <2>4. Sent' = Sent
    BY <2>1
  <2> QED BY <2>3, <2>4
<1>5. ASSUME NEW h \in Handlers, HandlerStep(h), ~InsertUnit(h), ~MarkUnit(h), ~Respond(h)
      PROVE  issued' = issued /\ unitStatus' = unitStatus
  BY <1>5 DEF HandlerStep, RequestBegin, ReadProject, ReadExpired, AdvanceNextBlock, Track,
       ReportBegin, MarkOutstanding, SetPrivateKey, Acknowledge, Fail, workUnits,
            rest, answers, accidents, bounds
<1>6. CASE UNCHANGED vars \/ Crash \/ \E u \in Units : Lapse(u)
  BY <1>1, <1>6 DEF vars, Crash, Lapse, workUnits, rest, answers, accidents, bounds
<1>7. ASSUME NEW h \in Handlers, HandlerStep(h)
      PROVE  [Ledger!LedgerNext]_<<Sent, Finished>>
  BY <1>1, <1>2, <1>3, <1>4, <1>5, <1>7 DEF Ledger!LedgerNext, Ledger!Send, Ledger!Finish
<1> QED BY <1>6, <1>7, NextSplit

\* What clients see of the server is the ledger: a unit is finished only
\* after it was sent, and stays finished.
THEOREM Implementation == Spec => LedgerSpec
<1>1. Init => Ledger!LedgerInit
  BY DEF Init, Ledger!LedgerInit
<1>2. IInv /\ [Next]_vars => [Ledger!LedgerNext]_Ledger!ledgerVars
  BY LedgerStep DEF Sent, Finished, Ledger!ledgerVars
<1> QED BY <1>1, <1>2, Invariance, PTL DEF Spec, LedgerSpec, Ledger!LedgerSpec

-----------------------------------------------------------------------------
(* What overlapping requests, lost handlers and reissues can do *)

\* A row of OutstandingWork is never deleted, and a handler that has made a
\* unit goes on to track it or dies and is remembered.
Kept(b) == b \in stranded \/ \E u \in Units : Recoverable(u) /\ unitBlock[u] = b

KeptInv ==
  /\ NoBlockStranded
  /\ \A h \in Handlers : InFlight(h) => \A b \in 0 .. block[h] - 1 : Kept(b)

LEMMA StrandedGrows ==
  ASSUME [Next]_vars
  PROVE  stranded \subseteq stranded'
<1> USE DEF rest, answers, accidents, bounds
<1>1. ASSUME NEW h \in Handlers, HandlerStep(h)
      PROVE  stranded \subseteq stranded'
  BY <1>1 DEF HandlerStep, RequestBegin, ReadProject, ReadExpired, InsertUnit, AdvanceNextBlock,
       Track, Respond, ReportBegin, MarkOutstanding, MarkUnit, SetPrivateKey, Acknowledge, Fail, Die
<1>2. CASE UNCHANGED vars \/ Crash \/ \E u \in Units : Lapse(u)
  BY <1>2 DEF vars, Crash, Lapse, Die
<1> QED BY <1>1, <1>2, NextSplit

\* The locals of the handlers that take no step.
LEMMA OthersKeep ==
  ASSUME TypeOK, NEW h \in Handlers, HandlerStep(h), NEW g \in Handlers, g # h
  PROVE  pc'[g] = pc[g] /\ block'[g] = block[g] /\ unit'[g] = unit[g]
BY DEF HandlerStep, RequestBegin, ReadProject, ReadExpired, InsertUnit, AdvanceNextBlock,
       Track, Respond, ReportBegin, MarkOutstanding, MarkUnit, SetPrivateKey, Acknowledge, Fail,
       Goto, Return, locals, TypeOK

\* What can be given out again stays so: Track writes the row, and who dies
\* before it is remembered.
LEMMA KeptPersists ==
  ASSUME IInv, [Next]_vars, NEW b \in Int, Kept(b)
  PROVE  Kept(b)'
<1> USE DEF IInv, TypeOK, Kept, Recoverable
<1>1. Persists /\ stranded \subseteq stranded'
  BY PersistStep, StrandedGrows
<1>2. CASE b \in stranded
  BY <1>1, <1>2
<1>3. ASSUME NEW u \in Units, Created(u), unitBlock[u] = b, outStatus[u] # "none"
      PROVE  Kept(b)'
  BY <1>1, <1>3 DEF Persists
<1>4. ASSUME NEW u \in Units, Created(u), unitBlock[u] = b, outStatus[u] = "none",
             NEW h \in Handlers, pc[h] = "track", unit[h] = u
      PROVE  Kept(b)'
  <2>1. Created(u)' /\ unitBlock'[u] = b
    BY <1>1, <1>4 DEF Persists
  <2>2. CASE pc'[h] = "track" /\ unit'[h] = u
    BY <1>4, <2>1, <2>2
  <2>3. CASE Track(h)
    <3>1. outStatus'[u] = "running"
      BY <1>4, <2>3 DEF Track
    <3> QED BY <2>1, <3>1
  <2>4. CASE Fail(h)
    <3>1. unitBlock[unit[h]] \in stranded'
      BY <1>4, <2>4 DEF Fail, Die
    <3> QED BY <1>4, <3>1
  <2>5. CASE Crash
    <3>1. unitBlock[unit[h]] \in stranded'
      BY <1>4, <2>5 DEF Crash, Die
    <3> QED BY <1>4, <3>1
  <2>6. ASSUME NEW g \in Handlers, HandlerStep(g)
        PROVE  Kept(b)'
    <3>1. CASE g # h
      BY <1>4, <2>2, <2>6, <3>1, OthersKeep
    <3>2. CASE g = h
      <4>1. Track(h) \/ Fail(h)
        BY <1>4, <2>6, <3>2 DEF HandlerStep, RequestBegin, ReadProject, ReadExpired, InsertUnit,
             AdvanceNextBlock, Respond, ReportBegin, MarkOutstanding, MarkUnit, SetPrivateKey,
             Acknowledge
      <4> QED BY <2>3, <2>4, <4>1
    <3> QED BY <3>1, <3>2
  <2>7. CASE UNCHANGED vars \/ \E v \in Units : Lapse(v)
    <3>1. pc' = pc /\ unit' = unit
      BY <2>7 DEF vars, Lapse, locals
    <3> QED BY <1>4, <2>2, <3>1
  <2> QED BY <2>5, <2>6, <2>7, NextSplit
<1> QED BY <1>2, <1>3, <1>4

LEMMA KeptStep ==
  ASSUME IInv, KeptInv, [Next]_vars
  PROVE  KeptInv'
<1> USE DEF IInv, TypeOK
<1>0. nextBlock \in Int /\ \A h \in Handlers : block[h] \in Int
  BY NumBlocksAssumption DEF Blocks
<1>1. \A b \in 0 .. nextBlock - 1 : Kept(b)'
  <2>1. \A b \in 0 .. nextBlock - 1 : b \in Int /\ Kept(b)
    BY DEF KeptInv, NoBlockStranded, Kept
  <2> QED BY <2>1, KeptPersists
<1>2. ASSUME NEW g \in Handlers, InFlight(g), NEW b \in 0 .. block[g] - 1
      PROVE  Kept(b)'
  <2>1. b \in Int /\ Kept(b)
    BY <1>2 DEF KeptInv
  <2> QED BY <2>1, KeptPersists
<1>3. NoBlockStranded'
  <2>1. CASE nextBlock' = nextBlock
    BY <1>1, <2>1 DEF NoBlockStranded, Kept
  <2>2. ASSUME NEW h \in Handlers, AdvanceNextBlock(h)
        PROVE  NoBlockStranded'
    <3>1. /\ pc[h] = "advance" /\ nextBlock' = block[h] + 1
          /\ unit[h] \in Units /\ Created(unit[h]) /\ unitBlock[unit[h]] = block[h]
          /\ pc'[h] = "track" /\ UNCHANGED <<unit, unitStatus, unitBlock>>
      BY <2>2 DEF AdvanceNextBlock, HandlersOK, RequestOK, Goto, locals, workUnits
    <3>2. Recoverable(unit[h])' /\ unitBlock'[unit[h]] = block[h]
      BY <3>1 DEF Recoverable, Created
    <3>3. \A b \in 0 .. block[h] - 1 : Kept(b)'
      BY <1>2, <3>1 DEF InFlight
    <3>4. ASSUME NEW b \in 0 .. nextBlock' - 1
          PROVE  Kept(b)'
      <4>1. b = block[h] \/ b \in 0 .. block[h] - 1
        BY <1>0, <3>1
      <4>2. CASE b = block[h]
        <5>1. PICK v \in Units : v = unit[h]
          BY <3>1
        <5>2. Recoverable(v)' /\ unitBlock'[v] = b
          BY <3>1, <3>2, <4>2, <5>1 DEF Recoverable, Created
        <5> QED BY <5>2 DEF Kept
      <4> QED BY <3>3, <4>1, <4>2
    <3>5. \A b \in 0 .. nextBlock' - 1 : Kept(b)'
      BY <3>4
    <3> QED BY <3>5 DEF NoBlockStranded, Kept
  <2> QED BY <2>1, <2>2, Writers
<1>4. ASSUME NEW g \in Handlers, InFlight(g)', NEW b \in 0 .. block'[g] - 1
      PROVE  Kept(b)'
  <2>1. CASE InFlight(g) /\ block'[g] = block[g]
    BY <1>2, <1>4, <2>1
  <2>2. CASE block'[g] = nextBlock
    BY <1>1, <1>4, <2>2
  <2>3. ASSUME NEW h \in Handlers, HandlerStep(h)
        PROVE  (InFlight(g) /\ block'[g] = block[g]) \/ block'[g] = nextBlock
    <3>1. CASE g # h
      BY <1>4, <2>3, <3>1, OthersKeep DEF InFlight
    <3>2. CASE g = h
      BY <1>4, <2>3, <3>2 DEF InFlight, HandlerStep, RequestBegin, ReadProject, ReadExpired,
           InsertUnit, AdvanceNextBlock, Track, Respond, ReportBegin, MarkOutstanding, MarkUnit,
           SetPrivateKey, Acknowledge, Fail, Goto, Return, locals
    <3> QED BY <3>1, <3>2
  <2>4. CASE Crash
    BY <1>4, <2>4 DEF Crash, InFlight
  <2>5. CASE UNCHANGED vars \/ \E u \in Units : Lapse(u)
    BY <1>4, <2>1, <2>5 DEF vars, Lapse, locals, InFlight
  <2> QED BY <2>1, <2>2, <2>3, <2>4, <2>5, NextSplit
<1> QED BY <1>3, <1>4 DEF KeptInv

\* Only a request that dies between its second and its third commit leaves a
\* block below next_block that no expiry brings back.
THEOREM NoBlockStrandedThm == Spec => []NoBlockStranded
<1>1. Init => KeptInv
  BY DEF Init, KeptInv, NoBlockStranded, InFlight
<1>2. IInv /\ KeptInv /\ [Next]_vars => KeptInv'
  BY KeptStep
<1>3. KeptInv => NoBlockStranded
  BY DEF KeptInv
<1> QED BY <1>1, <1>2, <1>3, Invariance, PTL DEF Spec

-----------------------------------------------------------------------------
\* A unit that is not contested is given out, or given out again, only while
\* it is not finished and nobody is finishing it, and its OutstandingWork row
\* is done before its WorkUnits row.
RetiredInv ==
  /\ FinishedIsRetired
  /\ \A u \in Units \ contested : \A h \in Handlers :
       /\ GivingOut(h, u) =>
            unitStatus[u] # "done" /\ \A g \in Handlers : ~Finishing(g, u)
       /\ Finishing(h, u) /\ pc[h] = "markUnit" => outStatus[u] = "done"

LEMMA ContestedGrows ==
  ASSUME [Next]_vars
  PROVE  contested \subseteq contested'
<1> USE DEF rest, answers, accidents, bounds
<1>1. ASSUME NEW h \in Handlers, HandlerStep(h)
      PROVE  contested \subseteq contested'
  <2>1. CASE ReadExpired(h)
    <3>1. \/ contested' = contested
          \/ \E u \in Units : contested' = contested \cup {u}
      BY <2>1 DEF ReadExpired, Expired
    <3> QED BY <3>1
  <2>2. CASE \E w \in issued : ReportBegin(h, w)
    <3>1. contested' = contested \/ \E u : contested' = contested \cup {u}
      BY <2>2 DEF ReportBegin
    <3> QED BY <3>1
  <2> QED BY <1>1, <2>1, <2>2 DEF HandlerStep, RequestBegin, ReadProject, InsertUnit,
       AdvanceNextBlock, Track, Respond, MarkOutstanding, MarkUnit, SetPrivateKey, Acknowledge,
       Fail
<1>2. CASE UNCHANGED vars \/ Crash \/ \E u \in Units : Lapse(u)
  BY <1>2 DEF vars, Crash, Lapse
<1> QED BY <1>1, <1>2, NextSplit

\* How a handler comes to give a unit out: it makes it, finds it expired, or
\* has had it in hand before.
LEMMA GivingOutStep ==
  ASSUME IInv, [Next]_vars, NEW u \in Units, NEW h \in Handlers, GivingOut(h, u)'
  PROVE  \/ GivingOut(h, u)
         \/ InsertUnit(h) /\ ~Created(u)
         \/ ReadExpired(h) /\ outStatus[u] = "expired"
                           /\ ((\E g \in Handlers : Finishing(g, u)) => u \in contested')
<1> USE DEF IInv, TypeOK, GivingOut
<1>1. ASSUME NEW f \in Handlers, HandlerStep(f), f # h
      PROVE  GivingOut(h, u)
  BY <1>1, OthersKeep
<1>2. CASE InsertUnit(h)
  BY <1>2 DEF InsertUnit, Created
<1>3. CASE ReadExpired(h)
  <2>1. PICK v \in Expired :
          /\ unit' = [unit EXCEPT ![h] = v]
          /\ contested' = IF \E g \in Handlers : Finishing(g, v)
                          THEN contested \cup {v} ELSE contested
    BY <1>3 DEF ReadExpired, Goto, Return
  <2>2. v = u /\ outStatus[u] = "expired"
    BY <2>1 DEF Expired
  <2> QED BY <1>3, <2>1, <2>2
<1>4. CASE HandlerStep(h) /\ ~InsertUnit(h) /\ ~ReadExpired(h)
  BY <1>4 DEF HandlerStep, RequestBegin, ReadProject, AdvanceNextBlock, Track, Respond,
       ReportBegin, MarkOutstanding, MarkUnit, SetPrivateKey, Acknowledge, Fail, Goto, Return, locals
<1>5. CASE UNCHANGED vars \/ Crash \/ \E v \in Units : Lapse(v)
  BY <1>5 DEF vars, Crash, Lapse, locals
<1> QED BY <1>1, <1>2, <1>3, <1>4, <1>5, NextSplit

\* How a handler comes to finish a unit: it begins a report, which contests
\* the unit if a request is giving it out, or it was at it before.
LEMMA FinishingStep ==
  ASSUME IInv, [Next]_vars, NEW u \in Units, NEW h \in Handlers, Finishing(h, u)'
  PROVE  \/ Finishing(h, u) /\ (pc'[h] = pc[h] \/ MarkOutstanding(h))
         \/ /\ pc'[h] = "markOutstanding"
            /\ \E w \in issued : w.unit = u /\ ReportBegin(h, w)
            /\ (\E g \in Handlers : GivingOut(g, u)) => u \in contested'
<1> USE DEF IInv, TypeOK, Finishing
<1>1. ASSUME NEW f \in Handlers, HandlerStep(f), f # h
      PROVE  Finishing(h, u) /\ pc'[h] = pc[h]
  BY <1>1, OthersKeep
<1>2. ASSUME NEW w \in issued, ReportBegin(h, w)
      PROVE  /\ pc'[h] = "markOutstanding" /\ w.unit = u
             /\ (\E g \in Handlers : GivingOut(g, u)) => u \in contested'
  <2>1. w.unit = u /\ pc'[h] = "markOutstanding"
    BY <1>2 DEF ReportBegin, Goto
  <2> QED BY <1>2, <2>1 DEF ReportBegin
<1>3. CASE MarkOutstanding(h)
  BY <1>3 DEF MarkOutstanding, Goto, locals
<1>4. CASE HandlerStep(h) /\ ~MarkOutstanding(h) /\ ~(\E w \in issued : ReportBegin(h, w))
  BY <1>4 DEF HandlerStep, RequestBegin, ReadProject, ReadExpired, InsertUnit, AdvanceNextBlock,
       Track, Respond, MarkUnit, SetPrivateKey, Acknowledge, Fail, Goto, Return, locals
<1>5. CASE UNCHANGED vars \/ Crash \/ \E v \in Units : Lapse(v)
  BY <1>5 DEF vars, Crash, Lapse, locals
<1> QED BY <1>1, <1>2, <1>3, <1>4, <1>5, NextSplit

\* Only MarkUnit finishes a unit, and only Track takes a done row back.
LEMMA StatusStep ==
  ASSUME IInv, [Next]_vars, NEW u \in Units
  PROVE  /\ unitStatus'[u] = "done" =>
              unitStatus[u] = "done" \/ \E h \in Handlers : Finishing(h, u) /\ pc[h] = "markUnit"
         /\ outStatus[u] = "done" =>
              outStatus'[u] = "done" \/ \E h \in Handlers : GivingOut(h, u)
<1> USE DEF IInv, TypeOK, Finishing, GivingOut, workUnits, outstanding
<1>1. ASSUME NEW h \in Handlers, HandlerStep(h)
      PROVE  /\ unitStatus'[u] = "done" =>
                  unitStatus[u] = "done" \/ (Finishing(h, u) /\ pc[h] = "markUnit")
             /\ outStatus[u] = "done" => outStatus'[u] = "done" \/ GivingOut(h, u)
  <2>1. CASE RequestBegin(h) \/ \E w \in issued : ReportBegin(h, w)
    BY <2>1 DEF RequestBegin, ReportBegin, CleanupExpired
  <2>2. CASE InsertUnit(h)
    BY <2>2 DEF InsertUnit
  <2>3. CASE Track(h) \/ MarkOutstanding(h)
    BY <2>3 DEF Track, MarkOutstanding
  <2>4. CASE MarkUnit(h)
    BY <2>4 DEF MarkUnit
  <2>5. CASE UNCHANGED <<unitStatus, outStatus>>
    BY <2>5
  <2> QED BY <1>1, <2>1, <2>2, <2>3, <2>4, <2>5 DEF HandlerStep, ReadProject, ReadExpired,
        AdvanceNextBlock, Respond, SetPrivateKey, Acknowledge, Fail
<1>2. CASE UNCHANGED vars \/ Crash \/ \E v \in Units : Lapse(v)
  BY <1>2 DEF vars, Crash, Lapse
<1> QED BY <1>1, <1>2, NextSplit

\* A report that is under way is one of a unit that was given out.
LEMMA FinishingIsIssued ==
  ASSUME IInv, NEW u \in Units, NEW h \in Handlers, Finishing(h, u)
  PROVE  Created(u) /\ outStatus[u] # "none"
<1>1. [unit |-> u, block |-> block[h]] \in issued
  BY DEF IInv, HandlersOK, ReportOK, Finishing
<1>2. [unit |-> u, block |-> block[h]].unit = u
  OBVIOUS
<1> QED BY <1>1, <1>2 DEF IInv, IssuedIsTracked

LEMMA RetiredStep ==
  ASSUME IInv, RetiredInv, [Next]_vars
  PROVE  RetiredInv'
<1> USE DEF RetiredInv, FinishedIsRetired
<1> SUFFICES ASSUME NEW u \in Units, u \notin contested'
             PROVE  /\ unitStatus'[u] = "done" => outStatus'[u] = "done"
                    /\ \A h \in Handlers :
                         /\ GivingOut(h, u)' =>
                              unitStatus'[u] # "done" /\ \A g \in Handlers : ~Finishing(g, u)'
                         /\ Finishing(h, u)' /\ pc'[h] = "markUnit" => outStatus'[u] = "done"
  OBVIOUS
<1>1. u \notin contested
  BY ContestedGrows
<1>2. \A h \in Handlers : pc[h] = "markUnit" /\ Finishing(h, u) =>
        outStatus[u] = "done" /\ \A g \in Handlers : ~GivingOut(g, u)
  BY <1>1
<1>3. unitStatus[u] = "done" =>
        outStatus[u] = "done" /\ \A g \in Handlers : ~GivingOut(g, u)
  BY <1>1
<1>4. unitStatus'[u] = "done" => outStatus'[u] = "done"
  BY <1>2, <1>3, StatusStep
<1>5. ASSUME NEW h \in Handlers, GivingOut(h, u)'
      PROVE  unitStatus'[u] # "done"
  <2>1. CASE GivingOut(h, u)
    BY <1>2, <1>3, <2>1, StatusStep
  <2>2. CASE InsertUnit(h) /\ ~Created(u)
    <3>1. \A g \in Handlers : ~Finishing(g, u)
      BY <2>2, FinishingIsIssued
    <3> QED BY <2>2, <3>1, StatusStep DEF Created
  <2>3. CASE outStatus[u] = "expired" /\ \A g \in Handlers : ~Finishing(g, u)
    BY <1>3, <2>3, StatusStep
  <2> QED BY <1>5, <2>1, <2>2, <2>3, GivingOutStep
<1>6. ASSUME NEW h \in Handlers, GivingOut(h, u)', NEW g \in Handlers, Finishing(g, u)'
      PROVE  FALSE
  <2>1. CASE GivingOut(h, u)
    BY <1>1, <1>6, <2>1, FinishingStep
  <2>2. CASE ~GivingOut(h, u)
    <3>1. \A f \in Handlers : ~Finishing(f, u)
      BY <1>6, <2>2, GivingOutStep, FinishingIsIssued
    <3>2. /\ InsertUnit(h) \/ ReadExpired(h)
          /\ \E w \in issued : ReportBegin(g, w)
      BY <1>6, <2>2, <3>1, GivingOutStep, FinishingStep
    <3> QED BY <3>2 DEF InsertUnit, ReadExpired, ReportBegin, Goto, Return, IInv, TypeOK
  <2> QED BY <2>1, <2>2
<1>7. ASSUME NEW h \in Handlers, Finishing(h, u)', pc'[h] = "markUnit"
      PROVE  outStatus'[u] = "done"
  <2>1. CASE MarkOutstanding(h) /\ Finishing(h, u)
    BY <2>1 DEF MarkOutstanding, Finishing, IInv, TypeOK
  <2>2. CASE Finishing(h, u) /\ pc'[h] = pc[h]
    BY <1>2, <1>7, <2>2, StatusStep
  <2> QED BY <1>7, <2>1, <2>2, FinishingStep
<1> QED BY <1>4, <1>5, <1>6, <1>7

\* However requests and reports interleave, fail and are repeated, a finished
\* unit goes out again only if a request read it as expired while its report
\* was under way, or the report began before the request wrote its row.
THEOREM FinishedIsRetiredThm == Spec => []FinishedIsRetired
<1>1. Init => RetiredInv
  BY DEF Init, RetiredInv, FinishedIsRetired, GivingOut, Finishing
<1>2. IInv /\ RetiredInv /\ [Next]_vars => RetiredInv'
  BY RetiredStep
<1>3. RetiredInv => FinishedIsRetired
  BY DEF RetiredInv
<1> QED BY <1>1, <1>2, <1>3, Invariance, PTL DEF Spec

-----------------------------------------------------------------------------
\* Of a block that is not disturbed, at most one request has the number in
\* hand, the others are ahead of it, and its unit is behind next_block unless
\* the request that made it is about to write next_block.
Making(h, u) == pc[h] = "advance" /\ unit[h] = u

AheadInv ==
  /\ OneUnitPerBlock
  /\ \A u \in Units : Created(u) /\ unitBlock[u] \notin disturbed =>
       /\ unitBlock[u] < nextBlock \/ \E g \in Handlers : Making(g, u)
       /\ \A g \in Handlers : InFlight(g) => Making(g, u) \/ unitBlock[u] < block[g]
  /\ \A h \in Handlers : InFlight(h) /\ block[h] \notin disturbed =>
       /\ block[h] <= nextBlock
       /\ \A g \in Handlers : InFlight(g) /\ g # h => block[h] < block[g]

LEMMA DisturbedGrows ==
  ASSUME [Next]_vars
  PROVE  disturbed \subseteq disturbed'
<1> USE DEF rest, answers, accidents, bounds
<1>1. ASSUME NEW h \in Handlers, HandlerStep(h)
      PROVE  disturbed \subseteq disturbed'
  <2>1. CASE ReadProject(h)
    <3>1. disturbed' = disturbed \/ disturbed' = disturbed \cup {nextBlock}
      BY <2>1 DEF ReadProject
    <3> QED BY <3>1
  <2> QED BY <1>1, <2>1 DEF HandlerStep, RequestBegin, ReadExpired, InsertUnit, AdvanceNextBlock,
       Track, Respond, ReportBegin, MarkOutstanding, MarkUnit, SetPrivateKey, Acknowledge, Fail,
       Die
<1>2. CASE UNCHANGED vars \/ Crash \/ \E u \in Units : Lapse(u)
  BY <1>2 DEF vars, Crash, Lapse, Die
<1> QED BY <1>1, <1>2, NextSplit

\* How a handler comes to have a block number in hand.
LEMMA InFlightStep ==
  ASSUME IInv, [Next]_vars, NEW h \in Handlers, InFlight(h)'
  PROVE  \/ InFlight(h) /\ block'[h] = block[h] /\ ~AdvanceNextBlock(h) /\ ~ReadProject(h)
         \/ /\ ReadProject(h)
            /\ ~InFlight(h)
            /\ block'[h] = nextBlock
            /\ \A g \in Handlers : InFlight(g) /\ block[g] <= nextBlock => nextBlock \in disturbed'
<1> USE DEF IInv, TypeOK, InFlight
<1>1. ASSUME NEW f \in Handlers, HandlerStep(f), f # h
      PROVE  InFlight(h) /\ block'[h] = block[h]
  BY <1>1, OthersKeep
<1>2. ~AdvanceNextBlock(h)
  BY DEF AdvanceNextBlock, Goto
<1>3. CASE ReadProject(h)
  BY <1>3 DEF ReadProject, Goto, Return
<1>4. CASE HandlerStep(h) /\ ~ReadProject(h)
  BY <1>4 DEF HandlerStep, RequestBegin, ReadExpired, InsertUnit, AdvanceNextBlock, Track, Respond,
       ReportBegin, MarkOutstanding, MarkUnit, SetPrivateKey, Acknowledge, Fail, Goto, Return, locals
<1>5. ASSUME UNCHANGED vars \/ Crash \/ \E v \in Units : Lapse(v)
      PROVE  InFlight(h) /\ block'[h] = block[h]
  BY <1>5 DEF vars, Crash, Lapse, locals
<1>6. CASE ~ReadProject(h)
  BY <1>1, <1>2, <1>4, <1>5, <1>6, NextSplit
<1> QED BY <1>3, <1>6

\* A handler makes a unit by InsertUnit, and has it in hand until it writes
\* next_block; a handler that dies before is remembered.
LEMMA MakingStep ==
  ASSUME IInv, [Next]_vars, NEW u \in Units
  PROVE  /\ Created(u)' => Created(u) \/ (\E h \in Handlers : InsertUnit(h) /\ Making(h, u)')
         /\ \A h \in Handlers : Making(h, u) =>
              Making(h, u)' \/ AdvanceNextBlock(h) \/ block[h] \in disturbed'
         /\ \A h \in Handlers : Making(h, u)' => Making(h, u) \/ (InsertUnit(h) /\ ~Created(u))
<1> USE DEF IInv, TypeOK, Making, Created
<1>1. ASSUME NEW h \in Handlers, HandlerStep(h)
      PROVE  Created(u)' => Created(u) \/ (InsertUnit(h) /\ Making(h, u)')
  <2>1. CASE InsertUnit(h)
    <3>1. PICK v \in Units : /\ unitStatus' = [unitStatus EXCEPT ![v] = "running"]
                             /\ unit' = [unit EXCEPT ![h] = v]
      BY <2>1 DEF InsertUnit
    <3>2. CASE v = u
      BY <2>1, <3>1, <3>2 DEF InsertUnit, Goto
    <3>3. CASE v # u
      BY <3>1, <3>3
    <3> QED BY <3>2, <3>3
  <2>2. CASE MarkUnit(h)
    <3>1. unit[h] \in Units /\ Created(unit[h])
      BY <2>2, FinishingIsIssued DEF MarkUnit, HandlersOK, ReportOK, Work, Finishing
    <3> QED BY <2>2, <3>1 DEF MarkUnit
  <2>3. CASE unitStatus' = unitStatus
    BY <2>3
  <2> QED BY <1>1, <2>1, <2>2, <2>3 DEF HandlerStep, RequestBegin, ReadProject, ReadExpired,
        AdvanceNextBlock, Track, Respond, ReportBegin, MarkOutstanding, SetPrivateKey, Acknowledge,
        Fail, workUnits
<1>2. ASSUME NEW f \in Handlers, HandlerStep(f), NEW h \in Handlers
      PROVE  /\ Making(h, u) => Making(h, u)' \/ AdvanceNextBlock(h) \/ block[h] \in disturbed'
             /\ Making(h, u)' => Making(h, u) \/ (InsertUnit(h) /\ ~Created(u))
  <2>1. CASE f # h
    BY <1>2, <2>1, OthersKeep
  <2>2. CASE Fail(h)
    BY <2>2 DEF Fail, Die, Goto, Return
  <2>3. CASE InsertUnit(h)
    BY <2>3 DEF InsertUnit
  <2>4. CASE f = h /\ ~Fail(h) /\ ~InsertUnit(h)
    BY <1>2, <2>4 DEF HandlerStep, RequestBegin, ReadProject, ReadExpired, AdvanceNextBlock, Track,
         Respond, ReportBegin, MarkOutstanding, MarkUnit, SetPrivateKey, Acknowledge, Goto, Return,
         locals
  <2> QED BY <1>2, <2>1, <2>2, <2>3, <2>4
<1>3. CASE Crash
  BY <1>3 DEF Crash, Die, workUnits
<1>4. CASE UNCHANGED vars \/ \E v \in Units : Lapse(v)
  BY <1>4 DEF vars, Lapse, locals, workUnits
<1> QED BY <1>1, <1>2, <1>3, <1>4, NextSplit

\* The unit that a handler is making is one of the block it has in hand.
LEMMA MakingIsOwn ==
  ASSUME IInv, NEW h \in Handlers, NEW u \in Units, Making(h, u)
  PROVE  InFlight(h) /\ Created(u) /\ unitBlock[u] = block[h]
BY DEF IInv, HandlersOK, RequestOK, Making, InFlight

LEMMA InsertIsFresh ==
  ASSUME IInv, AheadInv, NEW h \in Handlers, InsertUnit(h), block[h] \notin disturbed,
         NEW v \in Units, Created(v)
  PROVE  unitBlock[v] # block[h]
<1>1. InFlight(h) /\ ~Making(h, v) /\ block[h] \in Int
  BY NumBlocksAssumption DEF InsertUnit, InFlight, Making, IInv, TypeOK, Blocks
<1> QED BY <1>1 DEF AheadInv

LEMMA AheadStep ==
  ASSUME IInv, IInv', AheadInv, [Next]_vars
  PROVE  AheadInv'
<1> DEFINE Quiet(b) == b \notin disturbed'
<1>0. /\ nextBlock \in Int /\ nextBlock' \in Int
      /\ \A h \in Handlers : block[h] \in Int /\ block'[h] \in Int
      /\ \A u \in Units : unitBlock[u] \in Int /\ unitBlock'[u] \in Int
  BY NumBlocksAssumption DEF IInv, TypeOK, Blocks
<1>1. Persists /\ \A b : Quiet(b) => b \notin disturbed
  BY PersistStep, DisturbedGrows
\* In flight before and after, or a reader of next_block that nobody is behind.
<1>2. ASSUME NEW h \in Handlers, InFlight(h)'
      PROVE  \/ InFlight(h) /\ block'[h] = block[h] /\ ~AdvanceNextBlock(h) /\ ~ReadProject(h)
             \/ /\ ReadProject(h) /\ ~InFlight(h) /\ block'[h] = nextBlock /\ nextBlock' = nextBlock
                /\ Quiet(nextBlock) =>
                     \A g \in Handlers : InFlight(g) => nextBlock < block[g]
  BY <1>0, <1>2, InFlightStep DEF ReadProject, project
\* next_block stays, or is written by the only handler that may be behind it.
<1>3. ASSUME NEW h \in Handlers, AdvanceNextBlock(h)
      PROVE  nextBlock' = block[h] + 1 /\ InFlight(h) /\ ~InFlight(h)'
  BY <1>3 DEF AdvanceNextBlock, InFlight, IInv, TypeOK, Goto
<1>4. ASSUME NEW h \in Handlers, InFlight(h)', Quiet(block'[h])
      PROVE  /\ block'[h] <= nextBlock'
             /\ \A g \in Handlers : InFlight(g)' /\ g # h => block'[h] < block'[g]
  <2>1. CASE InFlight(h) /\ block'[h] = block[h] /\ ~AdvanceNextBlock(h)
    <3>1. /\ block[h] <= nextBlock
          /\ \A g \in Handlers : InFlight(g) /\ g # h => block[h] < block[g]
      BY <1>1, <1>4, <2>1 DEF AheadInv
    <3>2. block[h] <= nextBlock'
      BY <1>0, <1>3, <2>1, <3>1, Writers
    <3>3. ASSUME NEW g \in Handlers, InFlight(g)', g # h
          PROVE  block[h] < block'[g]
      <4>1. CASE InFlight(g) /\ block'[g] = block[g]
        BY <3>1, <3>3, <4>1
      <4>2. CASE /\ block'[g] = nextBlock
                 /\ Quiet(nextBlock) =>
                      \A f \in Handlers : InFlight(f) => nextBlock < block[f]
        BY <1>0, <1>4, <2>1, <3>1, <4>2
      <4> QED BY <1>2, <3>3, <4>1, <4>2
    <3> QED BY <2>1, <3>2, <3>3
  <2>2. CASE ReadProject(h) /\ block'[h] = nextBlock /\ nextBlock' = nextBlock
             /\ \A g \in Handlers : InFlight(g) => nextBlock < block[g]
    <3>1. ASSUME NEW g \in Handlers, InFlight(g)', g # h
          PROVE  InFlight(g) /\ block'[g] = block[g]
      <4>1. ~ReadProject(g)
        BY <2>2, <3>1 DEF ReadProject, Goto, Return, IInv, TypeOK
      <4> QED BY <1>2, <3>1, <4>1
    <3> QED BY <1>0, <2>2, <3>1
  <2> QED BY <1>2, <1>4, <2>1, <2>2
<1>5. ASSUME NEW u \in Units, Created(u)', Quiet(unitBlock'[u])
      PROVE  /\ unitBlock'[u] < nextBlock' \/ \E g \in Handlers : Making(g, u)'
             /\ \A g \in Handlers : InFlight(g)' => Making(g, u)' \/ unitBlock'[u] < block'[g]
  <2>1. ASSUME NEW h \in Handlers, Making(h, u)'
        PROVE  \A g \in Handlers : InFlight(g)' => g = h \/ unitBlock'[u] < block'[g]
    <3>1. InFlight(h)' /\ unitBlock'[u] = block'[h]
      BY <2>1 DEF IInv, HandlersOK, RequestOK, Making, InFlight
    <3> QED BY <1>4, <1>5, <3>1
  <2>2. CASE \E h \in Handlers : Making(h, u)'
    BY <2>1, <2>2
  <2>3. CASE ~(\E h \in Handlers : Making(h, u)')
    <3>1. Created(u) /\ unitBlock'[u] = unitBlock[u]
      BY <1>1, <1>5, <2>3, MakingStep DEF Persists
    <3>2. /\ unitBlock[u] < nextBlock \/ \E g \in Handlers : Making(g, u)
          /\ \A g \in Handlers : InFlight(g) => Making(g, u) \/ unitBlock[u] < block[g]
      BY <1>1, <1>5, <3>1 DEF AheadInv
    <3>3. \A h \in Handlers : Making(h, u) => AdvanceNextBlock(h) /\ block[h] = unitBlock[u]
      BY <1>5, <2>3, <3>1, MakingStep, MakingIsOwn
    <3>4. unitBlock[u] < nextBlock'
      <4>1. ASSUME NEW h \in Handlers, Making(h, u)
            PROVE  unitBlock[u] < nextBlock'
        BY <1>0, <1>3, <3>3, <4>1
      <4>2. CASE unitBlock[u] < nextBlock /\ nextBlock' = nextBlock
        BY <4>2
      <4>3. ASSUME NEW h \in Handlers, AdvanceNextBlock(h), ~Making(h, u)
            PROVE  unitBlock[u] < nextBlock'
        <5>1. nextBlock' = block[h] + 1 /\ unitBlock[u] < block[h]
          BY <1>3, <3>2, <4>3
        <5> QED BY <1>0, <5>1
      <4> QED BY <3>2, <4>1, <4>2, <4>3, Writers
    <3>5. ASSUME NEW g \in Handlers, InFlight(g)'
          PROVE  unitBlock[u] < block'[g]
      <4>1. CASE InFlight(g) /\ block'[g] = block[g] /\ ~AdvanceNextBlock(g)
        BY <3>2, <3>3, <4>1
      <4>2. CASE ReadProject(g) /\ block'[g] = nextBlock /\ nextBlock' = nextBlock
        BY <3>4, <4>2
      <4> QED BY <1>2, <3>5, <4>1, <4>2
    <3> QED BY <3>1, <3>4, <3>5
  <2> QED BY <2>2, <2>3
<1>6. ASSUME NEW u \in Units, NEW v \in Units, Created(u)', Created(v)',
             unitBlock'[u] = unitBlock'[v], Quiet(unitBlock'[u])
      PROVE  u = v
  <2>1. CASE Created(u) /\ Created(v)
    BY <1>1, <1>6, <2>1 DEF Persists, AheadInv, OneUnitPerBlock
  <2>2. ASSUME NEW x \in Units, NEW y \in Units, Created(x)', ~Created(x), Created(y),
               unitBlock'[x] = unitBlock'[y], Quiet(unitBlock'[x])
        PROVE  FALSE
    <3>1. PICK h \in Handlers : InsertUnit(h) /\ Making(h, x)'
      BY <2>2, MakingStep
    <3>2. unitBlock'[x] = block[h]
      <4>1. unitBlock'[x] = block'[h]
        BY <3>1 DEF IInv, HandlersOK, RequestOK, Making
      <4> QED BY <3>1, <4>1 DEF InsertUnit
    <3>3. unitBlock'[y] = unitBlock[y]
      BY <1>1, <2>2 DEF Persists
    <3> QED BY <1>1, <2>2, <3>1, <3>2, <3>3, InsertIsFresh
  <2>3. CASE ~Created(u) /\ ~Created(v)
    <3>1. PICK h \in Handlers : InsertUnit(h) /\ Making(h, u)'
      BY <1>6, <2>3, MakingStep
    <3>2. PICK g \in Handlers : InsertUnit(g) /\ Making(g, v)'
      BY <1>6, <2>3, MakingStep
    <3>3. g = h
      BY <3>1, <3>2 DEF InsertUnit, Goto, IInv, TypeOK
    <3> QED BY <3>1, <3>2, <3>3 DEF Making
  <2> QED BY <1>6, <2>1, <2>2, <2>3
<1> QED BY <1>4, <1>5, <1>6 DEF AheadInv, OneUnitPerBlock

\* A block gets a second unit only if its number was read while another
\* request had it or an earlier one in hand, or if the request that made the
\* first unit died before it wrote next_block: for any number of requests.
THEOREM OneUnitPerBlockThm == Spec => []OneUnitPerBlock
<1>1. Init => AheadInv
  BY DEF Init, AheadInv, OneUnitPerBlock, Created, InFlight
<1>2. IInv /\ IInv' /\ AheadInv /\ [Next]_vars => AheadInv'
  BY AheadStep
<1>3. AheadInv => OneUnitPerBlock
  BY DEF AheadInv
<1> QED BY <1>1, <1>2, <1>3, Invariance, PTL DEF Spec

=============================================================================
