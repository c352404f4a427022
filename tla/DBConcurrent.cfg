\* Two requests at a time; a unit expires once, one failure or crash.
SPECIFICATION Spec
CONSTANTS
  Handlers = {h1, h2}
  Units = {u1, u2, u3}
  NoUnit = NoUnit
  NumBlocks = 2
  KeyBlock = 1
  MaxLapses = 1
  MaxFailures = 1
SYMMETRY Symmetry
INVARIANTS TypeOK NoBlockSkipped NoBlockStranded IssuedIsTracked OwnRangeUntilExpiry
           OneUnitPerBlock FinishedIsRetired DoneOnlyWhenFound AckedIsRecorded
PROPERTY LedgerSpec
