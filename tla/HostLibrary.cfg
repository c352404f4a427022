\* Every number of nine bits; every key, with three base points and in a list.
SPECIFICATION FairSpec
CONSTANTS
  WordBits = 3
  NumWords = 3
  Base = 8
  M = 512
  C = 5
  P = 499
  N = 457
  CurveB = 11
  GX = 3
  GY = 176
  Radix = 5
  HashWords = 1
  Checksum <- ToyChecksum
  Bases = {1, 2, 455}
  KeyLists <- AllKeyLists
  Samples <- EdgeNumbers
  Items <- DeviceItems
  MemUsages <- DeviceMemUsages
  GlobalMem = 60
  MaxBuffer = 12
  CheckedPoints = 2
  InitThreads = 2
  GridSizes <- DeviceGrids
  BlockSizes <- DeviceBlocks
  RunsPerConfig = 2
  Times = {1, 2}
INVARIANTS ArithmeticIsExact InverseIsExact KeysAreMultiples TextsRoundTrip DeviceIsSetUp
PROPERTY InverseEnds
\* A call that has returned takes no more steps.
CHECK_DEADLOCK FALSE
