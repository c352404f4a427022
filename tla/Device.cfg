\* Every item of keys up to 10, on three points, with kernels of one or two threads.
SPECIFICATION FairSpec
CONSTANTS
  NumPoints = 3
  Dims = {1, 2}
  MaxKey = 10
  MaxCalls = 1
INVARIANTS TypeOK FoundIsTarget TestedIsFound MissedAreFirstStride AbortedIsUnfinished
PROPERTY WorkerReturns
\* A search stops when it is over.
CHECK_DEADLOCK FALSE
