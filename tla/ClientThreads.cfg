\* Two devices and a unit of one item, which an aborted worker gives back for another
\* one to take: a worker can end and start while the status thread reports.
SPECIFICATION FairSpec
CONSTANTS
  NumSlots = 2
  NumGpus = 2
  UnitItems = 1
  MaxUnits = 1
  NoSlot = 0
INVARIANTS LifetimesAreOrdered
PROPERTY ProgramEnds
\* The program has exited, or its behaviour is undefined.
CHECK_DEADLOCK FALSE
