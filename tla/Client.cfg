\* Two units of three items and one, two GPUs, a unit sent again, two faults of any kind.
SPECIFICATION FairSpec
CONSTANTS
  u1 = u1
  u2 = u2
  Units <- TwoUnits
  NumItems <- Sizes
  KeyItems <- KeyInFirst
  Slots = {s1, s2}
  NoUnit = NoUnit
  MaxSends = 3
  Faults <- AllFaults
  MaxFaults = 2
INVARIANTS TypeOK AcceptedIsSearched KeyIsReported NoDanglingItem DiskIsSearched ForgottenWasAnswered
PROPERTY UnitsGetDone
\* The client stops when it cannot start, and its threads wait for good when
\* a method has thrown with the mutex locked or everything is done.
CHECK_DEADLOCK FALSE
