\* One request at a time, no failure, one expiry: the smallest case in which a
\* unit is given out a second time.
SPECIFICATION Spec
CONSTANTS
  Handlers = {h1}
  Units = {u1, u2, u3}
  NoUnit = NoUnit
  NumBlocks = 2
  KeyBlock = 1
  MaxLapses = 1
  MaxFailures = 0
INVARIANT FinishedIsSearched
