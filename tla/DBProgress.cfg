\* One request at a time, no failure, no block holds the key; units expire three times.
SPECIFICATION FairSpec
CONSTANTS
  Handlers = {h1}
  Units = {u1, u2, u3}
  NoUnit = NoUnit
  NumBlocks = 2
  KeyBlock <- NoKey
  MaxLapses = 3
  MaxFailures = 0
PROPERTY ProjectFinishes
