\* Every project within 0 .. 9, every block of it and every set of finished shares.
SPECIFICATION Spec
CONSTANTS
  MaxKey = 9
  BlockSizes = {1, 2, 4, 8}
  ShareSizes = {1, 2, 3}
  Word = 8
INVARIANTS RangeIsShared AvailableIsUnfinished NumbersAreStable CompletedAreShares BlocksCoverKeyspace
PROPERTY Terminates
