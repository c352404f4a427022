\* Every block a project can have, until one has a key in no share.
SPECIFICATION Spec
CONSTANTS
  MaxKey = 2
  BlockSizes = {1, 2}
  ShareSizes = {2}
  Word = 8
INVARIANT EveryKeyHasAShare
