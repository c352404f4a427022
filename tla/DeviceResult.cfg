\* Items of one or two steps on two points, kernels of one thread.
SPECIFICATION Spec
CONSTANTS
  NumPoints = 2
  Dims = {1}
  MaxKey = 4
  MaxCalls = 0
INVARIANT ResultIsTarget
CHECK_DEADLOCK FALSE
