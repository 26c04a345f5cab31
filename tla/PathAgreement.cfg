SPECIFICATION FairPathSpec
CONSTANTS
  N = 3
  Count = 3
  Blocks = 1
  MaxSteps = 40
  Word = 8
  Shared = {4, 5, 6, 7}
  Kernels <- CheckedKernels
INVARIANTS
  Agreement
  ShuffleIsAnExchange
PROPERTIES
  BothEnd
CHECK_DEADLOCK FALSE
