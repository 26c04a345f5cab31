SPECIFICATION PathSpec
CONSTANTS
  N = 2
  Count = 2
  Blocks = 1
  MaxSteps = 40
  Word = 8
  Shared = {}
  Kernels <- GuardedStoreKernel
INVARIANTS
  Agreement
CHECK_DEADLOCK FALSE
