SPECIFICATION Spec
CONSTANTS
  GridSize = 2
  BlockSize = 2
  Cells = 3
  Parameter = 1
  MaxDepth = 2
  Kernels <- FlatKernels
INVARIANTS
  NoDangling
PROPERTIES
  LaunchSpec
CHECK_DEADLOCK FALSE
