SPECIFICATION Spec
CONSTANTS
  Kernels <- LosingKernels
  MaxSteps = 24
INVARIANT SameOutput
CHECK_DEADLOCK FALSE
