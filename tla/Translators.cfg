SPECIFICATION OneSpec
CONSTANTS
  Bodies <- WellLabelled
  Kernels <- AllKernels
  MaxSteps = 24
  Files <- AllFiles
  ThreadId = 3
  Turns = 2
INVARIANTS
  FlowPreserved
  OneTerminator
  SameOutput
  ValuesAreVisible
  SameAddresses
CHECK_DEADLOCK FALSE
