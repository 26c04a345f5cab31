CONSTANTS
  Bodies <- SomeBodies
  Regs <- MCRegs
  Weight <- MCWeight
  MaxPasses = 8
  IntRange = 1073741824
  StaticSizes = {0, 1000, 30000, 49153}
  DynamicSizes <- MCDynamic
  Limits = {0, 20, 700}
SPECIFICATION Spec
INVARIANTS Solved FewPasses NeverUndercounts SearchFindsBest GrantsTheMost
CHECK_DEADLOCK FALSE
