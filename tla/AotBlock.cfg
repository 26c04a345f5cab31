CONSTANTS
  N = 4
  WarpSize = 2
  Count = 4
  Scripts <- UniformScripts
SPECIFICATION FairSpec
INVARIANTS
  TypeOK
  ReadsArePublished
  Synchronised
PROPERTIES
  BarrierSpec
  EveryThreadReturns
CHECK_DEADLOCK FALSE
