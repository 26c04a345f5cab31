\* Three threads, two blocks, a budget of eleven instructions per block: enough
\* for every thread to cross two barriers, for early exits at every point, for
\* the barrier to open over exited threads, and for the budget to run out.
CONSTANTS
  N = 3
  Blocks = 2
  MaxSteps = 11
SPECIFICATION FairSpec
INVARIANTS
  TypeOK
  SuccessMeansFinished
  SomeoneCanRun
  Synchronised
PROPERTIES
  BarrierSpec
  LaunchReturns
  ParkedIsReleased
CHECK_DEADLOCK FALSE
