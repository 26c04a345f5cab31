SPECIFICATION ArithmeticSpec
CONSTANTS
  Byte = 2
  Programs <- AgreedPrograms
  Contents <- EdgeContents
  Conversions <- AgreedConversions
INVARIANTS
  SameBits
  RoundsAsAsked
  SameNarrowBits
PROPERTY
  MeansWhatPtxSays
CHECK_DEADLOCK FALSE
