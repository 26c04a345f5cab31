SPECIFICATION MCSpec
CONSTANTS
  Names = {"a", "b", "c", "d", "g", "x"}
  Modules <- StaticModules
  Texts <- MCTexts
  Malformed = "@p"
INVARIANTS
  ParsedAsWritten
  Disjoint
  InBounds
CHECK_DEADLOCK FALSE
