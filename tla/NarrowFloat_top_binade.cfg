SPECIFICATION NarrowSpec
CONSTANT Conversions <- CarryConversions
INVARIANT SameNarrowBits
CHECK_DEADLOCK FALSE
