SPECIFICATION Spec
CONSTANTS
  ByteSize = 4
  Lefts <- AllLongs
  Rights <- AllLongs
INVARIANT Computes
CHECK_DEADLOCK FALSE
