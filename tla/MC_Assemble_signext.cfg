SPECIFICATION Spec
CONSTANTS
  Sources <- WordNumbers
  ObjSize = 40
  FixSize = 60
  MAXSEG = 4
INVARIANT CodeMeansSource
