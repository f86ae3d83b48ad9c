SPECIFICATION Spec
CONSTANTS
  Sources <- MCSources
  ObjSize = 40
  FixSize = 60
  MAXSEG = 4
INVARIANTS
  TypeOK
  PassesAgree
  ImageIsWhole
  CodeMeansSource
  DataMeansSource
  FrontMatterIsTrue
  VerdictIsRight
PROPERTIES
  AssemblyEnds
