SPECIFICATION Spec
CONSTANTS
  N = 4
  InLib = {2, 3, 4}
  Pub <- Publics
  Programs <- AllPrograms
  Forced <- OvlCheck
  Toupper <- Upper
  NUL = ""
  BufLen = 5
  Sizes <- AllSizes
  StackSize = 40
  Start <- Starts
  Sites <- AllSites
  LocSegs <- Segs
  SegSites <- AllSegSites
  CodeSizes = {65515}
INVARIANTS OverflowIsReported
