SPECIFICATION Spec
CONSTANTS
  main = main
  r = r
  a = a
  a2 = a2
  b = b
  c = c
  resident = resident
  PadA = 1
  PadMain = 0
  Main = main
  Fun <- Funs
  Calls <- CallPairs
  ObjOf <- Objects
  Module = {0, 1, 2}
  Resident = resident
  ModOf <- Modules
  Window = {0, 1}
  WinOf <- Windows
  Base <- LBase
  Size <- LSize
  Entry <- LEntry
  Stub <- LStub
  Check <- LCheck
  Image <- LImage
  Exe <- LExe
  Block <- LBlock
  TocOff <- LTocOff
  Depth = 8
INVARIANTS TypeOK WindowHolds ResidentIntact RightCode StackIsChain
PROPERTIES OnlyClashesEvict CallArrives
