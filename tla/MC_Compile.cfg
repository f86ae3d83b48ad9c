SPECIFICATION Spec
CONSTANTS
  ByteSize = 16
  FuncBufSize = 44
  LabelMax = 40
  Reach = 24
  PosMax = 32767
  StageSize = 100
  Extern <- Calls
  SwitchSize = 20
  QueueSize = 4
  ByteSyms = {24, 25}
  LitPool = 96
  External <- Outside
  Counter = 78
  Externs <- Effects
  CountAt = 78
  Programs <- SomePrograms
  Globals <- GlobalVars
  Memory <- Start
  StackTop = 200
  StaticBase = 84
  RefLow = 112
  RefTop = 200
INVARIANTS Accepted BehavesAsSource GivesBackTheStack NeverTraps StackDepthIsStatic ShortBranchesReach FramelessNeedsNoBP
PROPERTIES SizeNeverGrows Finishes
CHECK_DEADLOCK FALSE
