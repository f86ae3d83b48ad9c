SPECIFICATION Spec
CONSTANTS
  CR = CR
  LF = LF
  CtrlZ = CtrlZ
  FF = FF
  EOF = EOF
  Byte = {CR, LF, CtrlZ}
  Gap = LF
  Disk = 2
  Sizes = {2}
  Chunk = 1
  DosErr = 1
  Rec = 2
  Records = 4
  Offsets <- Deltas
  PushBack = {CR}
  Faulty = TRUE
INVARIANTS TypeOK BufferCoherent
PROPERTIES IsByteStream SuccessLosesNothing FgetcDecodes
