SPECIFICATION Spec
CONSTANTS
  Bytes = {0, 1, 2, 5}
  ByteMod = 8
  START = 5
  MsgSize = 5
  FilteredSize = 4
  FirstSize = 5
  MaxInput = 8
INVARIANTS
  StreamIsBatch
  TextKept
  FrameInProgress
  OnlyFirstOverflows
