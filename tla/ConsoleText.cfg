SPECIFICATION ConsoleSpec
CONSTANTS
  Bytes = {1, 2, 5}
  ByteMod = 8
  START = 5
  MsgSize = 5
  FilteredSize = 4
  FirstSize = 4
  MaxInput = 8
  Limit = 4
  ScrollLines = 1
  NL = 1
INVARIANTS
  TailKept
  MissingExplained
  ScrollTrimsOnce
CHECK_DEADLOCK FALSE
