SPECIFICATION FairSpec
CONSTANTS
  Addr = {a1, a2}
  Null = Null
  MaxRef = 2
  Endless = {2}
  MaxCalls = 4
PROPERTIES
  AbortEnds
  SeenResetEnds
CHECK_DEADLOCK FALSE
