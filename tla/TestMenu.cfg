SPECIFICATION MenuFairSpec
CONSTANTS
  Addr = {a1, a2}
  Null = Null
  MaxRef = 1
  Endless = {}
  MaxCalls = 4
INVARIANTS
  StaleExplained
  MissingRefs
  AbortAims
PROPERTIES
  RefinesLuaThread
CHECK_DEADLOCK FALSE
