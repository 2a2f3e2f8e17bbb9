SPECIFICATION Spec
CONSTANTS
  Addr = {a1, a2}
  Null = Null
  MaxRef = 2
  Endless = {}
  MaxCalls = 4
INVARIANTS
  HookByCount
CHECK_DEADLOCK FALSE
