SPECIFICATION PortSpec
CONSTANTS
  Ports = {1, 2, 3}
  MaxSize = 2
  MinName = 2
  MaxChanges = 2
INVARIANTS
  DeathExplained
  Released
  LeakExplained
CHECK_DEADLOCK FALSE
