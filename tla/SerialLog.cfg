SPECIFICATION Spec
CONSTANTS
  Addr = {a1, a2}
  Null = Null
  MaxBlock = 2
  MaxBytes = 4
  MaxFiles = 3
INVARIANTS
  LogIsStream
  BlocksOnDisk
  DamageExplained
  MarkTold
CHECK_DEADLOCK FALSE
