SPECIFICATION FairSpec
CONSTANTS
  Dim = 4
  IdxMod = 8
  DataSize = 2
  CountSize = 2
  MaxTransfers = 9
  MaxLag = 6
INVARIANTS
  CountIsRead
  EmptyTestExact
  DisjointBlocks
  MaskIsSlot
PROPERTIES
  RefinesChannel
  EveryBlockPrinted
CHECK_DEADLOCK FALSE
