SPECIFICATION LifeFairSpec
CONSTANTS
  MaxLen = 1
  MaxMsgs = 2
  MayHang = TRUE
  MaxRecords = 1
  MaxEvents = 2
INVARIANTS
  PortOutlives
  WholeMessages
PROPERTIES
  ProgramEnds
  SendingEnds
CHECK_DEADLOCK FALSE
