SPECIFICATION HistorySpec
CONSTANTS
  Words = {reset, status}
  Spellings = {lower, upper}
  MaxSent = 4
INVARIANTS
  HistoryIsFirsts
  ButtonTellsList
CHECK_DEADLOCK FALSE
