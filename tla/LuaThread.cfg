SPECIFICATION FairSpec
CONSTANTS
  Addr = {a1, a2}
  Null = Null
  MaxRef = 2
  Endless = {}
  MaxCalls = 4
INVARIANTS
  NoLostRequest
  FetchedAsAsked
  AbortKillsOne
  AbortNamesState
  RunningTold
PROPERTIES
  RequestServed
  ResetEnds
  AbortStands
CHECK_DEADLOCK FALSE
