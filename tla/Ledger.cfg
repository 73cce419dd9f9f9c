SPECIFICATION Spec
CONSTANTS
  buy = buy
  sell = sell
  loop = loop
  Legs <- MCPair
  Workers <- MCOne
  NoLeg = NoLeg
  Volume <- MCVolume
  MaxSent = 3
  Ends <- MCExpires
  MaxFaults = 0
  MaxMisses = 1
INVARIANTS RowsNeverLead EndedIsFlat TradesComplete
PROPERTIES ClosedStays IntactPairKept
CHECK_DEADLOCK FALSE
