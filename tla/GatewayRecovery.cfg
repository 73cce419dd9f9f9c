SPECIFICATION FairSpec
CONSTANTS
  pair = pair
  NoGroup = NoGroup
  Groups <- MCPair
  Oco <- MCPair
  Volume = 1
  Prices <- MCWithin
  Maintained <- MCNone
  MaxDrops = 1
  MaxRestarts = 1
  MaxFeed = 1
CONSTRAINT OneFault
PROPERTIES PeerSettles PlacementEnds PursuitKept
CHECK_DEADLOCK FALSE
