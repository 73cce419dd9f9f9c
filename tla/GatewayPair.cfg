SPECIFICATION Spec
CONSTANTS
  pair = pair
  NoGroup = NoGroup
  Groups <- MCPair
  Oco <- MCPair
  Volume = 2
  Prices <- MCWithin
  Maintained <- MCPair
  MaxDrops = 0
  MaxRestarts = 0
  MaxFeed = 1
INVARIANTS TypeOK SentOnce PeerPursued
PROPERTIES NeverErased NoBlindSecondLeg
CHECK_DEADLOCK FALSE
