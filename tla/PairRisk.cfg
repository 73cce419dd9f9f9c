SPECIFICATION RiskSpec
CONSTANTS
  first = first
  second = second
  Accountants <- MCAccountants
  Results <- MCReduced
  Payments <- MCNone
  MaxDays = 1
  MaxReadings = 3
  Stops <- MCShort
  Used <- MCUnused
  Rates <- MCRate
  MarginUsage = 100
  TickMoney = 10
  Conversion = 1
  Slip = 2
  Fee = 5
  MinimumFee = 20
  MinVolume = 1
  VolumeStep = 1
  MaxVolume = 6
PROPERTY PairCapped
CHECK_DEADLOCK FALSE
