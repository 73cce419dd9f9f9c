SPECIFICATION MCSpec
CONSTANTS
  late = late
  again = again
  plain = plain
  deal = deal
  readiness = readiness
  code = code
  safety = safety
  Recovery = Recovery
  NoEvent = NoEvent
  NoFill = NoFill
  Events <- MCTwoEvents
  Fills <- MCFills
  FillOf <- MCFillOfTwo
  Codes <- MCCodes
  ReadinessCode = readiness
  Callers <- MCCallers
  MaxFlushes = 5
  first = first
  second = second
  Accountants <- MCAccountants
  Results <- MCResults
  Payments <- MCPayments
  MaxDays = 2
  MaxReadings = 3
  Stops <- MCStops
  Used <- MCUsed
  Rates <- MCRates
  MarginUsage = 100
  TickMoney = 10
  Conversion = 1
  Slip = 2
  Fee = 5
  MinimumFee = 20
  MinVolume = 1
  VolumeStep = 1
  MaxVolume = 6
SYMMETRY MCSymmetry
INVARIANTS TypeOK LargestVolume LossStaysFree
PROPERTIES FlushCovers OnlyEarlierFailures DailyLockHolds CapitalRatchets NeverEnlarged SingleCapped
CHECK_DEADLOCK FALSE
