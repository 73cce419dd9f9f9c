SPECIFICATION Spec
CONSTANTS
  late = late
  again = again
  plain = plain
  deal = deal
  readiness = readiness
  code = code
  safety = safety
  Recovery = Recovery
  NoEvent = NoEvent
  NoFill = NoFill
  Events <- MCEvents
  Fills <- MCFills
  FillOf <- MCFillOf
  Codes <- MCCodes
  ReadinessCode = readiness
  Callers <- MCCallers
  MaxFlushes = 4
PROPERTIES LateDuplicateOnly
CHECK_DEADLOCK FALSE
