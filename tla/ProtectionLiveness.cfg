SPECIFICATION MCFairSpec
CONSTANTS
  odd = odd
  even = even
  old = old
  new = new
  Approved <- MCIntents
  Holdings <- MCHeld
  NoProcess = NoProcess
  NoPosition = NoPosition
  Positions <- MCBoth
  Malformed <- MCOdd
  Processes <- MCSingle
  MaxFaults = 1
  MaxCrashes = 1
  MaxLosses = 0
  Workers <- MCSingle
  MaxContexts = 2
  Cooldown = 2
PROPERTIES UnprotectedHandled RequestsResume
CHECK_DEADLOCK FALSE
