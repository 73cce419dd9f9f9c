SPECIFICATION MCSpec
CONSTANTS
  odd = odd
  even = even
  old = old
  new = new
  Approved <- MCIntents
  Holdings <- MCHeld
  NoProcess = NoProcess
  NoPosition = NoPosition
  Positions <- MCEven
  Malformed <- MCNone
  Processes <- MCOverlap
  MaxFaults = 1
  MaxCrashes = 1
  MaxLosses = 1
  Workers <- MCOverlap
  MaxContexts = 2
  Cooldown = 2
SYMMETRY MCSymmetry
INVARIANTS CommandsBounded SpacedRequests TradedOrReplaced
PROPERTIES AmendmentsRestore ScalpTradedNewest
CHECK_DEADLOCK FALSE
