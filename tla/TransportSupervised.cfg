SPECIFICATION MCSpec
CONSTANTS
  order = order
  query = query
  Requests <- MCRequests
  Supervised = TRUE
  MaxFaults = 2
  NoGroup = NoGroup
  first = first
  second = second
INVARIANTS SentOnce NoneWaitsOnTheDead BelievesOnlyFed
PROPERTIES SendsOnlyLive StaleNeverDisturbs PromisesKept Reopens
CHECK_DEADLOCK FALSE
