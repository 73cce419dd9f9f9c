SPECIFICATION Spec
CONSTANTS
  order = order
  query = query
  Requests <- MCOrder
  Supervised = FALSE
  MaxFaults = 2
PROPERTY Reopens
CHECK_DEADLOCK FALSE
