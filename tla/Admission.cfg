SPECIFICATION Spec
CONSTANTS
  tick = tick
  post = post
  NoGroup = 0
  Nobody = Nobody
  Groups <- MCGroups
  Callers <- MCCallers
  Schedulers <- MCSchedulers
INVARIANT Covered
PROPERTIES KeepsPromise OperatorObeyed AnalysesEnd
CHECK_DEADLOCK FALSE
