SPECIFICATION Spec
CONSTANTS
  tick = tick
  post = post
  NoGroup = 0
  Nobody = Nobody
  Groups <- MCOne
  Callers <- MCCallers
  Schedulers <- MCSchedulers
PROPERTIES NoPermanentLoop
CHECK_DEADLOCK FALSE
