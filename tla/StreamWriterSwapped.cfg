SPECIFICATION Spec
CONSTANTS
  c1 = c1
  c2 = c2
  Callers = {c1, c2}
  MaxCall = 1
  IdRange = 8
INVARIANT OwnResult
CHECK_DEADLOCK FALSE
