SPECIFICATION CallsSpec
CONSTANTS
  s1 = s1
  s2 = s2
  Nil = Nil
  Subs = {s1, s2}
  CloseFirst = {}
  MayQuit = {s1, s2}
  ConsumeMayFail = TRUE
  Unconvertible = {}
  MaxMsg = 1
  MaxSession = 1
SYMMETRY Symmetry
INVARIANTS CallsTypeOK NothingLeft FailureReported PanicOnlyAfterClose WaitEnds
PROPERTY ReturnedIsFinal
CHECK_DEADLOCK FALSE
