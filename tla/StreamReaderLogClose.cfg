SPECIFICATION Spec
CONSTANTS
  s1 = s1
  s2 = s2
  Nil = Nil
  Subs = {s1, s2}
  CloseFirst = {s1, s2}
  MayQuit = {}
  ConsumeMayFail = FALSE
  Unconvertible = {}
  MaxMsg = 1
  MaxSession = 1
INVARIANT CloseNeverPanics
CHECK_DEADLOCK FALSE
