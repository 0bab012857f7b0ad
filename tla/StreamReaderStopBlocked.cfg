SPECIFICATION FairSpec
CONSTANTS
  s1 = s1
  Nil = Nil
  Subs = {s1}
  CloseFirst = {}
  MayQuit = {}
  ConsumeMayFail = FALSE
  Unconvertible = {}
  MaxMsg = 2
  MaxSession = 1
PROPERTY CloseReturns
CHECK_DEADLOCK FALSE
