SPECIFICATION FairSpec
CONSTANTS
  s1 = s1
  s2 = s2
  Nil = Nil
  Subs = {s1, s2}
  CloseFirst = {}
  MayQuit = {}
  ConsumeMayFail = FALSE
  Unconvertible = {2}
  MaxMsg = 2
  MaxSession = 1
PROPERTY Delivered
CHECK_DEADLOCK FALSE
