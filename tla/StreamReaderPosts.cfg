SPECIFICATION Spec
CONSTANTS
  s1 = s1
  s2 = s2
  Nil = Nil
  Subs = {s1, s2}
  CloseFirst = {}
  MayQuit = {s1, s2}
  ConsumeMayFail = TRUE
  Unconvertible = {3}
  MaxMsg = 4
  MaxSession = 2
SYMMETRY Symmetry
INVARIANTS TypeOK RequestResponse ConsumerIffSubscribed DiesOfError OneSession ClosedQuiet PanicOnlyAfterClose NothingSkipped
PROPERTIES ImplementsFeed ImplementsQueues
CHECK_DEADLOCK FALSE
