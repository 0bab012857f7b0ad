SPECIFICATION FairSpec
CONSTANTS
  h1 = h1
  Handlers = {h1}
  Writers = {"log", "messages", "posts", "notifier"}
  Async = {"log", "messages", "notifier"}
  MaxPush = 2
INVARIANTS TypeOK NothingHeld Released LogOutlives ReportsAccepted
PROPERTIES Settles FallsQuiet
CHECK_DEADLOCK FALSE
