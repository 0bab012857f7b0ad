SPECIFICATION FairSpec
CONSTANTS
  Null = Null
  Tokens = {"root", "user1"}
  MayFail = TRUE
  MaxPost = 2
  MaxDecl = 1
  MaxChunk = 1
  MaxCrash = 1
  MaxRebalance = 1
INVARIANTS TypeOK StoredAsDeclared NothingLost NotificationOwed
PROPERTIES ImplementsPostStore ImplementsQueues VocalPublished PostStored
CHECK_DEADLOCK FALSE
