SPECIFICATION FairSpec
CONSTANTS
  Null = Null
  Tokens = {"root"}
  MayFail = FALSE
  MaxPost = 1
  MaxDecl = 1
  MaxChunk = 1
  MaxCrash = 0
  MaxRebalance = 0
PROPERTY ChunkStored
CHECK_DEADLOCK FALSE
