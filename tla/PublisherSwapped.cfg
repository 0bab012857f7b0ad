SPECIFICATION Spec
CONSTANTS
  Null = Null
  Tokens = {"root"}
  MayFail = FALSE
  MaxPost = 2
  MaxDecl = 2
  MaxChunk = 1
  MaxCrash = 0
  MaxRebalance = 0
INVARIANT OwnRow
CHECK_DEADLOCK FALSE
