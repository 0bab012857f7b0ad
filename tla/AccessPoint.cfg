SPECIFICATION ServerFairSpec
CONSTANTS
  c1 = c1
  c2 = c2
  Callers = {c1, c2}
  MaxCall = 2
  IdRange = 2
  Tokens = {"root", "user1", "nobody"}
  Requests <- MCRequests
  Ids <- MCIds
  Lengths = {0, 3, 4}
  MaxChunkSize = 3
  MaxChunk = 2
  MaxAdd = 3
INVARIANTS ServerTypeOK ResultPerCaller UniqueIds OwnResultAlone ChunksApart OwnMessage
PROPERTIES PushReturns ImplementsTopics
CHECK_DEADLOCK FALSE
