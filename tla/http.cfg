SPECIFICATION FairSpec
CONSTANTS
  Conns = {c1, c2}
  Endpoints <- MCEndpoints
  BufferOf <- MCBufferOf
  Flash = {"rom"}
  MaxLength = 3
  SendBuffer = 2
  MaxWrite = 2
  MaxRetries = 3
  MaxRequest = 1
  MaxRuns = 3
  None = None
INVARIANTS AnswerIsWhole ActedOnOnce
PROPERTY ConnectionEnds
