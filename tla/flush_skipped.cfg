SPECIFICATION Spec
CONSTANTS
  c1 = c1
  c2 = c2
  c3 = c3
  Call = {c1, c2}
  Role = {"finance", "audit"}
  Token = {"t1"}
  Tools <- FileBackedTools
  TokenRequests <- MCTokenRequests
  FlushRequests <- OneFlushRequest
  MaxCached = 2
  MaxTicks = 1
  MaxWrites = 1
CHECK_DEADLOCK FALSE
INVARIANT StaleOnlyByOverlap
