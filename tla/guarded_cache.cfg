SPECIFICATION Spec
CONSTANTS
  c1 = c1
  c2 = c2
  c3 = c3
  Call = {c1, c2, c3}
  Role = {"finance", "audit"}
  Token = {"t1"}
  Tools <- MCTools
  TokenRequests <- MCTokenRequests
  FlushRequests <- MCFlushRequests
  MaxCached = 2
  MaxTicks = 2
  MaxWrites = 2
SYMMETRY Symmetry
CHECK_DEADLOCK FALSE
INVARIANTS
  TypeOK
  RevocationIsImmediate
  AnswersAreAuthorized
  StaleOnlyByOverlap
