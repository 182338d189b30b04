SPECIFICATION HttpFairSpec
CONSTANTS
  n1 = n1
  r1 = r1
  r2 = r2
  rx = rx
  None = None
  Name <- OneName
  Rev <- TwoRevs
  NameOf <- TwoNameOf
  Valid <- TwoRevs
  Rank <- TwoRank
  Prec <- TwoPrec
  Content = {dA}
  Call = {c1, c2}
  FailPoints = {"admit", "read", "crash"}
  HardDeletes = TRUE
  MaxWrites = 3
  MaxFaults = 2
INVARIANT SkipIsSafe
PROPERTIES
  WithdrawalCompletes
  Converges
