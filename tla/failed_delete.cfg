SPECIFICATION HttpFairSpec
CONSTANTS
  n1 = n1
  r1 = r1
  r2 = r2
  rx = rx
  None = None
  Name <- OneName
  Rev <- TwoRevs
  NameOf <- TwoNameOf
  Valid <- TwoRevs
  Rank <- TwoRank
  Prec <- TwoPrec
  Content = {dA}
  Call = {c1}
  FailPoints = {"erase"}
  HardDeletes = FALSE
  MaxWrites = 2
  MaxFaults = 1
PROPERTY StoredToolsRegistered
