SPECIFICATION HttpSpec
CONSTANTS
  n1 = n1
  r1 = r1
  r2 = r2
  rx = rx
  None = None
  Name <- OneName
  Rev <- ThreeRevs
  NameOf <- ThreeNameOf
  Valid <- TwoRevs
  Rank <- ThreeRank
  Prec <- ThreePrec
  Content = {dA}
  Call = {c1}
  FailPoints = {"admit", "read", "crash"}
  HardDeletes = TRUE
  MaxWrites = 4
  MaxFaults = 0
INVARIANT SkipIsSafe
