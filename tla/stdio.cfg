SPECIFICATION StdioFairSpec
CONSTANTS
  n1 = n1
  r1 = r1
  r2 = r2
  rx = rx
  None = None
  Name <- OneName
  Rev <- TwoRevs
  NameOf <- TwoNameOf
  Valid <- TwoRevs
  Rank <- TwoRank
  Prec <- TwoPrec
  Content = {dA, dB}
  Call = {c1}
  FailPoints = {"read", "crash"}
  HardDeletes = FALSE
  MaxWrites = 3
  MaxFaults = 1
INVARIANTS
  SkipIsSafe
  InFlightAuthorized
PROPERTY Converges
