SPECIFICATION HttpSpec
CONSTANTS
  n1 = n1
  r1 = r1
  r2 = r2
  rx = rx
  None = None
  Name <- OneName
  Rev <- ThreeRevs
  NameOf <- ThreeNameOf
  Valid <- TwoRevs
  Rank <- ThreeRank
  Prec <- ThreePrec
  Content = {dA, dB}
  Call = {c1}
  FailPoints = {"admit", "erase", "read", "crash"}
  HardDeletes = TRUE
  MaxWrites = 3
  MaxFaults = 1
INVARIANTS
  TypeOK
  RuntimeServesAdmitted
  DiscoveryMatchesRegistry
  OneServingRow
PROPERTIES
  ContentImmutable
  ImplementsAuthority
