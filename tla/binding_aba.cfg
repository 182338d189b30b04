SPECIFICATION FairSpec
CONSTANTS
  t1 = t1
  tx = tx
  n1 = n1
  nx = nx
  p1 = p1
  sEnv = sEnv
  sFile = sFile
  b1 = b1
  None = None
  Tool <- TwoTools
  NameOf <- TwoNameOf
  Plugin = {p1}
  PluginSpec = {sEnv, sFile}
  RawAllowed = {sEnv}
  FileBacked = {sFile}
  Binding = {b1}
  Call = {c1}
  Poison = {tx}
  Seed <- OneSeed
  FailPoints = {"flush", "read", "crash"}
  HardDeletes = TRUE
  Persistent = FALSE
  MaxWrites = 5
  MaxFaults = 1
INVARIANT SnapshotMatchesStore
