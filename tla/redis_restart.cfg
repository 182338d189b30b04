SPECIFICATION Spec
CONSTANTS
  t1 = t1
  tx = tx
  n1 = n1
  nx = nx
  p1 = p1
  sEnv = sEnv
  sFile = sFile
  b1 = b1
  None = None
  Tool <- OneTool
  NameOf <- OneNameOf
  Plugin = {p1}
  PluginSpec = {sEnv, sFile}
  RawAllowed = {sEnv}
  FileBacked = {sFile}
  Binding = {b1}
  Call = {c1}
  Poison = {}
  Seed <- OneSeed
  FailPoints = {"read", "crash"}
  HardDeletes = FALSE
  Persistent = TRUE
  MaxWrites = 3
  MaxFaults = 2
INVARIANT CacheFollowsStore
