SPECIFICATION Spec
CONSTANTS
  t1 = t1
  tx = tx
  n1 = n1
  nx = nx
  p1 = p1
  sEnv = sEnv
  sFile = sFile
  b1 = b1
  None = None
  Tool <- OneTool
  NameOf <- OneNameOf
  Plugin = {p1}
  PluginSpec = {sEnv, sFile}
  RawAllowed = {sEnv}
  FileBacked = {sFile}
  Binding = {b1}
  Call = {c1, c2}
  Poison = {}
  Seed <- OneSeed
  FailPoints = {"flush", "save", "read", "crash"}
  HardDeletes = TRUE
  Persistent = FALSE
  MaxWrites = 4
  MaxFaults = 1
INVARIANTS
  TypeOK
  CacheMatchesSnapshot
  SnapshotMatchesStore
  NoOrphanBinding
