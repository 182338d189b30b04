SPECIFICATION Spec
CONSTANTS
  c1 = c1
  c2 = c2
  None = None
  Call = {c1}
  Requests <- ReadsOnly
  Approvals <- MCApprovals
  Selections <- OneSelection
  Edits <- MCEdits
  MaxEdits = 1
INVARIANT
  DenialsAreNamed
CHECK_DEADLOCK FALSE
