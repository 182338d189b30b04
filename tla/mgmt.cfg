SPECIFICATION FairSpec
CONSTANTS
  c1 = c1
  c2 = c2
  None = None
  Call = {c1, c2}
  Requests <- MCRequests
  Approvals <- MCApprovals
  Selections <- MCSelections
  Edits <- MCEdits
  MaxEdits = 1
INVARIANTS
  SpecificFailureMeansNoEffect
  SuccessIsAcknowledged
  EffectsAreSanctioned
  EffectsArePinned
PROPERTIES
  CallsAnswered
  SessionCloses
CHECK_DEADLOCK FALSE
