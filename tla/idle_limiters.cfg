SPECIFICATION Spec
CONSTANTS
  c1 = c1
  c2 = c2
  c3 = c3
  c4 = c4
  u = u
  v = v
  Call = {c1, c2, c3, c4}
  Principal = {u, v}
  MaxEntries = 1
  TTL = 0
  Burst = 2
  Deployments <- Unlimited
  Successors <- NoSuccessors
  MaxSwaps = 0
  MaxTicks = 3
  MaxExpiries = 1
  MaxAttempts = 2
  HalfOpenRequests = 1
  MinRequests = 2
SYMMETRY Symmetry
INVARIANT RateHolds
CHECK_DEADLOCK FALSE
