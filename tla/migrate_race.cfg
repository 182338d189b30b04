SPECIFICATION Spec
CONSTANTS
  p1 = p1
  p2 = p2
  p3 = p3
  a = a
  b = b
  None = None
  Proc = {p1, p2, p3}
  Plan <- TwoMigrations
  Names = {a, b}
  GlobalNames = {a}
  MaxCrashes = 1
  MaxEdits = 1
PROPERTY
  ReplacedOnlyByForce
CHECK_DEADLOCK FALSE
