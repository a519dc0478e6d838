SPECIFICATION Spec
CONSTANTS
  x = x
  y = y
  s = s
  c = c
  p = p
  q = q
  Roots = {x, c}
  Modes = {"free", "restrict", "disable"}
  Value <- MCValue
  Jobs <- MCJobs
INVARIANTS
  TypeOK
  OnlyUsers
  NothingMissing
  OneActivation
PROPERTIES
  Termination
  ClosureSpec
CHECK_DEADLOCK FALSE
