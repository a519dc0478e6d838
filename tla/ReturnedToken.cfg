SPECIFICATION Spec
CONSTANTS
  Account = {a, b}
  Token = {t}
  Id = {i, j}
  MaxApprovals = 2
  NoOne = NoOne
PROPERTIES
  ReturnsRestoreApprovals
CHECK_DEADLOCK FALSE
