SPECIFICATION Spec
CONSTANTS
  f = f
  Others = {a, b}
  Depths = {2}
  Func <- MCFunc
  Searches <- MCSearches
INVARIANTS
  AllCallersFound
CHECK_DEADLOCK FALSE
