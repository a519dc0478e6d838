SPECIFICATION Spec
CONSTANTS
  f = f
  g = g
  h = h
  Matches = {{h}}
  Func <- MCFunc
  Queries <- MCQueries
INVARIANTS
  AnswersRecursively
CHECK_DEADLOCK FALSE
