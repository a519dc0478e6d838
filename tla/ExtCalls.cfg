SPECIFICATION Spec
CONSTANTS
  f = f
  g = g
  h = h
  Special = {}
  MIN_INST_NUM_FOR_LOOP = 2
  Func <- MCFunc
  Jobs <- MCJobs
INVARIANTS
  AllInvocations
CHECK_DEADLOCK FALSE
