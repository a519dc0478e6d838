SPECIFICATION Spec
CONSTANTS
  f = f
  g = g
  h = h
  k = k
  pred = pred
  eq = eq
  yocto = yocto
  result = result
  Indirect = Indirect
  Func <- MCFunc
  Modules <- MCModules
INVARIANTS
  OnlyCallbacksSkipped
CHECK_DEADLOCK FALSE
