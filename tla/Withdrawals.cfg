SPECIFICATION Spec
CONSTANTS
  Id = {i, j}
  Deposit = 3
  MaxPaid = 6
INVARIANTS
  TypeOK
  NeverOverpaid
  NeverForfeited
CHECK_DEADLOCK FALSE
