SPECIFICATION ContractSpec
CONSTANTS
  Account = {a, b, c}
  Token = {t}
  Id = {i, j}
  MaxApprovals = 2
  NoOne = NoOne
INVARIANTS
  TypeOK
  OwnersListed
  ApprovalIdsUnique
  EventsTellOwners
  DepositsCoverApprovals
PROPERTIES
  OwnerDecidesElsewhere
CHECK_DEADLOCK FALSE
