SPECIFICATION ContractSpec
CONSTANTS
  Account = {a, b}
  Id = {i, j}
  MAX = 2
  MinStorage = 1
  MaxMinted = 3
INVARIANTS
  TypeOK
  SupplyIsSum
  DepositsHeld
  EventsTellBalances
PROPERTIES
  LedgerSpec
  AccountsJoin
  EveryCallResolves
CHECK_DEADLOCK FALSE
