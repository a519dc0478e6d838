SPECIFICATION Spec
CONSTANTS
  f = f
  g = g
  h = h
  k = k
  usage = usage
  pred = pred
  eq = eq
  yocto = yocto
  result = result
  Indirect = Indirect
  Special = {h}
  MIN_INST_NUM_FOR_LOOP = 2
  Matches = {{}, {g}, {f, h}}
  GasFunc <- MCGasFunc
  GasModules <- MCGasModules
  PrivilegeFunc <- MCPrivilegeFunc
  PrivilegeModules <- MCPrivilegeModules
  ScanFunc <- MCScanFunc
  Jobs <- MCJobs
  CallFunc <- MCCallFunc
  Queries <- MCQueries
INVARIANTS
  TypeOK
  StorageGasReports
  PrivilegeReports
  ScanReports
  ReentrancyReports
  AnswersOneCall
PROPERTIES
  Termination
CHECK_DEADLOCK FALSE
