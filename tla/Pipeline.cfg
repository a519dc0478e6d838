SPECIFICATION Spec
CONSTANTS
  Run = {r1, r2}
  Bitcode = {b1, b2}
  Source = Source
  MaxSecond = 1
  Named = {"all", "high", "medium", "low", "info", "nep-ft", "nep-storage", "nep-nft", "round", "nep141-interface", "nep245-interface", "unknown"}
  Companions <- MCCompanions
  Arguments <- MCArguments
INVARIANTS
  TypeOK
  ReportComplete
  NoLeftovers
  ReportOwn
  DocumentedDetectorsMade
PROPERTIES
  EveryRunEnds
CHECK_DEADLOCK FALSE
