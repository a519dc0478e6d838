SPECIFICATION Spec
CONSTANTS
  Paired = {"unsafe-math", "storage-gas", "incorrect-json-type", "inconsistency"}
  Source <- MCSource
  Suffix <- MCSuffix
  Jobs <- MCJobs
INVARIANTS
  TypeOK
  FindingsReported
  NotesJustified
CHECK_DEADLOCK FALSE
