\* The four programs over up to three days, one of them without files, and three runs, under every fault.
SPECIFICATION Spec
CONSTANTS
  NDays = 3
  NoFiles = {3}
  Jobs = {"daily_audit", "daily_equality", "historical_audit", "historical_equality"}
  Existing = {"equality_managed"}
  Workers = 2
  Environment = {"process", "sql", "stop"}
  MaxRuns = 3
CHECK_DEADLOCK FALSE
INVARIANTS
  TypeOK
  NoPartOfADay
  SuccessIsPublished
  FailureIsContained
  AuditRowsOnce
  EqualityIsRepeatable
