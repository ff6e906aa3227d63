\* Historical audit: a statement fails, and the next run finds the table of the day.
SPECIFICATION Spec
CONSTANTS
  NDays = 2
  NoFiles = {}
  Jobs = {"historical_audit"}
  Existing = {}
  Workers = 2
  Environment = {"sql"}
  MaxRuns = 2
CHECK_DEADLOCK FALSE
INVARIANT AuditIsRepeatable
