\* Historical equality over two days: one fails, and the range is run again.
SPECIFICATION Spec
CONSTANTS
  NDays = 2
  NoFiles = {}
  Jobs = {"historical_equality"}
  Existing = {}
  Workers = 2
  Environment = {"process"}
  MaxRuns = 2
CHECK_DEADLOCK FALSE
INVARIANT EqualityRowsOnce
