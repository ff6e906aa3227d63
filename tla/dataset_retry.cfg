\* An incremental run, one collection without data: collections fail and are retried, messages about them are refused, the prefix goes unrecorded or is cleared.
SPECIFICATION Spec
CONSTANTS
  c1 = c1
  c2 = c2
  c3 = c3
  c4 = c4
  Secrets <- Three
  Exported <- Two
  Incremental = TRUE
  Workers = 2
  Environment = {"process", "publish", "csv", "norecord", "clear", "sns"}
  MaxRuns = 4
CHECK_DEADLOCK FALSE
INVARIANTS
  TypeOK
  RetryInvariant
  CsvNamesWholeDataset
  SuccessIsPublished
  FailureLeavesNoneBetween
PROPERTIES
  CompletedIsNotRepeated
  ImplementsDataset
SYMMETRY TwoSymmetry
