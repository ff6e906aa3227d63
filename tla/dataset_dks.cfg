\* DKS does not answer for a collection.
SPECIFICATION Spec
CONSTANTS
  c1 = c1
  c2 = c2
  c3 = c3
  c4 = c4
  Secrets <- Three
  Exported <- Three
  Incremental = FALSE
  Workers = 2
  Environment = {"dks"}
  MaxRuns = 2
CHECK_DEADLOCK FALSE
INVARIANT SuccessIsPublished
