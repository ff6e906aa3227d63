\* A full run under every fault but an unrecorded prefix.
SPECIFICATION FairSpec
CONSTANTS
  c1 = c1
  c2 = c2
  c3 = c3
  c4 = c4
  Secrets <- Two
  Exported <- TwoAndMore
  Incremental = FALSE
  Workers = 2
  Environment = {"process", "publish", "dks", "status", "prepare", "csv", "stop", "get", "clear", "sns"}
  MaxRuns = 3
CHECK_DEADLOCK FALSE
INVARIANTS
  TablesReadWholeData
  FailuresAreNotified
PROPERTY RunsEnd
