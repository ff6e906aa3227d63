\* Production: spark-submit may fail, flush-pushgateway may be stopped and the master node lost, over three launches.
SPECIFICATION DeliverySpec
CONSTANTS
  NSteps = 4
  StepName <- DeliveryStepName
  ResumeName <- DeliveryResumeName
  ShellSteps <- DeliveryShellSteps
  SubmitJob = 2
  Notify = 3
  SwitchedOff = {}
  OnFailContinue = {}
  FinalStep = "send_notification"
  MayFail = {2}
  MayCancel = {4}
  Environment = {"kill"}
  Lead = 2
  Attentive = FALSE
  MaxRuns = 3
  MaxParse = 0
  Wanted = {"c1"}
CHECK_DEADLOCK FALSE
INVARIANTS
  SkippedStepsWereDone
  CompletedIsComplete
  CompletedRowNamesDataset
  CompletedRowIsDelivered
  MessagesNameWholeDatasets
  CsvIsThere
PROPERTY ImplementsPipeline
