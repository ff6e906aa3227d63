\* Failing and stopped steps, lost and misread reads, commands that fail unnoticed, and two scripts that keep up with EMR.
SPECIFICATION StatusFairSpec
CONSTANTS
  NSteps = 5
  StepName <- MCStepName
  ResumeName <- MCResumeName
  ShellSteps <- MCShellSteps
  SubmitJob = 3
  SwitchedOff = {}
  OnFailContinue = {5}
  FinalStep = "send_notification"
  MayFail = {3, 4}
  MayCancel = {2}
  Environment = {"get", "swallow"}
  Lead = 2
  Attentive = TRUE
  MaxRuns = 2
  MaxParse = 0
  MetricStep = "spark-submit"
  Flushes = {1, 5}
  Misreads = {"file"}
CHECK_DEADLOCK FALSE
INVARIANTS
  StatusTypeOK
  EndedClusterHasVerdict
  SuccessMetricMeansData
  VerdictsAgree
  GatewayIsLeftClean
  EndedClusterIsReported
PROPERTY EventuallySettled
