\* QA and integration: the final step is looked up under its EMR name.
SPECIFICATION Spec
CONSTANTS
  NSteps = 5
  StepName <- MCStepName
  ResumeName <- MCResumeName
  ShellSteps <- MCShellSteps
  SubmitJob = 3
  SwitchedOff = {4}
  OnFailContinue = {5}
  FinalStep = "submit-job"
  MayFail = {}
  MayCancel = {}
  Environment = {}
  Lead = 2
  Attentive = TRUE
  MaxRuns = 1
  MaxParse = 0
CHECK_DEADLOCK FALSE
INVARIANT EndedClusterHasVerdict
