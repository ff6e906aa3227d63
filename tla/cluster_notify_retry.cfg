\* send_notification fails, and its retry looks for another step's name.
SPECIFICATION Spec
CONSTANTS
  NSteps = 5
  StepName <- MCStepName
  ResumeName <- MCResumeName
  ShellSteps <- MCShellSteps
  SubmitJob = 3
  SwitchedOff = {}
  OnFailContinue = {5}
  FinalStep = "send_notification"
  MayFail = {4}
  MayCancel = {}
  Environment = {}
  Lead = 2
  Attentive = FALSE
  MaxRuns = 2
  MaxParse = 0
CHECK_DEADLOCK FALSE
INVARIANT CompletedIsComplete
