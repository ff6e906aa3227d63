\* Failed steps do not end the cluster; masters and updates are lost, the state or the name of a step misread, rows cleared; nothing is assumed about timing.
SPECIFICATION Spec
CONSTANTS
  NSteps = 3
  StepName <- ThreeStepName
  ResumeName <- ThreeResumeName
  ShellSteps <- ThreeShellSteps
  SubmitJob = 2
  SwitchedOff = {}
  OnFailContinue = {1, 2, 3}
  FinalStep = "send_notification"
  MayFail = {3}
  MayCancel = {3}
  Environment = {"kill", "deleterow", "put", "state", "name"}
  Lead = 0
  Attentive = FALSE
  MaxRuns = 2
  MaxParse = 1
CHECK_DEADLOCK FALSE
PROPERTIES
  VerdictStands
  FailureIsAttributed
  RunIdCountsLaunches
  OneOutputLocation
