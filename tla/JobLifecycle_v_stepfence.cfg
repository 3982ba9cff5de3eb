SPECIFICATION Spec
CONSTANTS
  j1 = j1  j2 = j2  r1 = r1  r2 = r2
  NoRun = NoRun  NoWork = NoWork
  Jobs <- OneJob
  Replicas <- TwoReplicas
  RunIds = {1, 2, 3, 4, 5}
  NSteps = 2
  Gates <- FirstStepGated
  MaxAttempts <- TwoAttempts
  Schedule <- Unscheduled
  BatchLimit = 1
  LeaseOutlivesRun = FALSE
  AttemptCap = 2
  MaxFaults = 1
PROPERTIES StepWritesFenced
CHECK_DEADLOCK FALSE
