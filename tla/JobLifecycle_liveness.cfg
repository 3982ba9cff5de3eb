SPECIFICATION AttendedSpec
CONSTANTS
  j1 = j1  j2 = j2  r1 = r1  r2 = r2
  NoRun = NoRun  NoWork = NoWork
  Jobs <- TwoJobs
  Replicas <- TwoReplicas
  RunIds = {1, 2, 3, 4}
  NSteps = 1
  Gates <- FirstJobGated
  MaxAttempts <- FirstOnce
  Schedule <- FirstUnscheduled
  BatchLimit = 2
  LeaseOutlivesRun = TRUE
  AttemptCap = 2
  MaxFaults = 1
INVARIANT OneEventPerAttempt
PROPERTIES EventuallyTerminal RunsSettle
CHECK_DEADLOCK FALSE
