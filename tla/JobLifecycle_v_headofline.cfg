SPECIFICATION FairSpec
CONSTANTS
  j1 = j1  j2 = j2  r1 = r1  r2 = r2
  NoRun = NoRun  NoWork = NoWork
  Jobs <- TwoJobs
  Replicas <- OneReplica
  RunIds = {1, 2, 3, 4, 5}
  NSteps = 1
  Gates <- FirstJobGated
  MaxAttempts <- OneAttempt
  Schedule <- Unscheduled
  BatchLimit = 2
  LeaseOutlivesRun = TRUE
  AttemptCap = 1
  MaxFaults = 0
PROPERTIES UngatedJobsProgress
CHECK_DEADLOCK FALSE
