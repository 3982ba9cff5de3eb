SPECIFICATION Spec
CONSTANTS
  h1 = h1  h2 = h2  i1 = i1  i2 = i2  i3 = i3
  None = None
  Handlers <- TwoHandlers
  Requests <- TwoPaths
  Paths = {"p", "q"}
  Keys = {"k"}
  Bodies = {"x", "y"}
  JobIds <- Ids
  MaxAnswers = 3
  MaxFaults = 0
INVARIANTS AcceptedJobsExist
CHECK_DEADLOCK FALSE
