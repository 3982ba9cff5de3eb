SPECIFICATION Spec
CONSTANTS
  h1 = h1  h2 = h2  i1 = i1  i2 = i2  i3 = i3
  None = None
  Handlers <- TwoHandlers
  Requests <- MixedRequests
  Paths = {"p", "q"}
  Keys = {"k"}
  Bodies = {"x", "y"}
  JobIds <- Ids
  MaxAnswers = 3
  MaxFaults = 1
SYMMETRY IdSymmetry
INVARIANTS TypeOK AcceptedAlike JobsAreReserved FirstAcceptIsDurable
PROPERTIES ReadNeverRewinds
CHECK_DEADLOCK FALSE
