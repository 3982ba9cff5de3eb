SPECIFICATION Spec
CONSTANTS
  Blank = Blank  Garbled = Garbled  Unknown = Unknown
  p1 = p1  p2 = p2
  HOUR = 2
  DAY = 10
  DoraHandlers = {p1, p2}
  Hooks <- SomeHooks
  Services = {"svc", Blank}
  Reported <- SomeReported
  Queries <- SomeQueries
  Seeds <- SomeSeeds
  PoolSize = 2
  Now = 20
  WindowDays = 1
  Limit = 1
  MaxRequests = 2
  MaxDoraFaults = 1
  Writers = {1, 2, 3, 4}
  JobEvent <- SomeEvents
  MetricsWorkers = {p1, p2}
  Closers = {p1, p2}
  QueueSize = 2
  MaxWriteFaults = 2
  EdgeRequests = {p1, p2}
  Bearers <- SomeBearers
  Capacity = 1
  TicksPerToken = 2
  TicksPerSecond = 2
  RefreshWindow = 1
  MaxTime = 4
  MaxEdgeRequests = 3
  MaxFetchFaults = 1
  DecisionHandlers = {p1, p2}
  GatedSteps <- SomeGates
  DecisionRequests <- SomeDecisions
  Authorised <- SomeAuthority
  MaxDecisions = 3
  MaxDecisionFaults = 1
INVARIANTS AdmittedBounded GateOpenedByItsApprover WebhooksAreKept ReplayedMeansStored DeliveredOnce SummaryIsCurrent
  AcceptedIsSomewhere ClosedByOne LinkedDeploymentsExist
PROPERTIES RequestsEnd AcceptedSettles
CHECK_DEADLOCK FALSE
