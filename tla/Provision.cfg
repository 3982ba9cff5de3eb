SPECIFICATION Spec
CONSTANTS
  c1 = c1  c2 = c2  j1 = j1  j2 = j2  Blank = Blank  Absent = Absent  Torn = Torn
  GitClients = {c1, c2, j1, j2}
  InfraJobs = {j1, j2}
  Paths = {"k8s_app", "data_proc"}
  Flavours = {"github", "gitea", "file"}
  FileSets <- SomeFiles
  Trees <- SomeTrees
  Params <- SomeParams
  Requests <- ManyRequests
  JobSets <- SomeJobs
  StatusStates = {"healthy", "degraded"}
  MaxCapacity = 6
  MaxGitFaults = 1
  MaxCommits = 9
  MaxStatusWrites = 1
INVARIANTS HealthIsOfThisRun RenderedAsAllowed GuaranteesReachResources
PROPERTIES FilesLand NoLostUpdate CommitsAreCleared ProvisioningEnds
CHECK_DEADLOCK FALSE
