SPECIFICATION FairSpec
CONSTANTS
  None = None
  Steps = {"boot", "s2"}
  Bootstrap = "boot"
  Approvers <- Names
  Role <- Roles
  Tenant <- Tenants
  Policy <- Quorums
  Keys = {"k1", "k2", "k3"}
  Ttls = {0, 3}
  DefaultTtl = 3
  MaxTime = 4
  MaxRounds <- Rounds
INVARIANTS QuorumHeld AnswersAreOnRecord EventsMatchDecisions
PROPERTIES SettledOnce WaitsEnd
CHECK_DEADLOCK FALSE
