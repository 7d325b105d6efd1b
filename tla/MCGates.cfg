SPECIFICATION GatesSpec
CONSTANTS
  l1 = l1  l2 = l2
  t1 = t1  t2 = t2  t3 = t3  t4 = t4
  g1 = g1  g2 = g2
  x1 = x1  x2 = x2  NoFile = NoFile
  LockId <- Locks
  Scope <- Scopes
  Overlaps <- Overlapping
  Interval = 1
  Lease = {2, 3}
  MaxTime = 3
  MaxDrift = 1
  Task <- Tasks
  Contract = {"c1", "c2"}
  Node = {"n1"}
  Gpu <- Gpus
  Request <- Requests
  Capacity <- Capacities
  Quota <- Quotas
  Project <- Projects
  Tenant = {"a", "b"}
  Canon <- Canonical
  MaxNodes = 4
  MaxFacts = 2
  MaxDependencies = 3
  MaxEntries = 81
  Offset = {0, 1}
  MaxClock = 2
  MaxReceipts = 2
  MaxEdits = 1
  Attempt <- Requesters
  Legacy <- Requesters
  Path <- Paths
  Repository <- Repositories
  Revised <- Changed
  Untracked = NoFile
  MaxScanFiles = 2
  MaxScanBytes = 2
  MaxTotalScanBytes = 2
  MaxFactsPerField = 1
  MaxCommits = 1
  Machine = {1, 2}
  MaxPower = 2
  Provider = {"p1", "p2"}
  Connection = {"c1", "c2"}
  ProviderOf <- Providers
  Model = {1, 2, 3}
  ConnectionOf <- Connections
  Capabilities <- Abilities
  Role = {"coder", "reviewer"}
  Setting = {"s"}
  BindKey = {1, 2}
  Null = Null
  Assignments <- Asked
  MaxProfiles = 1
CONSTRAINT Followed
SYMMETRY Symmetric
CHECK_DEADLOCK FALSE
INVARIANTS OneGovernorPerScope WithinLimits OrderIsRight FinalizedIsStable AcceptedAsAuthorized ApprovedApart
  ReportsAccepted AssignmentsApart
PROPERTIES LapsedStaysHeld
