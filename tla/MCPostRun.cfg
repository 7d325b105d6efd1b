SPECIFICATION Spec
CONSTANTS
  a1 = a1  a2 = a2  a3 = a3
  None = None
  Attempt <- ThreeAttempts
  TaskOf <- TwoTasks
  IntegerKey <- Names
  MaxRecorded = 2
  MaxCommands = 2
  MaxCalls = 2
  MaxQuotes = 2
  MaxTime = 2
  MaxTokens = 1
CONSTRAINT Followed
CHECK_DEADLOCK FALSE
INVARIANTS AdoptionWasReviewed CostCoversCalls
PROPERTIES CompleteStays
