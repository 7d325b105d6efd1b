SPECIFICATION Spec
CONSTANTS
  a1 = a1  a2 = a2  a3 = a3
  None = None
  Attempt <- ThreeAttempts
  TaskOf <- OneTask
  IntegerKey <- Numbers
  MaxRecorded = 0
  MaxCommands = 1
  MaxCalls = 0
  MaxQuotes = 0
  MaxTime = 1
  MaxTokens = 0
CHECK_DEADLOCK FALSE
INVARIANTS RetryChain
