CONSTANTS
    n1 = n1
    NoClaim = NoClaim
    NoArtifact = NoArtifact
    TaskCount = 1
    Node = {n1}
    Assignment <- MCAssignment
    Key = {1, 2, 3}
    MaxConfig = 2
    MaxApprovals = 2
    MaxRevision = 1
    MaxSequence = 2
    ArtifactLimit = 2
    MaxRuns = 2
    MaxExecutions = 3
    MaxLate = 1
SPECIFICATION AgentFairSpec
CONSTRAINT Followed
INVARIANTS
    ModelCalledOnce
    BindingHonoured
    ResultHandedOn
PROPERTIES
    WorkEnds
