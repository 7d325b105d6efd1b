CONSTANTS
    n1 = n1
    n2 = n2
    k1 = k1
    k2 = k2
    k3 = k3
    NoClaim = NoClaim
    TaskCount = 1
    Node = {n1}
    Assignment <- MCOneTask
    Key = {k1, k2, k3}
    MaxApprovals = 3
    MaxRevision = 1
    MaxSequence = 3
SPECIFICATION Spec
INVARIANTS
    AssessedCanBeApproved
