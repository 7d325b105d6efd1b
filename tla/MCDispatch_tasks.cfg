CONSTANTS
    n1 = n1
    n2 = n2
    k1 = k1
    k2 = k2
    k3 = k3
    NoClaim = NoClaim
    TaskCount = 2
    Node = {n1, n2}
    Assignment <- MCAssignment
    Key = {k1, k2}
    MaxApprovals = 2
    MaxRevision = 2
    MaxSequence = 2
SPECIFICATION Spec
CONSTRAINT MCFollowed
SYMMETRY MCKeySymmetry
INVARIANTS
    AttemptsAgree
    RolesInOrder
    AttemptsApproved
    StoreValid
PROPERTIES
    EpochFences
