CONSTANTS
    p1 = p1
    p2 = p2
    a1 = a1
    a2 = a2
    a3 = a3
    NoOwner = NoOwner
    DeadOwner = DeadOwner
    Process = {p1, p2}
    Attempts = {a1, a2}
    CommandCount <- MCTwoThenOne
    Overlap = {}
    Uncertain = {}
    Legacy = {}
    MaxBaseline = 1
    MaxEdits = 2
    MaxAge = 0
    MaxMistakes = 0
SPECIFICATION Spec
SYMMETRY MCProcessSymmetry
INVARIANTS
    ReservationAccounted
    ResultsObserved
    SessionsExclusive
    ReceiptsHonest
PROPERTIES
    StartedOnceInOrder
    FenceIsFinal
    ImplementsOneShot
