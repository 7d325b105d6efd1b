CONSTANTS
    p1 = p1
    p2 = p2
    a1 = a1
    a2 = a2
    a3 = a3
    NoOwner = NoOwner
    DeadOwner = DeadOwner
    Process = {p1, p2}
    Attempts = {a1, a2, a3}
    CommandCount <- MCOneEach
    Overlap <- MCConflict
    Uncertain = {a3}
    Legacy = {a1, a3}
    MaxBaseline = 0
    MaxEdits = 0
    MaxAge = 2
    MaxMistakes = 0
SPECIFICATION FairSpec
INVARIANTS
    EpochMovesOnce
PROPERTIES
    NoOverlappingDispatch
    SessionsEnd
