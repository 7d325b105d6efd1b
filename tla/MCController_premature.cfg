CONSTANTS
    p1 = p1
    p2 = p2
    a1 = a1
    a2 = a2
    a3 = a3
    NoOwner = NoOwner
    DeadOwner = DeadOwner
    Process = {p1, p2}
    Attempts = {a1, a2}
    CommandCount <- MCOneEachOfTwo
    Overlap = {}
    Uncertain = {}
    Legacy = {}
    MaxBaseline = 0
    MaxEdits = 0
    MaxAge = 0
    MaxMistakes = 1
SPECIFICATION Spec
SYMMETRY MCProcessSymmetry
INVARIANTS
    AtMostOneLiveChild
    IntentIsDurable
