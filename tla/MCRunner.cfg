SPECIFICATION FairSpec
INVARIANTS
    ResultObserved
    OrphanWasSignalled
PROPERTIES
    Resolves
