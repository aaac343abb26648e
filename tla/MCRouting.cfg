CONSTANTS
    r1 = r1
    r2 = r2
    r3 = r3
    None = None
    RDs <- TwoRds
    Early <- OneRd
    Gvrs <- TwoGvrs
    Selectors <- TwoSelectors
    Resources <- TheResources
    Excluded <- NoResource
    MaxOps = 2
    MaxFaults = 1
SPECIFICATION Spec
CHECK_DEADLOCK FALSE
INVARIANT TypeOK
INVARIANT IndexFinds
INVARIANT IndexIsCurrent
INVARIANT NoLostChange
