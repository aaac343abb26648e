CONSTANTS
    Policies = {r}
    Works = {w}
    Clusters = {c1, c2}
    None = None
    MaxOps = 3
    MaxFaults = 1
SPECIFICATION FairSpec
CHECK_DEADLOCK FALSE
INVARIANT TypeOK
INVARIANT ObjectsGoFirst
INVARIANT QuietMeansApplied
PROPERTY DeletionFinishes
