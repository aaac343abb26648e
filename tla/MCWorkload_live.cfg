CONSTANTS
    w1 = w1
    w2 = w2
    c1 = c1
    c2 = c2
    o1 = o1
    o2 = o2
    v1 = v1
    v2 = v2
    p1 = p1
    p2 = p2
    None = None
    Works <- OneWork
    Clusters <- OneCluster
    Objs <- TwoObjs
    Vers <- TwoVers
    Specs <- GrowingSpecs
    Procs <- OneProc
    Registered <- OneCluster
    RetrySteps = 2
    MaxOps = 3
    MaxFaults = 0
    MaxCrashes = 1
SPECIFICATION FairSpec
CHECK_DEADLOCK FALSE
INVARIANT SettledMatchesSpec
PROPERTY EditReaches
PROPERTY DeletionCompletes
