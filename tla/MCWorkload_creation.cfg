CONSTANTS
    w1 = w1
    w2 = w2
    c1 = c1
    c2 = c2
    o1 = o1
    o2 = o2
    v1 = v1
    v2 = v2
    p1 = p1
    p2 = p2
    None = None
    Works <- OneWork
    Clusters <- OneCluster
    Objs <- OneObj
    Vers <- TwoVers
    Specs <- OneObjSpecs
    Procs <- OneProc
    Registered <- OneCluster
    RetrySteps = 5
    MaxOps = 1
    MaxFaults = 0
    MaxCrashes = 0
SPECIFICATION FairSpec
CHECK_DEADLOCK FALSE
PROPERTY CreationReaches
