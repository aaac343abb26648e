CONSTANTS
    w1 = w1
    w2 = w2
    c1 = c1
    c2 = c2
    o1 = o1
    o2 = o2
    v1 = v1
    v2 = v2
    p1 = p1
    p2 = p2
    None = None
    Works <- OneWork
    Clusters <- OneCluster
    Objs <- OneObj
    Vers <- TwoVers
    Specs <- FaultSpecs
    Procs <- OneProc
    Registered <- OneCluster
    RetrySteps = 2
    MaxOps = 3
    MaxFaults = 1
    MaxCrashes = 1
SPECIFICATION Spec
CHECK_DEADLOCK FALSE
INVARIANT TypeOK
INVARIANT WorksFromOneVersion
INVARIANT NoLostEdit
PROPERTY DeletedOnlyWithWorkload
