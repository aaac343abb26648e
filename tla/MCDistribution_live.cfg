CONSTANTS
    c1 = c1
    c2 = c2
    east = east
    p1 = p1
    v1 = v1
    v2 = v2
    o1 = o1
    q1 = q1
    None = None
    Clusters <- TwoClusters
    Labels <- OneLabel
    Objs <- OneObj
    Paths <- OnePath
    Values <- TwoValues
    FreshIds <- Ids
    RDs <- OneRd
    Specs <- PairOrResidue
    Labellings <- EastComes
    Hosts <- OneHost
    Procs <- OneProc
    MaxOps = 2
    MaxFaults = 1
SPECIFICATION FairSpec
CHECK_DEADLOCK FALSE
PROPERTY FirstReaches
