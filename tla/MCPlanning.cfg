CONSTANTS
    c1 = c1
    c2 = c2
    c3 = c3
    east = east
    p1 = p1
    v1 = v1
    v2 = v2
    o1 = o1
    o2 = o2
    None = None
    Clusters <- ThreeClusters
    Labels <- OneLabel
    Objs <- TwoObjs
    Paths <- OnePath
    Values <- TwoValues
    Rds <- MCRds
    Labellings <- MCLabellings
    Hosts <- MCHosts
SPECIFICATION Spec
CHECK_DEADLOCK FALSE
INVARIANT TypeOK
INVARIANT WorksGiveFirstRule
INVARIANT LegacyGivesMore
