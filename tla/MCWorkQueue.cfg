CONSTANTS
    k1 = k1
    k2 = k2
    k3 = k3
    w1 = w1
    w2 = w2
    Idle = Idle
    Keys <- ThreeKeys
    Workers <- TwoWorkers
SPECIFICATION FairSpec
CHECK_DEADLOCK FALSE
INVARIANT TypeOK
INVARIANT QueueInv
INVARIANT DrainedOnExit
PROPERTY ImplementsSingleFlight
PROPERTY Served
