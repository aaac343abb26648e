CONSTANT Threads = 2
SPECIFICATION FairSpec
CHECK_DEADLOCK FALSE
INVARIANT TypeOK
INVARIANT WorkersFindACache
PROPERTY ControllersWork
PROPERTY WorkEnds
