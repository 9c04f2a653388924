CONSTANTS
    t1 = t1
    t2 = t2
    t3 = t3
    Threads <- MCThreads
    InitCount = 1
    Limits = {1, 2}
    Rounds = 2
    MaxSets = 2
SPECIFICATION FairSpec
INVARIANT TypeOK
INVARIANT NoLostWakeup
PROPERTY ImplementsSemaphoreSpec
PROPERTY AllComplete
