CONSTANTS
    t1 = t1
    t2 = t2
    t3 = t3
    Threads <- MCThreads
    InitCount = 1
    Limits = {1, 2}
    Rounds = 1
    MaxSets = 0
SPECIFICATION LibFairSpec
PROPERTY ExpiredWaitReturns
