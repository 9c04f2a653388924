\* Three threads on one Mutex, Spinlock, Barrier(2) and Threadlock.
CONSTANTS
    t1 = t1
    t2 = t2
    t3 = t3
    Threads <- MCThreads
    BarrierCount = 2
    MutexKinds = {"recursive", "normal"}
    MaxHolds = 2
    NoThread = NoThread
SPECIFICATION Spec
INVARIANT TypeOK
