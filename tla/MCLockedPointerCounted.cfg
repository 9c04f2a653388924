\* LockedPointer and locked_release over a CountedObject, whose count is a
\* volatile unsigned updated by a read and a later write.
CONSTANTS
    t1 = t1
    t2 = t2
    o1 = o1
    o2 = o2
    o3 = o3
    Threads <- MCThreads
    Objects <- MCObjects
    HandlesEach = 2
    OpsEach = 3
    AtomicCount = FALSE
    NoThread = NoThread
    Null = Null
SPECIFICATION Spec
INVARIANT NoUseAfterFree
