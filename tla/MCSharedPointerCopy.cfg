\* SharedPointer with shared_release handles that threads copy.
CONSTANTS
    t1 = t1
    t2 = t2
    o1 = o1
    o2 = o2
    o3 = o3
    Threads <- MCThreads
    Objects <- MCObjects
    HandlesEach = 2
    OpsEach = 4
    Null = Null
SPECIFICATION Spec
INVARIANT HeldObjectLive
