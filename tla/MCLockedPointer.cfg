\* LockedPointer and locked_release over an Object whose retain() and
\* release() are atomic.
CONSTANTS
    t1 = t1
    t2 = t2
    o1 = o1
    o2 = o2
    o3 = o3
    Threads <- MCThreads
    Objects <- MCObjects
    HandlesEach = 2
    OpsEach = 3
    AtomicCount = TRUE
    NoThread = NoThread
    Null = Null
SPECIFICATION AtomicSpec
INVARIANT TypeOK
INVARIANT NoUseAfterFree
INVARIANT CountMatchesReferences
