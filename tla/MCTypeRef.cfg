\* Two threads, each with two value handles and one ArrayRef handle, three
\* values (object 1 shared by every value handle at the start) and one
\* array of up to two entries.
CONSTANTS
    t1 = t1
    t2 = t2
    Threads <- MCThreads
    HandlesEach = 2
    ArrayHandlesEach = 1
    ArrayObjects = {4}
    MaxSize = 2
    MaxObjects = 4
    OpsEach = 3
    SelfAssign = FALSE

SPECIFICATION Spec

INVARIANT TypeOK
INVARIANT NoUseAfterFree
INVARIANT NoLeakAtExit
INVARIANT CountIsReferences
