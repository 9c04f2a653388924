\* Two readers and two writers, two rounds each, with spurious wake-ups.
CONSTANTS
    r1 = r1
    r2 = r2
    w1 = w1
    w2 = w2
    Readers <- MCReaders
    Writers <- MCWriters
    RoundsEach = 2
    Spurious = TRUE
    NoThread = NoThread
SPECIFICATION FairSpec
INVARIANT TypeOK
PROPERTY ImplementsAccessLockSpec
PROPERTY WriterEventuallyModifies
PROPERTY ReaderEventuallyAccesses
