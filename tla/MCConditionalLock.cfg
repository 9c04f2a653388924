CONSTANTS
    r1 = r1
    r2 = r2
    w1 = w1
    NoThread = NoThread
    Readers <- MCLockReaders
    Writers <- MCLockWriters
    Upgraders <- MCUpgraders
    RoundsEach = 2
    MaxNesting = 2
    Spurious = TRUE

SPECIFICATION LockFairSpec

INVARIANT LockTypeOK

PROPERTY
    ImplementsUpgradeLockSpec
PROPERTY
    UpgraderEventuallyExclusive
