CONSTANTS
    w1 = w1
    w2 = w2
    s1 = s1
    Waiters <- MCWaiters
    Signallers <- MCSignallers
    OpsEach = 2

SPECIFICATION FairSpec

INVARIANT NoMissedSignal

PROPERTY SignalledWaitersReturn
