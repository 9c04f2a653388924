CONSTANTS
    p1 = p1
    c1 = c1
    none = none
    NoThread <- none
    Producers <- MCProducers
    Consumers <- MCConsumers
    Threads <- MCThreads
    PushesEach = 1
    CallsEach = 1
    Limit = 1
    PullOps = {"pull"}
    Timeouts = {FALSE}
    Spurious = FALSE

SPECIFICATION Spec

INVARIANT UsedCountsMembers

\* A consumer can block for ever after a lost signal (as in MCQueueLostSignal.cfg).
CHECK_DEADLOCK FALSE
