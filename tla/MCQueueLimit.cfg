CONSTANTS
    p1 = p1
    p2 = p2
    c1 = c1
    c2 = c2
    none = none
    NoThread <- none
    Threads <- MCThreads21
    Producers <- MCProducers2
    Consumers <- MCConsumers1
    PostsEach = 2
    CallsEach = 2
    Limit = 1
    Timeouts = {FALSE}
    DequeueOps = {"fifo"}
    Spurious = FALSE
SPECIFICATION Spec
INVARIANT WithinLimit


\* A consumer can block for ever after a lost signal (see MCQueueLostSignal.cfg).
CHECK_DEADLOCK FALSE
