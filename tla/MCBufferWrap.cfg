CONSTANTS
    p1 = p1
    c1 = c1
    none = none
    NoThread <- none
    Producers <- MCProducers
    Consumers <- MCConsumers
    Threads <- MCThreads
    Size = 2
    PostsEach = 3
    CallsEach = 3
    Timeouts = {FALSE}
    TakeOps = {"wait"}
    Spurious = FALSE
    Width = 16

SPECIFICATION Spec

PROPERTY WaitReturnsOldest

\* A consumer can block for ever after a lost signal (as in MCQueueLostSignal.cfg).
CHECK_DEADLOCK FALSE
