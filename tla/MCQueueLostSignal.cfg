CONSTANTS
    p1 = p1
    p2 = p2
    c1 = c1
    c2 = c2
    none = none
    NoThread <- none
    Threads <- MCThreads11
    Producers <- MCProducers1
    Consumers <- MCConsumers1
    PostsEach = 1
    CallsEach = 1
    Limit = 0
    Timeouts = {FALSE}
    DequeueOps = {"fifo"}
    Spurious = FALSE
SPECIFICATION FairSpec
PROPERTY QueuedObjectWakesConsumer
CHECK_DEADLOCK FALSE
