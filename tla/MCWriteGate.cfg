SPECIFICATION FairSpec
CONSTANTS
    t1 = t1
    t2 = t2
    t3 = t3
    Threads <- ThreeThreads
    None = None
INVARIANTS TypeOK OneWriter CountsAreQueues NoLostWakeup
PROPERTIES ImplementsSections CallsAnswered QueuedTransactionsRun
