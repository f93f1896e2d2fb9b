CONSTANTS
    w1 = w1
    w2 = w2
    v1 = v1
    None = None
    Workers <- TwoWorkers
    Writers <- OneWriter
    MAX_MAINTENANCE_ATTEMPTS = 2
    MAX_PASSES_PER_DRAIN = 1
    MAX_TOTAL_PASSES = 2
    MaxWrites = 2
    MaxTroubles = 1
SPECIFICATION FairSpec
PROPERTY JobSettles
INVARIANTS TypeOK OperationsFenced AskedIsExamined
