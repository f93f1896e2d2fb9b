CONSTANTS
    t1 = t1
    t2 = t2
    None = None
    Tabs <- TwoTabs
    Askers <- OneTab
    CADENCE = 1
    MAX_ATTEMPTS = 2
    MaxRevision = 1
    EditedAt = {1}
    MaxVersion = 2
SPECIFICATION FairSpec
INVARIANTS TypeOK PendingIsAtWork
PROPERTIES ImplementsPlanBoard PlanNeverOlder AttemptsSettle RequestsAnswered
CHECK_DEADLOCK FALSE
