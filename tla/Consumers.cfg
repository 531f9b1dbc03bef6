SPECIFICATION ConsumersSpec
CONSTANTS
    t1 = t1
    t2 = t2
    N = 3
    QueueCap = 1
    ReplayLimit = 1
    MaxDisconnects = 2
    Wanted <- MCWanted
    Allowed <- MCAllowed
    MaxEvents = 3
    MaxStreamed = 2
    Capacity = 1
    PageSize = 1
    MaxConnections = 2
    MaxFailures = 1
    Calls <- MCCalls
    MaxAttempts = 3
    MaxElapsed = 3
    BaseDelay = 1
    MaxDelay = 2
    AttemptTime = 1
    Rows = 4
    Asked = {0, 1, 3}
    Default = 2
    Most = 2
    MaxRuns = 2
    MaxUnsure = 1
INVARIANTS MissedExplained PublishedOnce ListsEachOnce OutcomeTold
PROPERTIES TruncationIsTold EventuallyProcessed CallReturns YieldedOrExcused LeavesNothing
CHECK_DEADLOCK FALSE
