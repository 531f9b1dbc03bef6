SPECIFICATION SharedSpec
CONSTANTS
    Threads = {t1, t2}
    NoThread = NoThread
    RandMax = 3
    MaxClock = 2
    Base = 2
    MsLen = 3
    RandLen = 2
    None = None
    Keys = {key}
    Costs = {1, 4, 7, 9}
    Rate = 2
    Burst = 7
    MinRetry = 1
    NoRate = 5
    OlderThan = 4
    MaxTime = 9
    i1 = i1
    i2 = i2
    e1 = e1
    e2 = e2
    e3 = e3
    dev = dev
    prod = prod
    Instances = {i1, i2}
    Ids = {e1, e2, e3}
    Envs = {dev, prod}
    Origin <- MCOrigin
    EnvOf <- MCEnvOf
    Cap = 2
    MaxOutages = 1
    MaxSilences = 1
    MaxErrors = 1
INVARIANTS
    SortsAsText
    WithinRate
    RetryAdmitted
    AtMostOnce
PROPERTIES
    Monotonic
    PublishEnds
    ListenersHear
CHECK_DEADLOCK FALSE
