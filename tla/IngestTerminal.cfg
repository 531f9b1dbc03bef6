SPECIFICATION Spec
CONSTANTS
    r1 = r1
    r2 = r2
    i1 = i1
    i2 = i2
    topicA = topicA
    topicB = topicB
    topicC = topicC
    k1 = k1
    None = None
    NoKey = NoKey
    Requests = {r1, r2}
    Instances = {i1, i2}
    Topics = {topicA, topicB, topicC}
    Keys = {k1}
    Home <- MCHome
    Batch <- MCBatch
    InitRows <- MCRows
    Edits <- MCEdits
    MaxFaults = 0
PROPERTY TerminalKept
CHECK_DEADLOCK FALSE
