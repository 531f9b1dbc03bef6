SPECIFICATION SessionSpec
CONSTANTS
    bob = bob
    dev = dev
    prod = prod
    NoIdent = NoIdent
    NoSession = NoSession
    Sessions = {bob}
    Envs = {dev, prod}
    TopicNames <- MCTopics
    GrantOf <- MCGrantOf
    InitRows <- MCRows
    Edits <- MCEdits
    Published <- MCPublished
    MaxFrames = 2
    MaxFaults = 1
INVARIANT EnvironmentsNeverCross
CHECK_DEADLOCK FALSE
