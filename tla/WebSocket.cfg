SPECIFICATION SocketSpec
CONSTANTS
    bob = bob
    dev = dev
    prod = prod
    NoIdent = NoIdent
    NoSession = NoSession
    Sessions = {bob}
    Envs = {dev, prod}
    TopicNames <- MCTopics
    GrantOf <- MCGrantOf
    InitRows <- MCRows
    Edits <- MCEdits
    Published <- MCPublished
    MaxFrames = 2
    MaxFaults = 1
    orders = orders
    tasks = tasks
    Channels <- MCChannels
    MaxReconnectAttempts = 1
    MaxSockets = 6
    MaxUpsets = 2
INVARIANTS RecordsAgree CleanEnd RowsCannotOpen NeverStranded
PROPERTIES EveryRowCloses StopEnds Recovers CallsEnd
CHECK_DEADLOCK FALSE
