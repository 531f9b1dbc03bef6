SPECIFICATION Spec
CONSTANTS
    orders = orders
    tasks = tasks
    Channels <- MCChannels
    MaxReconnectAttempts = 1
    MaxSockets = 5
    MaxUpsets = 3
INVARIANTS
    Resubscribed
CHECK_DEADLOCK FALSE
