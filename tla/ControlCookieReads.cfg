SPECIFICATION Spec
CONSTANTS
    None = None
    ana = ana
    bo = bo
    cy = cy
    orders = orders
    k1 = k1
    Requests = {r1, r2}
    Users <- MCUsers
    Present <- MCPresent
    Owners <- MCOwners
    Producers <- MCProducers
    Keys <- MCKeys
    Operations <- MCOperations
    MaxClock = 1
    tab = tab
    other = other
    Tabs <- MCTabs
    Visits <- MCVisits
    MaxVisits <- MCMaxVisits
    Holdings <- MCHoldings
    Logins = 1
    MaxChanges = 2
    term = term
    script = script
    Terminals <- MCTerminals
    Runs <- MCRuns
    Given <- MCGiven
    KeySet = {term}
    Tokens = {s1, s2, s3}
    First = s1
    NoToken = NoToken
    Garbled = Garbled
    MaxCommands <- MCMaxCommands
    Calls = {c1}
    AskedOf <- MCAskedOf
    KeyScopes <- MCKeyScopes
    AskedTtls = {0, 2}
    DefaultTtl = 1
    PlaygroundTtl = 1
    LongestTtl = 2
    Lifetime = 1
    Silence = 1
    CallTime = 1
    MaxCalls = 2
    Withdrawals <- MCWithdrawals
INVARIANT
    EveryRequestChecked
CHECK_DEADLOCK FALSE
