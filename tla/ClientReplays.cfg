SPECIFICATION Spec
CONSTANTS
    Sides = {"clients"}
    c1 = c1
    c2 = c2
    t1 = t1
    t2 = t2
    Clients = {c1}
    Tasks = {t1}
    ClientOf <- OneClient
    Languages = {"python"}
    WriteKinds = {"observe", "pin", "unpin", "delete"}
    MaxRetries = 1
    Batch = 2
    MaxEntries = 3
    MaxReplays = 2
    MaxCalls = 3
    MaxCrashes = 0
    u = u
    v = v
    k1 = k1
    o1 = o1
    a1 = a1
    x = x
    y = y
    Requested <- MixedRequests
    NoId = NoId
    MaxRestarts = 1
    Cases <- MCCases
    Keys <- MCKeys
    Tiers <- MCTiers
    GateTiers <- MCGateTiers
    TTL = 1
    MaxTime = 3
    LegacyHeaders = TRUE
INVARIANT LastWriteStands
CHECK_DEADLOCK FALSE
