SPECIFICATION Spec
CONSTANTS
    Sides = {"clients", "kernel", "serving"}
    c1 = c1
    c2 = c2
    t1 = t1
    t2 = t2
    Clients = {c1, c2}
    Tasks = {t1, t2}
    ClientOf <- TwoClients
    Languages = {"python", "asyncio", "typescript", "memory"}
    WriteKinds = {"observe"}
    MaxRetries = 2
    Batch = 2
    MaxEntries = 1
    MaxReplays = 2
    MaxCalls = 2
    MaxCrashes = 1
    u = u
    v = v
    k1 = k1
    o1 = o1
    a1 = a1
    x = x
    y = y
    Requested <- MixedRequests
    NoId = NoId
    MaxRestarts = 1
    Cases <- MCCases
    Keys <- MCKeys
    Tiers <- MCTiers
    GateTiers <- MCGateTiers
    TTL = 1
    MaxTime = 3
    LegacyHeaders = TRUE
INVARIANTS StoredOnce AnsweredTruly RevisionChain CacheTrue RatesKept
PROPERTIES KeptUntilSent
CHECK_DEADLOCK FALSE
