CONSTANTS
    Sides = {"intake", "ingestion"}
    Requests = {q1, q2, q3}
    k1 = k1
    k2 = k2
    a = a
    b = b
    Keys = {k1, k2}
    Contents = {a, b}
    Sessionless = {b}
    Batches <- MixedBatches
    NoRequest = NoRequest
    Obs = {o1, o2}
    Workers = {w1, w2}
    NumTokens = 8
    MaxAttempts = 2
    MaxRetries = 1
    MaxInFlight = 2
    Lease = 1
    RetryDelay = 1
    Faults = {"pipeline", "embed", "publish"}
SPECIFICATION DurableFairSpec
CHECK_DEADLOCK FALSE
INVARIANTS MineAccounted ReplayAccepted
PROPERTIES StoreSpec AllAnswered EventuallySettled OutboxDrains
