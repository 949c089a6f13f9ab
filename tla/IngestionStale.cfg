CONSTANTS
    Obs = {o1}
    Workers = {w1, w2}
    NumTokens = 6
    MaxAttempts = 3
    MaxRetries = 1
    MaxInFlight = 2
    Lease = 2
    RetryDelay = 1
    Faults = {"pipeline", "slow"}
SPECIFICATION Spec
CHECK_DEADLOCK FALSE
INVARIANT NewestStands
