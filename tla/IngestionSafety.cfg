CONSTANTS
    Obs = {o1}
    Workers = {w1, w2}
    NumTokens = 6
    MaxAttempts = 2
    MaxRetries = 1
    MaxInFlight = 2
    Lease = 1
    RetryDelay = 1
    Faults = {"pipeline", "embed", "publish", "db", "crash", "slow"}
SPECIFICATION Spec
SYMMETRY ConsumerSymmetry
CHECK_DEADLOCK FALSE
INVARIANTS
    RecordsAgree
    AttemptExclusive
    SettledIsCommitted
PROPERTIES
    CommittedForever
