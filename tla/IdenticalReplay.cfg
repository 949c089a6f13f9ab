SPECIFICATION IntakeSpec
CONSTANTS
    Requests = {q1, q2}
    k1 = k1
    k2 = k2
    a = a
    b = b
    Keys = {k1, k2}
    Contents = {a, b}
    Sessionless = {b}
    Batches <- MixedBatches
    NoRequest = NoRequest
INVARIANT IdenticalReplayed
CHECK_DEADLOCK FALSE
