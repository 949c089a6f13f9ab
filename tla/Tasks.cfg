SPECIFICATION FairSpec
CONSTANTS
    Sides = {"lifecycle", "artifacts"}
    m1 = m1
    m2 = m2
    p1 = p1
    p2 = p2
    k1 = k1
    Memories = {m1, m2}
    Profiles = {p1, p2}
    TypeOf <- GoalAndRule
    Asked <- AllJobs
    NoId = NoId
    Limit = 1
    MaxText = 1
    Cases <- MCCases
    MaxSize = 11
    ChunkSize = 4
    MaxRetries = 3
    Packages = {"pdf"}
    Extension <- MCExtension
    Guess <- MCGuess
    Sites <- MCSites
INVARIANTS BatchStaysDormant AppliedOnMerit EmbeddedAsReported OriginalKept ChunksWhole NeverPart
PROPERTIES AcceptedRemembered
CHECK_DEADLOCK FALSE
