SPECIFICATION FairSpec
CONSTANTS
    Sides = {"extraction", "server"}
    Runs = {r1, r2}
    NoRun = r2
    Names <- MCNames
    Similar <- MCSimilar
    Digits <- MCDigits
    Known <- MCKnown
    Jobs <- MCJobs
    Mode = "remote"
    MaxTries = 2
    Cases <- MCCases
    Chars <- MCChars
    Configured <- MCConfigured
    MaxBatch = 2
    MaxQueue = 3
    MaxRerank = 2
    RerankSlots = 1
    Model = "qwen"
    Profiles <- MCProfiles
    Normal <- MCNormal
    Blank <- MCBlank
    Likeness <- MCLikeness
    Words <- MCWords
    Relevance <- MCRelevance
    Reranker = TRUE
INVARIANTS EveryItemAccounted NoOrphans GroundedInItsMessage CalendarHolds ServedRight
PROPERTIES AllAnswered
