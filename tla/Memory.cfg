CONSTANTS
    Sides = {"slots", "reads"}
    Runs = {r1, r2, r3}
    settled = r3
    NoRun = NoRun
    Absent = Absent
    Claims <- MixedClaims
    Ops = {"delete", "merge", "forget", "feedback", "reflect"}
    MaxTime = 2
    MaxTries = 2
    MaxOps = 1
    Worlds <- MCWorlds
    Sayings <- MCSayings
    Asks <- MCAsks
    TruthsRead = 2
    NeighbourLimit = 3
    LinkLimit = 3
    ExploreEdges = 2
    ExploreLinks = 2
SPECIFICATION MemorySpec
INVARIANTS
    OneCurrentTruth
    LineageSound
    HistoryKept
    AdmittedOnPage
    AnsweredFairly
    PackageSound
    GivenOnlyAdmitted
    WalkTrue
PROPERTIES
    NeverEmptied
    RunsEnd
