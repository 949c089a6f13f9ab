CONSTANTS
    Worlds <- AsOf
    Sayings <- MCSayings
    Asks <- MCAsks
    TruthsRead = 2
    NeighbourLimit = 3
    LinkLimit = 3
    ExploreEdges = 2
    ExploreLinks = 2
SPECIFICATION Spec
INVARIANTS
    AsOfAnswered
