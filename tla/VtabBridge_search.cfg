SPECIFICATION Spec
CONSTANTS
    p1 = p1
    p2 = p2
    p3 = p3
    t1 = t1
    t2 = t2
    t3 = t3
    Paths <- MCPaths
    Tables <- MCTables
    Engines <- MCEngines
    MaxActive = 2
    MaxHits = 2
    NumShards = 3
    Threads = 2
    MaxAnswer = 12
    Searches <- MCSearches
    TableSearches <- MCTableSearches
INVARIANTS
    TypeOK
    RefCountExact
    EnginesInUseAreOpen
    OneEnginePerPath
    NoWorkOutlivesSearch
    AnswersLikeEngineSearch
    HybridFindsTheSame
    WordsFindDocuments
    TopHitsAreBest
PROPERTY
    EverySearchEnds
