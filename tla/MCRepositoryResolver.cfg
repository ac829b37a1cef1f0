SPECIFICATION FairSpec
CONSTANTS
    None = None
    IndexLists <- MCIndexLists
    RequestLists <- MCRequestLists
    Languages <- MCLanguages
    Ports = {"native", "js"}
    UnsafePaths <- MCUnsafePaths
    Digests = {"md5", "other"}
    MaxDepth = 2
    MaxModels = 2
INVARIANTS
    ResolvedIsSound
    DependenciesFirst
    OutcomeIsExact
    SelectionIsLatest
PROPERTY ResolutionEnds
CHECK_DEADLOCK FALSE
