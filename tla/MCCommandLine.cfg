SPECIFICATION FairSpec
CONSTANTS
    UriOrder <- MCUriOrder
    Header <- MCHeader
    Nowhere = "nowhere"
    Builtin = "INTERLIS"
    RootLists <- MCRootLists
    Workspaces <- MCWorkspaces
    Repositories <- MCRepositories
    FileLimit = 3
    PassLimit = 2
    LibraryRun <- MCLibraryRun
INVARIANTS
    SucceedsLikeLibrary
    FailsOnlyByLimits
PROPERTY ProgramEnds
CHECK_DEADLOCK FALSE
