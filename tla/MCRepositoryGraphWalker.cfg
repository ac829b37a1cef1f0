SPECIFICATION WalkSpec
CONSTANTS
    Repositories = {"a", "b", "c"}
    SeedLists <- MCSeedLists
    ParentLists <- MCParentLists
    SubsidiaryLists <- MCSubsidiaryLists
    None = None
    VisitLimits = {2, 4}
    MaxLinks = 1
INVARIANTS
    VisitsOnlyReachable
    NearestFirst
    NotFoundAfterAllReachable
PROPERTY TerminatesUnlessCyclic
CHECK_DEADLOCK FALSE
