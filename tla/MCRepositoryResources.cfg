SPECIFICATION Spec
CONSTANTS
    Clients = {c1, c2}
    Bodies <- MCBodies
    Digest <- MCDigest
    Oversized <- MCOversized
    Requests <- MCRequests
    MaxPuts = 2
    MaxAttempts = 2
    MaxTime = 1
    MaxFaults = 1
    InitialBodies <- MCInitialBodies
    Torn = Torn
    None = None
SYMMETRY ClientSymmetry
INVARIANTS
    AnswersWereStored
    ReplacementIsSeamless
    UnmarkedAnswersVerified
    CacheNeverFailsLoads
CHECK_DEADLOCK FALSE
