CONSTANTS
    old = old
    new = new
    Processes = {p1, p2}
    Bodies <- MCBodies
    Digest <- MCDigest
    Requests <- MCRequests
    InitialFiles <- MCInitialFiles
    Ttl = 1
    MaxTime = 1
    Torn = Torn
    None = None
SPECIFICATION FairSpec
INVARIANTS VerifiedAnswers WrongFileNeverBlocks FilesWhole FreshMeansRecent
PROPERTY LoadsReturn
CHECK_DEADLOCK FALSE
