SPECIFICATION FairSpec
CONSTANTS
    Threads = {t1, t2}
    SessionModulus = 2
    HandleModulus = 8
    MaxSessions = 3
    MaxCalls = 3
    NoThread = NoThread
INVARIANTS
    SessionsOutliveCalls
    ResultsStayValid
PROPERTY CallsReturn
CHECK_DEADLOCK FALSE
