SPECIFICATION Spec
CONSTANTS
    Threads = {t1, t2}
    SessionModulus = 8
    HandleModulus = 8
    MaxSessions = 1
    MaxCalls = 3
    NoThread = NoThread
INVARIANT SessionCallsSerialized
CHECK_DEADLOCK FALSE
