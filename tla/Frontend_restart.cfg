SPECIFICATION FairSpec
CONSTANTS
    Conn = {c1, c2}
    Integrated = FALSE
    Reloads = FALSE
    MaxRestarts = 2
INVARIANTS
    CallsReachBackend
    LockProtocol
    SessionsKept
 
CHECK_DEADLOCK FALSE
