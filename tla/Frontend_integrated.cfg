SPECIFICATION FairSpec
CONSTANTS
    Conn = {c1, c2}
    Integrated = TRUE
    Reloads = TRUE
    MaxRestarts = 2
INVARIANTS
    UnlockedOnce
CHECK_DEADLOCK FALSE
