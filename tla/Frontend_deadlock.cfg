SPECIFICATION FairSpec
CONSTANTS
    Conn = {c1}
    Integrated = TRUE
    Reloads = TRUE
    MaxRestarts = 1
PROPERTY RestartCompletes
CHECK_DEADLOCK FALSE
