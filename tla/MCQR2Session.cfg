SPECIFICATION MCSpec
CONSTANTS
    a1 = a1
    a2 = a2
    s1 = s1
    s2 = s2
    s3 = s3
    l1 = l1
    l2 = l2
    p1 = p1
    p2 = p2
    Addr <- MCAddr
    Sess <- MCSess
    Login <- MCLogin
    Profile <- MCProfile
    None = None
    MaxRaces = 1
    CPlayers <- MCSess
    CRooms <- MCLogin
    NoRoom = NoRoom
    MaxJoin = 3
SYMMETRY Symmetry
VIEW View
INVARIANTS TablesInv ConnTrue
PROPERTY BystandersStay
CHECK_DEADLOCK FALSE
