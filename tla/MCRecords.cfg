SPECIFICATION MCSpec
CONSTANTS
    x1 = x1
    x2 = x2
    y1 = y1
    y2 = y2
    z1 = z1
    z2 = z2
    ALogins = {x1, x2}
    AUsers = {y1, y2}
    ADevices = {z1, z2}
    AKnownIDs = {i1}
    ASequence = {q1}
    NoID = NoID
    ASameIP = TRUE
    RPlayers = {x1, x2}
    RRooms = {y1, y2}
    RNames = {z1, z2}
    RCourses = {c1, c2}
    RNone = RNone
    MaxRaces = 2
    MaxResults = 2
INVARIANTS AccountIntact RacesInv
PROPERTIES ProfileKeepsOwner ResultsKept
CHECK_DEADLOCK FALSE
SYMMETRY MCSymmetry
