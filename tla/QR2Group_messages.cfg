SPECIFICATION Spec
CONSTANTS
    Sess = {s1, s2}
    Group = {g1, g2}
    Heartbeats = {h1}
    Messages = {m1}
    Payloads <- Hosting
    Restricted = {}
    GroupLimit = 2
    MaxJoin = 2
    NoSess = NoSess
    NoGroup = NoGroup
SYMMETRY Symmetry
VIEW Reachable
INVARIANTS
    RoomInv
PROPERTIES
    GhostsOnlyFromHandlers
    EmptyRoomsOnlyFromGhosts
