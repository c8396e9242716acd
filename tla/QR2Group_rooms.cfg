SPECIFICATION Spec
CONSTANTS
    Sess = {s1, s2, s3}
    Group = {g1, g2}
    Heartbeats = {h1}
    Messages = {}
    Payloads <- HostOrGuest
    Restricted = {}
    GroupLimit = 2
    MaxJoin = 2
    NoSess = NoSess
    NoGroup = NoGroup
SYMMETRY Symmetry
VIEW Reachable
PROPERTIES
    HostSuccession
    JoinIndexStable
    ImplementsRooms
