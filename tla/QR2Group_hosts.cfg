SPECIFICATION FairSpec
CONSTANTS
    Sess = {s1, s2}
    Group = {g1}
    Heartbeats = {h1, h2}
    Messages = {}
    Payloads <- HostOrGuest
    Restricted = {}
    GroupLimit = 2
    MaxJoin = 2
    NoSess = NoSess
    NoGroup = NoGroup
PROPERTY HostElected
