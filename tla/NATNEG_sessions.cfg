SPECIFICATION FairSpec
CONSTANTS
    Sess = {s1, s2}
    Client = {c1}
    Handlers = {h1, h2}
    Ports = {"game", "negotiate", "both"}
    NoSess = NoSess
    NoClient = NoClient
    MaxReload = 1
INVARIANTS
    OneSession
PROPERTY SessionExpires
