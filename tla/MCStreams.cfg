SPECIFICATION MCSpec
CONSTANTS
    Conn = {c1, c2}
    User = {u1, u2}
    Profile = {p1, p2}
    Host <- MCHost
    NoConn = NoConn
    NoUser = NoUser
    NoProfile = NoProfile
    BConn = {b1, b2}
    Pipelining = {b2}
    PacketSizes = {2, 3, 4}
    BufferLimit = 6
    MaxPackets = 2
    GConn = {waiting, batching}
    GMay <- MCMay
    waiting = waiting
    batching = batching
    GBatching = {batching}
    GLimit = 4
    GMaxSent = 4
    Messages = {m1, m2}
    MaxTimeouts = 10
INVARIANTS
    SessionsInv  BrowserInv StatsInv AckedReceived
PROPERTIES
    ImplementsPresence ProfileFreed RequestsAnswered CommandsAnswered SendsEnd
CHECK_DEADLOCK FALSE
