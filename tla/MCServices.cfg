SPECIFICATION MCSpec
CONSTANTS
    pr1 = pr1
    pr2 = pr2
    Profile <- MCProfile
    Knows <- MCKnows
    MayOpen <- MCMayOpen
    MaxAuth = 3
    RPlayer = {f1, f2}
    RRestricted = {f2}
    RVersions = {3, 90}
    NoPlayer = NoPlayer
    LRequests = {h1, h2}
    LIDs = {e1, e2}
    NoDiscord = NoDiscord
    HKeys = {k1, k2}
    HRegions = {ra}
    HNone = HNone
    MCommands = {"RESERVATION", "RESV_OK", "RESV_DENY", "RESV_WAIT", "TELL_ADDR", "SC_CLOSE_CL", "POLL_TO_ACK", "SUSPEND_MATCH", "CANCEL"}
    MBuffers <- MCBuffers
    SearchIP = 167772167
    SearchPort = 4321
    Expressions <- MCExpressions
    Formed <- MCFormed
    Searches <- MCSearches
    Servers <- MCServers
    Likes = {}
    NoNode = NoNode
INVARIANTS
    FriendsInv ReservationInv LinkInv RestartKeepsAnswers RelaySound FilterCorrect
CHECK_DEADLOCK FALSE
