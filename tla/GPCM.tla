-------------------------------- MODULE GPCM --------------------------------
(***************************************************************************)
(* Who is logged in: the connections of package gpcm (main.go, login.go,   *)
(* kick.go, the Discord part of profile.go) with the parts of qr2's login  *)
(* table and of the users table that a login changes.                      *)
(*                                                                         *)
(* The frontend serves one connection's calls one after the other, so that *)
(* a connection is a process: NewConnection, some HandlePacket, then       *)
(* CloseConnection.  Connections interleave wherever a handler does not    *)
(* hold gpcm's mutex.  A fatal error closes the socket; the connection's   *)
(* own CloseConnection follows when its handler has returned.              *)
(*                                                                         *)
(* A user is what a token identifies (user ID and gsbrcd).  The checks of  *)
(* a login that change nothing (token, hash, signature, device) are one    *)
(* nondeterministic outcome: refused or not.                               *)
(***************************************************************************)
EXTENDS Naturals, FiniteSets

CONSTANTS
    Conn,       \* connection indices, each used once
    User,       \* rows the users table may have
    Profile,    \* profile IDs
    Host,       \* the device and IP address behind a connection
    NoConn,     \* no entry
    NoUser,     \* User{}
    NoProfile   \* profile ID 0

ASSUME GPCMAssumption ==
    /\ NoConn \notin Conn
    /\ NoUser \notin User
    /\ NoProfile \notin Profile
    /\ DOMAIN Host = Conn

VARIABLES
    pc,         \* what the connection's handler does, see Steps
    dead,       \* the socket is closed: CloseConnection will be called
    known,      \* sessionsByConnIndex has the connection
    acct,       \* GameSpySession.User.UserId and GsbrCode
    pid,        \* GameSpySession.User.ProfileId
    loggedIn,   \* GameSpySession.LoggedIn
    sessions,   \* the sessions map
    qr2Logins,  \* the keys of qr2's logins map
    dbProfile,  \* users.profile_id, NoProfile when there is no row
    banned,     \* the rows with users.has_ban: a ban moves with its row
    kicking,    \* profiles whose ban is stored but whose KickPlayer is to come
    drift,      \* history: some exLogin replaced the profile ID of a session
    slipped     \* history: connections that a kick could not find, see KickPlayer
                \* and MovedUnder

connVars == <<pc, dead, known, acct, pid, loggedIn>>
dbVars   == <<dbProfile, banned, kicking>>
vars     == <<connVars, sessions, qr2Logins, dbVars, drift, slipped>>

\* "checked": the database accepted the login.  "waiting": the profile has a
\* session and the login polls for its end.  "registered": in sessions, but
\* LoggedIn is still false.  "leaving": between the qr2 part of
\* CloseConnection and its last critical section.
Steps == {"none", "idle", "checked", "waiting", "registered", "leaving", "closed"}

TypeOK ==
    /\ pc        \in [Conn -> Steps]
    /\ dead      \in [Conn -> BOOLEAN]
    /\ known     \in [Conn -> BOOLEAN]
    /\ acct      \in [Conn -> User \cup {NoUser}]
    /\ pid       \in [Conn -> Profile \cup {NoProfile}]
    /\ loggedIn  \in [Conn -> BOOLEAN]
    /\ sessions  \in [Profile -> Conn \cup {NoConn}]
    /\ qr2Logins \subseteq Profile
    /\ dbProfile \in [User -> Profile \cup {NoProfile}]
    /\ banned    \subseteq User
    /\ kicking   \subseteq Profile
    /\ drift     \in BOOLEAN
    /\ slipped   \subseteq Conn

Init ==
    /\ pc        = [c \in Conn |-> "none"]
    /\ dead      = [c \in Conn |-> FALSE]
    /\ known     = [c \in Conn |-> FALSE]
    /\ acct      = [c \in Conn |-> NoUser]
    /\ pid       = [c \in Conn |-> NoProfile]
    /\ loggedIn  = [c \in Conn |-> FALSE]
    /\ sessions  = [p \in Profile |-> NoConn]
    /\ qr2Logins = {}
    /\ dbProfile = [u \in User |-> NoProfile]
    /\ banned    = {}
    /\ kicking   = {}
    /\ drift     = FALSE
    /\ slipped   = {}

-----------------------------------------------------------------------------
(* Connections. *)

NewConnection(c) ==
    /\ pc[c] = "none"
    /\ pc'    = [pc EXCEPT ![c] = "idle"]
    /\ known' = [known EXCEPT ![c] = TRUE]
    /\ UNCHANGED <<dead, acct, pid, loggedIn, sessions, qr2Logins, dbVars,
                   drift, slipped>>

\* The client hangs up, or replyError reports a fatal error that changes
\* nothing else: a parse error, a command before the login.
Disconnect(c) ==
    /\ pc[c] \notin {"none", "closed"}
    /\ ~dead[c]
    /\ dead' = [dead EXCEPT ![c] = TRUE]
    /\ UNCHANGED <<pc, known, acct, pid, loggedIn, sessions, qr2Logins, dbVars,
                   drift, slipped>>

-----------------------------------------------------------------------------
(* Logging in. *)

\* A profile ID no row has.
Unused(p) == \A u \in User : dbProfile[u] # p

\* LoginUserToGPCM: q may be user u's profile after it asked for p.  A new
\* user gets what it asks for or a fresh ID; a known one is moved to p if
\* nobody has it, and keeps its own otherwise.
RowAfterLogin(u, p, q) ==
    /\ q \in Profile
    /\ IF dbProfile[u] = NoProfile
       THEN Unused(q) /\ (p = NoProfile \/ q = p)
       ELSE q = IF p # NoProfile /\ Unused(p) THEN p ELSE dbProfile[u]

\* Connections that have, or are about to have, a session.
Entered == {d \in Conn : loggedIn[d] \/ pc[d] \in {"checked", "waiting", "registered"}}

\* Those that hold user u's old profile ID once its row has q.
MovedUnder(u, q) == {d \in Entered : acct[d] = u /\ q # dbProfile[u]}

\* The checks of login() before it asks the database: token, pack and its hash,
\* unit code, signature, response, profile ID.  One of them fails.
LoginCheckFails(c) ==
    /\ pc[c] = "idle"
    /\ known[c]
    /\ ~dead[c]
    /\ dead' = [dead EXCEPT ![c] = TRUE]
    /\ UNCHANGED <<pc, known, acct, pid, loggedIn, sessions, qr2Logins, dbVars,
                   drift, slipped>>

\* login() up to performLoginWithDatabase.
Login(c, u, p) ==
    /\ pc[c] = "idle"
    /\ known[c]
    /\ ~loggedIn[c]
    /\ \E q \in Profile :
        /\ RowAfterLogin(u, p, q)
        /\ dbProfile' = [dbProfile EXCEPT ![u] = q]
        /\ pid'  = [pid EXCEPT ![c] = q]
        /\ slipped' = (slipped \cup MovedUnder(u, q)) \ {c}
    /\ u \notin banned
    /\ acct' = [acct EXCEPT ![c] = u]
    /\ pc'   = [pc EXCEPT ![c] = "checked"]
    /\ UNCHANGED <<dead, known, loggedIn, sessions, qr2Logins, banned, kicking, drift>>

\* The same, refused: replyError, and g.User is whatever came with the error,
\* that is a User without an ID.  The row may have been created or moved before
\* the ban, of the row, the device or the address, was found.
LoginRefused(c, u, p) ==
    /\ pc[c] = "idle"
    /\ known[c]
    /\ ~loggedIn[c]
    /\ \/ UNCHANGED <<dbProfile, slipped>>
       \/ \E q \in Profile : /\ RowAfterLogin(u, p, q)
                             /\ dbProfile' = [dbProfile EXCEPT ![u] = q]
                             /\ slipped' = slipped \cup MovedUnder(u, q)
    /\ pid'  = [pid EXCEPT ![c] = NoProfile]
    /\ acct' = [acct EXCEPT ![c] = NoUser]
    /\ dead' = [dead EXCEPT ![c] = TRUE]
    /\ UNCHANGED <<pc, known, loggedIn, sessions, qr2Logins, banned, kicking, drift>>

\* sessions[g.User.ProfileId] = g.
Register(c) ==
    /\ sessions' = [sessions EXCEPT ![pid[c]] = c]
    /\ pc'       = [pc EXCEPT ![c] = "registered"]

\* The first look at sessions: the profile is free, or its session is told
\* that it is disconnected and the wait begins.
LoginLookup(c) ==
    /\ pc[c] = "checked"
    /\ LET other == sessions[pid[c]]
       IN  \/ /\ other = NoConn
              /\ Register(c)
              /\ UNCHANGED dead
           \/ /\ other # NoConn
              /\ dead' = [dead EXCEPT ![other] = TRUE]
              /\ pc'   = [pc EXCEPT ![c] = "waiting"]
              /\ UNCHANGED sessions
    /\ UNCHANGED <<known, acct, pid, loggedIn, qr2Logins, dbVars, drift, slipped>>

\* Mutant: the poll takes the profile although it is still registered.
PollTakesOver(c) ==
    /\ pc[c] = "waiting"
    /\ Register(c)
    /\ UNCHANGED <<dead, known, acct, pid, loggedIn, qr2Logins, dbVars, drift,
                   slipped>>

\* One of the polls, 300 ms apart, finds the profile free.
LoginPoll(c) ==
    /\ pc[c] = "waiting"
    /\ sessions[pid[c]] = NoConn
    /\ Register(c)
    /\ UNCHANGED <<dead, known, acct, pid, loggedIn, qr2Logins, dbVars, drift,
                   slipped>>

\* The last poll finds the profile taken.
LoginGiveUp(c) ==
    /\ pc[c] = "waiting"
    /\ sessions[pid[c]] # NoConn
    /\ pc'   = [pc EXCEPT ![c] = "idle"]
    /\ dead' = [dead EXCEPT ![c] = TRUE]
    /\ UNCHANGED <<known, acct, pid, loggedIn, sessions, qr2Logins, dbVars,
                   drift, slipped>>

\* The rest of login(), without the mutex: LoggedIn, then qr2.Login.
LoginDone(c) ==
    /\ pc[c] = "registered"
    /\ loggedIn'  = [loggedIn EXCEPT ![c] = TRUE]
    /\ qr2Logins' = qr2Logins \cup {pid[c]}
    /\ pc'        = [pc EXCEPT ![c] = "idle"]
    /\ UNCHANGED <<dead, known, acct, pid, sessions, dbVars, drift, slipped>>

\* exLogin(): the client, patched by now, presents its device.  The row is
\* read again, and g.User with it.
ExLogin(c) ==
    /\ pc[c] = "idle"
    /\ known[c]
    /\ loggedIn[c]
    /\ acct[c] # NoUser
    /\ LET q == dbProfile[acct[c]]
       IN  /\ q # NoProfile
           /\ acct[c] \notin banned
           /\ pid'   = [pid EXCEPT ![c] = q]
           /\ drift' = (drift \/ q # pid[c])
    /\ UNCHANGED <<pc, dead, known, acct, loggedIn, sessions, qr2Logins, dbVars,
                   slipped>>

\* exLogin(): verifyExLoginInfo refuses the payload version or the device.
ExLoginCheckFails(c) ==
    /\ pc[c] = "idle"
    /\ known[c]
    /\ loggedIn[c] /\ ~dead[c]
    /\ dead' = [dead EXCEPT ![c] = TRUE]
    /\ UNCHANGED <<pc, known, acct, pid, loggedIn, sessions, qr2Logins, dbVars,
                   drift, slipped>>

\* exLogin(), refused by the database.
ExLoginRefused(c) ==
    /\ pc[c] = "idle"
    /\ known[c]
    /\ loggedIn[c]
    /\ pid'   = [pid EXCEPT ![c] = NoProfile]
    /\ acct'  = [acct EXCEPT ![c] = NoUser]
    /\ dead'  = [dead EXCEPT ![c] = TRUE]
    /\ drift' = TRUE
    /\ UNCHANGED <<pc, known, loggedIn, sessions, qr2Logins, dbVars, slipped>>

-----------------------------------------------------------------------------
(* Leaving. *)

\* Mutant: qr2.Logout is forgotten.
CloseWithoutLogout(c) ==
    /\ pc[c] = "idle"
    /\ dead[c]
    /\ pc' = [pc EXCEPT ![c] = IF known[c] /\ loggedIn[c] THEN "leaving"
                                                          ELSE "closed"]
    /\ UNCHANGED <<dead, known, acct, pid, loggedIn, sessions, qr2Logins, dbVars,
                   drift, slipped>>

\* CloseConnection: the lookup and, for a session that is logged in, the qr2
\* part.  The lookup in sessionsByConnIndex is all an unknown connection gets.
CloseConnection(c) ==
    /\ pc[c] = "idle"
    /\ dead[c]
    /\ LET in == known[c] /\ loggedIn[c]
       IN  /\ pc' = [pc EXCEPT ![c] = IF in THEN "leaving" ELSE "closed"]
           /\ qr2Logins' = IF in THEN qr2Logins \ {pid[c]} ELSE qr2Logins
    /\ UNCHANGED <<dead, known, acct, pid, loggedIn, sessions, dbVars, drift,
                   slipped>>

\* Mutant: the session is logged out, but its entry in sessions is forgotten.
CloseKeepsEntry(c) ==
    /\ pc[c] = "leaving"
    /\ loggedIn' = [loggedIn EXCEPT ![c] = FALSE]
    /\ pc'       = [pc EXCEPT ![c] = "closed"]
    /\ UNCHANGED <<dead, known, acct, pid, sessions, qr2Logins, dbVars, drift, slipped>>

\* The last critical section: delete(sessions, session.User.ProfileId).
CloseDelete(c) ==
    /\ pc[c] = "leaving"
    /\ loggedIn' = [loggedIn EXCEPT ![c] = FALSE]
    /\ sessions' = [p \in Profile |-> IF p = pid[c] THEN NoConn ELSE sessions[p]]
    /\ pc'       = [pc EXCEPT ![c] = "closed"]
    /\ UNCHANGED <<dead, known, acct, pid, qr2Logins, dbVars, drift, slipped>>

-----------------------------------------------------------------------------
(* Moderation: a ban is stored first and kicks afterwards (api/ban.go). *)

RowsOf(p) == {u \in User : dbProfile[u] = p}

BanUser(p) ==
    /\ RowsOf(p) # {}
    /\ banned'  = banned \cup RowsOf(p)
    /\ kicking' = kicking \cup {p}
    /\ UNCHANGED <<connVars, sessions, qr2Logins, dbProfile, drift, slipped>>

UnbanUser(p) ==
    /\ RowsOf(p) \cap banned # {}
    /\ banned' = banned \ RowsOf(p)
    /\ UNCHANGED <<connVars, sessions, qr2Logins, dbProfile, kicking, drift, slipped>>

\* findMatchingSessions and the session itself.
Matching(c) == {d \in Conn : Host[d] = Host[c] /\ \E p \in Profile : sessions[p] = d}

\* Mutant: only sessions that are logged in are kicked.
KickLoggedIn(p) == {d \in Conn : sessions[p] = d /\ loggedIn[d]}

\* The connections that kickPlayer(p) disconnects.
Kicked(p) ==
    IF sessions[p] = NoConn THEN {} ELSE Matching(sessions[p]) \cup {sessions[p]}

\* kickPlayer after a ban.  A login that is not registered yet slips through.
KickPlayer(p) ==
    /\ p \in kicking
    /\ kicking' = kicking \ {p}
    /\ dead'    = [c \in Conn |-> dead[c] \/ c \in Kicked(p)]
    /\ slipped' = slipped \cup {c \in Conn : pc[c] \in {"checked", "waiting"}}
    /\ UNCHANGED <<pc, known, acct, pid, loggedIn, sessions, qr2Logins, dbProfile,
                   banned, drift>>

\* A moderator's kick (api/kick.go).  The order to the clients that follows a
\* kick and a close after three seconds changes no table.
HandleKick(p) ==
    /\ Kicked(p) # {}
    /\ dead' = [c \in Conn |-> dead[c] \/ c \in Kicked(p)]
    /\ UNCHANGED <<pc, known, acct, pid, loggedIn, sessions, qr2Logins, dbVars,
                   drift, slipped>>

-----------------------------------------------------------------------------
(* Restart: only the sessions map is saved, and sessionsByConnIndex rebuilt  *)
(* from it.  The frontend waits for every call to return first.              *)

KnownAfterLoad(c) == \E p \in Profile : sessions[p] = c

Reload ==
    /\ \A c \in Conn : pc[c] \in {"none", "idle", "closed"}
    /\ known' = [c \in Conn |-> KnownAfterLoad(c)]
    /\ UNCHANGED <<pc, dead, acct, pid, loggedIn, sessions, qr2Logins, dbVars,
                   drift, slipped>>

-----------------------------------------------------------------------------
Next ==
    \/ \E c \in Conn :
        \/ NewConnection(c) \/ Disconnect(c)
        \/ LoginCheckFails(c) \/ ExLoginCheckFails(c)
        \/ \E u \in User, p \in Profile \cup {NoProfile} :
              Login(c, u, p) \/ LoginRefused(c, u, p)
        \/ LoginLookup(c) \/ LoginPoll(c) \/ LoginGiveUp(c) \/ LoginDone(c)
        \/ ExLogin(c) \/ ExLoginRefused(c)
        \/ CloseConnection(c) \/ CloseDelete(c)
    \/ \E p \in Profile : BanUser(p) \/ UnbanUser(p) \/ KickPlayer(p) \/ HandleKick(p)
    \/ Reload

\* The goroutine of a connection goes on when it can: a handler comes to its
\* end, and a closed socket is noticed.
Advance(c) ==
    \/ LoginLookup(c) \/ LoginPoll(c) \/ LoginGiveUp(c) \/ LoginDone(c)
    \/ CloseConnection(c) \/ CloseDelete(c)

Fairness == \A c \in Conn : WF_vars(Advance(c))

Spec == Init /\ [][Next]_vars /\ Fairness

-----------------------------------------------------------------------------
(* The promise of module Presence, read off gpcm's own tables. *)

PhaseOf(p) ==
    CASE drift                              -> "unknown"
      [] ~drift /\ sessions[p] = NoConn     -> "free"
      [] ~drift /\ sessions[p] # NoConn     ->
            CASE pc[sessions[p]] = "registered" -> "entering"
              [] pc[sessions[p]] = "leaving"    -> "leaving"
              [] OTHER                          -> "present"

P == INSTANCE Presence WITH
        holder    <- IF drift THEN [p \in Profile |-> NoConn] ELSE sessions,
        phase     <- [p \in Profile |-> PhaseOf(p)],
        announced <- IF drift THEN {} ELSE qr2Logins

-----------------------------------------------------------------------------
(* Properties. *)

\* Package gpcm implements Presence: through any interleaving of logins that
\* poll for the end of another, of closes, kicks and restarts, a profile passes
\* from one connection to the next only by way of Withdraw and Free, and qr2
\* knows it exactly in between (login.go:381-425, main.go:112-164).
ImplementsPresence == P!Spec

\* The tables agree as long as no exLogin replaced a session's profile ID: a
\* profile's entry in sessions is the one connection that is logged in, or
\* about to be, under that profile, and it is not closed; the backend knows its
\* connection, restarts included; and qr2's login of the profile belongs to it
\* (login.go:381-402, main.go:118-160, 343-365).
SessionsAgree ==
    ~drift =>
        /\ \A p \in Profile : LET c == sessions[p] IN
              c # NoConn => /\ pid[c] = p
                            /\ pc[c] \in {"registered", "idle", "leaving"}
                            /\ pc[c] # "registered" => loggedIn[c]
        /\ \A c \in Conn :
              loggedIn[c] \/ pc[c] = "registered" =>
                 pid[c] # NoProfile /\ sessions[pid[c]] = c /\ known[c]
        /\ \A p \in Profile :
              p \in qr2Logins <=>
                 \E c \in Conn : sessions[p] = c /\ loggedIn[c] /\ pc[c] # "leaving"

\* A connection that is closed is still registered only under a profile that
\* is not its own any more: an exLogin, which reads the row again and stores an
\* empty User when it is refused, replaced the ID under which CloseConnection
\* deletes (login.go:456-464, main.go:158-163).  The profile cannot log in again.
StaleOnlyAfterExLogin ==
    \A p \in Profile : LET c == sessions[p] IN
        c # NoConn /\ pc[c] = "closed" => pid[c] # p /\ drift

\* The session tables of a server that runs and restarts.
SessionsInv == TypeOK /\ SessionsAgree /\ StaleOnlyAfterExLogin

\* A banned user that stays connected after the kick is one the kick could not
\* find: it was in the middle of its login, the ban not stored yet when the
\* database was asked and the session not registered yet when kickPlayer read
\* the map; or another login, refused or not, moved its row, and the ban with
\* it, to a profile ID that is not the session's (gpcm/login.go:371-401,
\* kick.go:113-134, database/login.go:195-202).
BannedOnlySlipped ==
    ~drift => \A c \in Conn :
        /\ loggedIn[c] \/ pc[c] = "registered"
        /\ acct[c] \in banned
        /\ pid[c] \notin kicking
        => dead[c] \/ c \in slipped

\* Once the socket of a session is closed the session gives its profile up, so
\* that a login that waits for it need not wait for ever, unless an exLogin
\* replaced a profile ID (main.go:112-164).
ProfileFreed ==
    \A c \in Conn :
        (dead[c] /\ \E p \in Profile : sessions[p] = c) ~>
            (drift \/ \A p \in Profile : sessions[p] # c)

=============================================================================
