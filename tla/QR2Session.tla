----------------------------- MODULE QR2Session -----------------------------
(***************************************************************************)
(* The session and login tables of package qr2: session.go, logins.go,     *)
(* heartbeat.go, challenge.go, the packet switch of main.go, and what a    *)
(* client message (message.go) does to them.                               *)
(*                                                                         *)
(* Sessions and LoginInfos are objects: the tables, each other and         *)
(* handlers point to them, and a pointer may outlive the table entry.  The *)
(* session's side of rooms is in module QR2Group.                          *)
(***************************************************************************)
EXTENDS Naturals, FiniteSets

CONSTANTS
    Addr,       \* addresses of clients
    Sess,       \* Session objects, each created once
    Login,      \* LoginInfo objects, each created once
    Profile,    \* profile IDs
    None,       \* no object, no profile ID
    MaxRaces    \* bound: calls of setProfileID that other steps interleave with

ASSUME QR2SessionAssumption ==
    /\ None \notin Addr \cup Sess \cup Login \cup Profile
    /\ MaxRaces \in Nat

VARIABLES
    table,      \* sessions
    search,     \* the sessions in sessionBySearchID
    addrOf,     \* Session.Addr, None for an object that was not created yet
    pidOf,      \* Session.Data["dwc_pid"]
    loginOf,    \* Session.login
    chal,       \* sessions with a Challenge
    authd,      \* Session.Authenticated
    silent,     \* sessions whose LastKeepAlive is more than an hour ago
    logins,     \* logins
    sessOf,     \* LoginInfo.session
    beat,       \* what is left of the address's heartbeat, see Beats
    held,       \* sessions that a SendClientMessage has a pointer to
    race,       \* the sender's setProfileID under way without the mutex, see Races
    races,      \* such calls so far
    crashed,    \* the process ended, or waits for a mutex nobody will release
    tainted,    \* history: logins whose link was changed by a message
    loose       \* history: profiles whose tables were changed without the mutex

tableVars == <<table, search, pidOf, loginOf, sessOf>>
flagVars  == <<chal, authd, silent>>
raceVars  == <<race, races, loose>>
vars == <<tableVars, addrOf, flagVars, logins, beat, held, raceVars, crashed, tainted>>

Beats == {"none", "unknown", "challenge"}

\* How far setProfileID is, and its variables newPID, loginInfo, and the address
\* of the session to remove.
Races == [at    : {"none", "found", "linked", "unlinked", "removed", "owned"},
          pid   : Profile \cup {None},
          login : Login \cup {None},
          addr  : Addr \cup {None}]

NoRace == [at |-> "none", pid |-> None, login |-> None, addr |-> None]

TypeOK ==
    /\ table   \in [Addr -> Sess \cup {None}]
    /\ search  \subseteq Sess
    /\ addrOf  \in [Sess -> Addr \cup {None}]
    /\ pidOf   \in [Sess -> Profile \cup {None}]
    /\ loginOf \in [Sess -> Login \cup {None}]
    /\ chal    \subseteq Sess
    /\ authd   \subseteq Sess
    /\ silent  \subseteq Sess
    /\ logins  \in [Profile -> Login \cup {None}]
    /\ sessOf  \in [Login -> Sess \cup {None}]
    /\ beat    \in [Addr -> Beats]
    /\ held    \subseteq Sess
    /\ race    \in [Sess -> Races]
    /\ races   \in 0 .. MaxRaces
    /\ crashed \in BOOLEAN
    /\ tainted \subseteq Login
    /\ loose   \subseteq Profile

Init ==
    /\ table   = [a \in Addr |-> None]
    /\ search  = {}
    /\ addrOf  = [s \in Sess |-> None]
    /\ pidOf   = [s \in Sess |-> None]
    /\ loginOf = [s \in Sess |-> None]
    /\ chal    = {}
    /\ authd   = {}
    /\ silent  = {}
    /\ logins  = [p \in Profile |-> None]
    /\ sessOf  = [l \in Login |-> None]
    /\ beat    = [a \in Addr |-> "none"]
    /\ held    = {}
    /\ race    = [s \in Sess |-> NoRace]
    /\ races   = 0
    /\ crashed = FALSE
    /\ tainted = {}
    /\ loose   = {}

Live(s) == \E a \in Addr : table[a] = s

\* The profiles whose entries point to session s or that it points to.
Touched(s) == {p \in Profile : p = pidOf[s] \/ (logins[p] # None /\ logins[p] = loginOf[s])}

-----------------------------------------------------------------------------
(* The helpers work on the tables as one record and return it changed.      *)

Tables == [table |-> table, search |-> search, pidOf |-> pidOf,
           loginOf |-> loginOf, sessOf |-> sessOf]

Become(t) ==
    /\ table'   = t.table
    /\ search'  = t.search
    /\ pidOf'   = t.pidOf
    /\ loginOf' = t.loginOf
    /\ sessOf'  = t.sessOf

removeSession(t, a) ==
    LET s == t.table[a]
        l == t.loginOf[s]
    IN  IF s = None THEN t
        ELSE [t EXCEPT !.table[a]   = None,
                       !.search     = @ \ {s},
                       !.loginOf[s] = None,
                       !.sessOf     = IF l = None THEN @ ELSE [@ EXCEPT ![l] = None]]

\* Whether setProfileID returns true; a rating error, for which it releases the
\* mutex that its caller has locked, is among the refusals and changes nothing.
PidAccepted(s, p) == pidOf[s] = p \/ (pidOf[s] = None /\ logins[p] # None)

\* Mutant: the profile's outdated session is not removed.
setProfileIDKeep(t, s, p, a) ==
    IF t.pidOf[s] # None THEN t
    ELSE [t EXCEPT !.loginOf[s] = logins[p], !.sessOf[logins[p]] = s, !.pidOf[s] = p]

\* Mutant: the session at the address is removed, not the profile's.
setProfileIDHere(t, s, p, a) ==
    IF t.pidOf[s] # None THEN t
    ELSE [removeSession(t, a) EXCEPT !.loginOf[s] = logins[p],
                                     !.sessOf[logins[p]] = s, !.pidOf[s] = p]

\* Session s, whose address is a, gets profile p.  The outdated session is
\* removed by its address.
setProfileID(t, s, p, a) ==
    LET l     == logins[p]
        old   == t.sessOf[l]
        t1    == [t EXCEPT !.loginOf[s] = l]
        oldAt == IF old = s THEN a ELSE addrOf[old]
        t2    == IF old = None THEN t1 ELSE removeSession(t1, oldAt)
    IN  IF t.pidOf[s] # None THEN t
        ELSE [t2 EXCEPT !.sessOf[l] = s, !.pidOf[s] = p]

-----------------------------------------------------------------------------
(* Packets. *)

\* setSessionData for a client without a session: the new session gets its
\* profile before it is entered.
HeartbeatCreate(a, p) ==
    /\ beat[a] = "none"
    /\ table[a] = None
    /\ p # None => logins[p] # None
    /\ \E s \in {x \in Sess : addrOf[x] = None} :
        LET t == IF p = None THEN Tables ELSE setProfileID(Tables, s, p, a)
        IN  /\ table'  = [t.table EXCEPT ![a] = s]
            /\ search' = t.search \cup {s}
            /\ pidOf' = t.pidOf /\ loginOf' = t.loginOf /\ sessOf' = t.sessOf
            /\ addrOf' = [addrOf EXCEPT ![s] = a]
    /\ \E b \in {"unknown", "challenge"} : beat' = [beat EXCEPT ![a] = b]
    /\ UNCHANGED <<flagVars, logins, held, raceVars, crashed,
                   tainted>>

\* setSessionData for a client that has one.
HeartbeatUpdate(a, p) ==
    /\ beat[a] = "none"
    /\ LET s == table[a]
       IN  /\ s # None
           /\ p # None => PidAccepted(s, p)
           /\ Become(IF p = None THEN Tables ELSE setProfileID(Tables, s, p, a))
           /\ silent' = silent \ {s}
           /\ \E b \in {"unknown"} \cup (IF s \in authd THEN {"none"} ELSE {"challenge"}) :
                 beat' = [beat EXCEPT ![a] = b]
    /\ UNCHANGED <<addrOf, chal, authd, logins, held, raceVars, crashed, tainted>>

\* The heartbeat looks its session up again to try an unknown key as profile
\* ID.  The error of a session that is gone is logged, and its nil pointer
\* dereferenced.
HeartbeatUnknown(a, p) ==
    /\ beat[a] = "unknown"
    /\ beat' = [beat EXCEPT ![a] = "challenge"]
    /\ \/ /\ table[a] = None
          /\ crashed' = TRUE
          /\ UNCHANGED tableVars
       \/ /\ table[a] # None
          /\ LET s == table[a]
             IN  Become(IF loginOf[s] = None /\ PidAccepted(s, p)
                        THEN setProfileID(Tables, s, p, a) ELSE Tables)
          /\ UNCHANGED crashed
    /\ UNCHANGED <<addrOf, flagVars, logins, held, raceVars, tainted>>

\* sendChallenge.
SendChallenge(a) ==
    /\ beat[a] = "challenge"
    /\ beat' = [beat EXCEPT ![a] = "none"]
    /\ chal' = IF table[a] = None THEN chal ELSE chal \cup {table[a]}
    /\ UNCHANGED <<tableVars, addrOf, authd, silent, logins, held, raceVars, crashed,
                   tainted>>

\* A heartbeat with statechanged 2: the client goes.
HeartbeatShutdown(a) ==
    /\ table[a] # None
    /\ Become(removeSession(Tables, a))
    /\ UNCHANGED <<addrOf, flagVars, logins, beat, held, raceVars, crashed, tainted>>

\* CHALLENGE.
ChallengeReply(a) ==
    /\ table[a] \in chal
    /\ authd' = authd \cup {table[a]}
    /\ UNCHANGED <<tableVars, addrOf, chal, silent, logins, beat, held, raceVars,
                   crashed, tainted>>

\* KEEPALIVE, and time.
KeepAlive(a) ==
    /\ table[a] # None
    /\ silent' = silent \ {table[a]}
    /\ UNCHANGED <<tableVars, addrOf, chal, authd, logins, beat, held, raceVars,
                   crashed, tainted>>

Silence(a) ==
    /\ table[a] # None
    /\ silent' = silent \cup {table[a]}
    /\ UNCHANGED <<tableVars, addrOf, chal, authd, logins, beat, held, raceVars,
                   crashed, tainted>>

\* GetSessionServers: sessions that have been silent for an hour are removed.
GetSessionServers(a) ==
    /\ table[a] # None
    /\ table[a] \in silent
    /\ Become(removeSession(Tables, a))
    /\ UNCHANGED <<addrOf, flagVars, logins, beat, held, raceVars, crashed, tainted>>

-----------------------------------------------------------------------------
(* Calls from gpcm. *)

\* Login.  gpcm has no other session of the profile (module GPCM).  Nothing is
\* left of what happened under an earlier login once no session names it.
GPLogin(p) ==
    /\ logins[p] = None
    /\ \E l \in Login :
        /\ \A q \in Profile : logins[q] # l
        /\ sessOf[l] = None
        /\ \A s \in Sess : loginOf[s] # l /\ race[s].login # l
        /\ l \notin tainted
        /\ logins' = [logins EXCEPT ![p] = l]
    /\ loose' = IF \E s \in Sess : (Live(s) /\ pidOf[s] = p) \/ race[s].pid = p
                THEN loose ELSE loose \ {p}
    /\ UNCHANGED <<tableVars, addrOf, flagVars, beat, held, race, races, crashed,
                   tainted>>

Logout(p) ==
    /\ logins[p] # None
    /\ LET s == sessOf[logins[p]]
       IN  Become(IF s = None THEN Tables ELSE removeSession(Tables, addrOf[s]))
    /\ logins' = [logins EXCEPT ![p] = None]
    /\ UNCHANGED <<addrOf, flagVars, beat, held, raceVars, crashed, tainted>>

-----------------------------------------------------------------------------
(* Client messages: their sender and receiver are looked up, and used with   *)
(* the mutex released.                                                       *)

MessageStart(s) ==
    /\ Live(s)
    /\ s \in authd
    /\ held' = held \cup {s}
    /\ UNCHANGED <<tableVars, addrOf, flagVars, logins, beat, raceVars, crashed,
                   tainted>>

MessageEnd(s) ==
    /\ s \in held
    /\ held' = held \ {s}
    /\ UNCHANGED <<tableVars, addrOf, flagVars, logins, beat, raceVars, crashed,
                   tainted>>

\* The sender's setProfileID, with the profile ID that the message names, when
\* nothing else happens during the call.
MessageSetsPid(s, p) ==
    /\ s \in held
    /\ pidOf[s] = None
    /\ logins[p] # None
    /\ Become(setProfileID(Tables, s, p, addrOf[s]))
    /\ tainted' = IF Live(s) THEN tainted ELSE tainted \cup {logins[p]}
    /\ UNCHANGED <<addrOf, flagVars, logins, beat, held, raceVars, crashed>>

\* The call runs without the mutex that setProfileID "expects to already be
\* locked", so anything may happen between its reads and writes.  These are its
\* steps.  It has no profile ID yet, and the profile is logged in;
RaceFind(s, p) ==
    /\ s \in held
    /\ race[s].at = "none" /\ races < MaxRaces
    /\ pidOf[s] = None
    /\ logins[p] # None
    /\ race'  = [race EXCEPT ![s] = [at |-> "found", pid |-> p, login |-> logins[p],
                                     addr |-> None]]
    /\ races' = races + 1
    /\ loose' = loose \cup {p}
    /\ UNCHANGED <<tableVars, addrOf, flagVars, logins, beat, held, crashed, tainted>>

\* session.login is set, and the address of the login's session read;
RaceLink(s) ==
    LET l   == race[s].login
        old == sessOf[l]
    IN  /\ race[s].at = "found"
        /\ loginOf' = [loginOf EXCEPT ![s] = l]
        /\ race' = IF old = None THEN [race EXCEPT ![s].at = "removed"]
                   ELSE [race EXCEPT ![s].at = "linked", ![s].addr = addrOf[old]]
        /\ loose' = loose \cup Touched(s)
        /\ UNCHANGED <<table, search, pidOf, sessOf, addrOf, flagVars, logins, beat,
                       held, races, crashed, tainted>>

\* removeSession parts the session at the address from its login;
RaceUnlink(s) ==
    LET x == table[race[s].addr]
        l == loginOf[x]
    IN  /\ race[s].at = "linked"
        /\ \/ /\ x = None
              /\ race' = [race EXCEPT ![s].at = "removed"]
              /\ UNCHANGED <<loginOf, sessOf, loose>>
           \/ /\ x # None
              /\ loginOf' = [loginOf EXCEPT ![x] = None]
              /\ sessOf' = IF l = None THEN sessOf ELSE [sessOf EXCEPT ![l] = None]
              /\ race' = [race EXCEPT ![s].at = "unlinked"]
              /\ loose' = loose \cup Touched(x)
        /\ UNCHANGED <<table, search, pidOf, addrOf, flagVars, logins, beat, held,
                       races, crashed, tainted>>

\* and deletes what is at the address then, if anything still is;
RaceDelete(s) ==
    LET a == race[s].addr
        x == table[a]
    IN  /\ race[s].at = "unlinked"
        /\ x # None
        /\ table'  = [table EXCEPT ![a] = None]
        /\ search' = search \ {x}
        /\ race'   = [race EXCEPT ![s].at = "removed"]
        /\ loose'  = loose \cup Touched(x)
        /\ UNCHANGED <<pidOf, loginOf, sessOf, addrOf, flagVars, logins, beat, held,
                       races, crashed, tainted>>

\* the login gets its session;
RaceOwn(s) ==
    /\ race[s].at = "removed"
    /\ sessOf' = [sessOf EXCEPT ![race[s].login] = s]
    /\ race'   = [race EXCEPT ![s].at = "owned"]
    /\ UNCHANGED <<table, search, pidOf, loginOf, addrOf, flagVars, logins, beat,
                   held, races, loose, crashed, tainted>>

\* the session gets its profile ID.
RacePid(s) ==
    /\ race[s].at = "owned"
    /\ pidOf' = [pidOf EXCEPT ![s] = race[s].pid]
    /\ race'  = [race EXCEPT ![s] = NoRace]
    /\ loose' = loose \cup Touched(s)
    /\ UNCHANGED <<table, search, loginOf, sessOf, addrOf, flagVars, logins, beat,
                   held, races, crashed, tainted>>

\* Or the call ends badly: the login's session, or the one to delete, becomes
\* nil between two reads of it; the runtime sees a map written while it is read;
\* after a rating error a mutex is unlocked that is not locked, or another
\* handler's, and then locked for good.
RaceFatal(s) ==
    /\ race[s].at \in {"found", "linked", "unlinked"}
    /\ crashed' = TRUE
    /\ UNCHANGED <<tableVars, addrOf, flagVars, logins, beat, held, raceVars, tainted>>

\* No ack in ten seconds: the player is kicked and the session loses its
\* login, which keeps the session.
AckTimeout(s) ==
    /\ s \in held
    /\ loginOf[s] # None
    /\ loginOf' = [loginOf EXCEPT ![s] = None]
    /\ tainted' = tainted \cup {loginOf[s]}
    /\ held'    = held \ {s}
    /\ UNCHANGED <<table, search, pidOf, sessOf, addrOf, flagVars, logins, beat,
                   raceVars, crashed>>

-----------------------------------------------------------------------------
\* Shutdown and StartServer: handlers are waited for, pointers are not saved;
\* loadLogins links sessions and logins by profile ID.
Reload ==
    /\ \A a \in Addr : beat[a] = "none"
    /\ held = {} /\ \A s \in Sess : race[s].at = "none"
    /\ search'  = {s \in Sess : Live(s)}
    /\ loginOf' = [s \in Sess |-> IF Live(s) /\ pidOf[s] # None
                                  THEN logins[pidOf[s]] ELSE None]
    /\ sessOf' \in [Login -> Sess \cup {None}]
    /\ \A l \in Login :
          LET linked == {s \in Sess : loginOf'[s] = l}
          IN  IF linked = {} THEN sessOf'[l] = None ELSE sessOf'[l] \in linked
    /\ tainted' = {}
    /\ UNCHANGED <<table, pidOf, addrOf, flagVars, logins, beat, held, raceVars,
                   crashed>>

Raced(s) ==
    \/ RaceLink(s) \/ RaceUnlink(s) \/ RaceDelete(s) \/ RaceOwn(s) \/ RacePid(s)
    \/ RaceFatal(s)

Next ==
    \/ \E a \in Addr :
        \/ \E p \in Profile \cup {None} : HeartbeatCreate(a, p) \/ HeartbeatUpdate(a, p)
        \/ \E p \in Profile : HeartbeatUnknown(a, p)
        \/ SendChallenge(a) \/ HeartbeatShutdown(a) \/ ChallengeReply(a)
        \/ KeepAlive(a) \/ Silence(a) \/ GetSessionServers(a)
    \/ \E p \in Profile : GPLogin(p) \/ Logout(p)
    \/ \E s \in Sess :
        \/ MessageStart(s) \/ MessageEnd(s) \/ AckTimeout(s)
        \/ \E p \in Profile : MessageSetsPid(s, p) \/ RaceFind(s, p)
        \/ Raced(s)
    \/ Reload

\* A crash ends the process.
Spec == Init /\ [][~crashed /\ Next]_vars

-----------------------------------------------------------------------------
(* Properties. *)

\* "only one session can exist with a given profile ID" (session.go:238).
OneSessionPerProfile ==
    \A s, t \in Sess :
        Live(s) /\ Live(t) /\ pidOf[s] = pidOf[t] /\ pidOf[s] # None => s = t

\* The constraint for the profiles that no setProfileID without the mutex has
\* been interleaved over.
OneSessionLocked ==
    \A s, t \in Sess :
        Live(s) /\ Live(t) /\ pidOf[s] = pidOf[t] /\ pidOf[s] \notin loose \cup {None}
            => s = t

\* A login and its session point to each other and are registered, unless a
\* message changed one side of it: it timed out, or gave a profile to a session
\* that had been removed meanwhile, or other steps came between the ones of its
\* setProfileID (session.go:210-259, logins.go:74-88, message.go:110,
\* message.go:279-284).
LinksAgree ==
    /\ \A p \in Profile \ loose : LET l == logins[p] IN
          l # None /\ l \notin tainted /\ sessOf[l] # None =>
             Live(sessOf[l]) /\ loginOf[sessOf[l]] = l /\ pidOf[sessOf[l]] = p
    /\ \A s \in Sess : LET l == loginOf[s] IN
          /\ Live(s) /\ l # None /\ l \notin tainted
          /\ Touched(s) \cap loose = {} /\ Touched(s) # {}
          => logins[pidOf[s]] = l /\ sessOf[l] = s

\* A session can be found by its search ID exactly as long as by its address
\* (session.go:70-71, 163-168, 382).
SearchAgrees == search = {s \in Sess : Live(s)}

\* QR2's three tables, of sessions by address and by search ID and of logins by
\* profile, agree on who plays under which profile (session.go:52-259), but for
\* the profiles that a setProfileID without the mutex has torn apart.
TablesInv == TypeOK /\ OneSessionLocked /\ LinksAgree /\ SearchAgrees

\* What a message leaves behind: profiles whose session is not the login's.
Frayed == loose \cup {p \in Profile : logins[p] \in tainted}

\* A client's session is taken from it only by its own shutdown or silence, or
\* when its profile logs out or gets another session, although removeSession
\* goes by an address that another client may have by now; unless a message
\* left the login with a session that is gone, or removes it without the mutex
\* (session.go:52-74, 241-244, 300-320, logins.go:74-88).
BystandersStay ==
    [][\A s \in Sess : Live(s) /\ ~Live(s)' =>
          \/ HeartbeatShutdown(addrOf[s]) \/ GetSessionServers(addrOf[s])
          \/ \E p \in {pidOf[s]} \cup Frayed :
                \/ p # None /\ \E t \in Sess : pidOf[t] # p /\ pidOf'[t] = p
                \/ p # None /\ logins[p] # None /\ logins'[p] = None
          \/ \E t \in Sess : RaceDelete(t)]_vars

=============================================================================
