------------------------------ MODULE Frontend ------------------------------
(***************************************************************************)
(* The two processes of main.go: the frontend, which owns the TCP          *)
(* connections of the game clients, and the backend, which runs the        *)
(* servers and can be restarted under the frontend.  They talk by RPC, in  *)
(* both directions and synchronously (common/connection.go).               *)
(*                                                                         *)
(* rpcMutex is taken for a moment by every forwarded packet and by every   *)
(* reply of the backend, which are steps of their own here, and for the    *)
(* whole length of a restart, which is the variable mutex.  A connection   *)
(* is one of the gpcm server, whose session the backend keeps by           *)
(* connection index.  A connection index is never used twice.              *)
(*                                                                         *)
(* Left out: the frontend's own shutdown, and a backend that dies without  *)
(* being asked to (the frontend then exits at the next call).              *)
(***************************************************************************)
EXTENDS Integers, FiniteSets

CONSTANTS
    Conn,         \* connection indices
    Integrated,   \* the frontend starts the backend process itself
    Reloads,      \* an external program may call ReloadBackend
    MaxRestarts   \* bound: restarts of the backend

ASSUME FrontendAssumption ==
    /\ Integrated \in BOOLEAN
    /\ Reloads \in BOOLEAN
    /\ MaxRestarts \in Nat

VARIABLES
    mutex,      \* rpcMutex: "free", or "held" by a restart
    pc,         \* handleConnection of a connection
    sock,       \* its TCP socket: "open", or "closed" by either side
    conns,      \* the connections map
    call,       \* the backend's goroutine that serves the connection's call
    restart,    \* where ShutdownBackend and what follows it is
    via,        \* who started the restart: "reload" or "signal"
    restarts,   \* restarts so far
    waiting,    \* waitForBackend goroutines blocked on backendReady
    dialing,    \* waitForBackend goroutines past it
    fatal,      \* "sync: unlock of unlocked mutex" in the frontend
    uuid,       \* frontendUuid, 0 for ""
    backend,    \* the backend process
    noReload,   \* it was started with --noreload
    known,      \* gpcm's sessionsByConnIndex
    loggedIn,   \* gpcm's sessions: the ones it saves
    told,       \* connections whose client was told that it is logged in
    kick,       \* connections KickPlayer has still to close, with gpcm's mutex
    closing,    \* gamestats closes a reloaded connection before it is up
    saved,      \* state/gpcm_sessions.gob
    savedUuid   \* state/uuid.txt, 0 for a missing file, -1 for one left behind
                \* by an earlier frontend

frontVars   == <<mutex, pc, sock, conns>>
restartVars == <<restart, via, restarts, waiting, dialing, fatal, uuid>>
backVars    == <<backend, noReload, known, loggedIn, told, kick, closing>>
diskVars    == <<saved, savedUuid>>
vars        == <<frontVars, call, restartVars, backVars, diskVars>>

\* The RPCs that rpcBusyCount counts.
Calling == {"new", "packet", "close"}

Busy == {c \in Conn : pc[c] \in Calling}

TypeOK ==
    /\ mutex \in {"free", "held"}
    /\ pc \in [Conn -> {"idle", "accepted", "reading", "got", "eof", "done"}
                          \cup Calling]
    /\ sock \in [Conn -> {"open", "closed"}]
    /\ conns \subseteq Conn
    /\ call \in [Conn -> {"none", "run", "send", "sent"}]
    /\ restart \in {"none", "lock", "drain", "stop", "boot"}
    /\ via \in {"reload", "signal"}
    /\ restarts \in 0 .. MaxRestarts
    /\ waiting \in 0 .. 2
    /\ dialing \in 0 .. 2
    /\ fatal \in BOOLEAN
    /\ uuid \in 0 .. MaxRestarts
    /\ backend \in {"off", "boot", "loaded", "ready"}
    /\ noReload \in BOOLEAN
    /\ known \subseteq Conn
    /\ loggedIn \subseteq known
    /\ told \subseteq Conn
    /\ kick \subseteq Conn
    /\ closing \in BOOLEAN
    /\ saved \subseteq Conn
    /\ savedUuid \in -1 .. MaxRestarts

\* frontendMain has locked the mutex and waits for its first backend, which the
\* integrated frontend starts with --noreload.
Init ==
    /\ mutex = "held"
    /\ pc = [c \in Conn |-> "idle"]
    /\ sock = [c \in Conn |-> "open"]
    /\ conns = {}
    /\ call = [c \in Conn |-> "none"]
    /\ restart = "none"
    /\ via = "reload"
    /\ restarts = 0
    /\ waiting = 1
    /\ dialing = 0
    /\ fatal = FALSE
    /\ uuid = 0
    /\ backend = "boot"
    /\ noReload = Integrated
    /\ known = {}
    /\ loggedIn = {}
    /\ told = {}
    /\ kick = {}
    /\ closing = FALSE
    /\ saved = {}
    /\ savedUuid \in {-1, 0}

-----------------------------------------------------------------------------
(* The frontend: handleConnection. *)

Accept(c) ==
    /\ pc[c] = "idle"
    /\ pc' = [pc EXCEPT ![c] = "accepted"]
    /\ UNCHANGED <<mutex, sock, conns, call, restartVars, backVars, diskVars>>

\* Mutant: the new connection is counted without taking rpcMutex.
ForwardNewUnlocked(c) ==
    /\ pc[c] = "accepted"
    /\ conns' = conns \cup {c}
    /\ pc' = [pc EXCEPT ![c] = "new"]
    /\ call' = [call EXCEPT ![c] = "send"]
    /\ UNCHANGED <<mutex, sock, restartVars, backVars, diskVars>>

\* The connection is registered and forwarded.  gpcm.NewConnection starts by
\* sending a packet to the client.
ForwardNew(c) ==
    /\ pc[c] = "accepted"
    /\ mutex = "free"
    /\ conns' = conns \cup {c}
    /\ pc' = [pc EXCEPT ![c] = "new"]
    /\ call' = [call EXCEPT ![c] = "send"]
    /\ UNCHANGED <<mutex, sock, restartVars, backVars, diskVars>>

\* conn.Read returns data, or an error once the socket is closed.
Read(c) ==
    /\ pc[c] = "reading"
    /\ pc' = [pc EXCEPT ![c] = IF sock[c] = "open" THEN "got" ELSE "eof"]
    /\ UNCHANGED <<mutex, sock, conns, call, restartVars, backVars, diskVars>>

ForwardPacket(c) ==
    /\ pc[c] = "got"
    /\ mutex = "free"
    /\ pc' = [pc EXCEPT ![c] = "packet"]
    /\ call' = [call EXCEPT ![c] = "run"]
    /\ UNCHANGED <<mutex, sock, conns, restartVars, backVars, diskVars>>

\* Mutant: a connection that was reset is counted and not taken off the count.
ForwardCloseLeaks(c) ==
    /\ pc[c] = "eof"
    /\ mutex = "free"
    /\ conns' = conns \ {c}
    /\ pc' = [pc EXCEPT ![c] = "close"]
    /\ call' = [call EXCEPT ![c] = IF c \in conns THEN "run" ELSE "none"]
    /\ UNCHANGED <<mutex, sock, restartVars, backVars, diskVars>>

\* The read loop ended.  A connection that was reset meanwhile is not reported.
ForwardClose(c) ==
    /\ pc[c] = "eof"
    /\ mutex = "free"
    /\ \/ /\ c \notin conns
          /\ pc' = [pc EXCEPT ![c] = "done"]
          /\ UNCHANGED <<conns, call>>
       \/ /\ c \in conns
          /\ conns' = conns \ {c}
          /\ pc' = [pc EXCEPT ![c] = "close"]
          /\ call' = [call EXCEPT ![c] = "run"]
    /\ UNCHANGED <<mutex, sock, restartVars, backVars, diskVars>>

\* The client hangs up.  A kick that qr2 asks for looks the same: it holds no
\* lock while it waits for rpcMutex (RPCFrontendPacket.CloseConnection).
Hangup(c) ==
    /\ pc[c] \in {"accepted", "reading", "got"} \cup Calling
    /\ sock[c] = "open"
    /\ sock' = [sock EXCEPT ![c] = "closed"]
    /\ UNCHANGED <<mutex, pc, conns, call, restartVars, backVars, diskVars>>

-----------------------------------------------------------------------------
(* The backend: a goroutine that serves one of these calls. *)

\* HandlePacket looks up its session under gpcm's mutex and answers, and
\* CloseConnection tells the friends: common.SendPacket is a call back into the
\* frontend.  Without a session for the connection they just return.
Reply(c) ==
    /\ pc[c] \in {"packet", "close"}
    /\ c \in known
    /\ kick = {}
    /\ call[c] = "run"
    /\ call' = [call EXCEPT ![c] = "send"]
    /\ UNCHANGED <<frontVars, restartVars, backVars, diskVars>>

\* RPCFrontendPacket.SendPacket needs rpcMutex.
SendPacket(c) ==
    /\ call[c] = "send"
    /\ mutex = "free"
    /\ call' = [call EXCEPT ![c] = "sent"]
    /\ UNCHANGED <<frontVars, restartVars, backVars, diskVars>>

\* The call returns.  NewConnection files a session; a packet may log it in if
\* there is one; CloseConnection logs it out and keeps the session filed.  All
\* of it is done under gpcm's mutex.
Return(c) ==
    /\ call[c] \in {"run", "sent"}
    /\ kick = {} \/ (pc[c] = "packet" /\ call[c] = "sent")
    /\ call' = [call EXCEPT ![c] = "none"]
    /\ \/ /\ pc[c] = "new"
          /\ known' = known \cup {c}
          /\ pc' = [pc EXCEPT ![c] = "reading"]
          /\ UNCHANGED <<loggedIn, told>>
       \/ /\ pc[c] = "packet"
          /\ pc' = [pc EXCEPT ![c] = "reading"]
          /\ \/ /\ call[c] = "sent"
                /\ kick = {}
                /\ loggedIn' = loggedIn \cup {c}
                /\ told' = told \cup {c}
             \/ UNCHANGED <<loggedIn, told>>
          /\ UNCHANGED known
       \/ /\ pc[c] = "close"
          /\ pc' = [pc EXCEPT ![c] = "done"]
          /\ loggedIn' = loggedIn \ {c}
          /\ UNCHANGED <<known, told>>
    /\ UNCHANGED <<mutex, sock, conns, restartVars, backend, noReload, kick,
                   closing, diskVars>>

\* KickPlayer, for a moderator: the player's session and the ones that match it,
\* all of them with gpcm's mutex locked.
KickPlayer(cs) ==
    /\ backend \in {"loaded", "ready"}
    /\ kick = {}
    /\ cs # {}
    /\ kick' = cs
    /\ UNCHANGED <<frontVars, call, restartVars, backend, noReload, known,
                   loggedIn, told, closing, diskVars>>

\* replyError sends the reason and closes the connection: both need rpcMutex,
\* and fail for a connection that is gone.
KickClose(c) ==
    /\ c \in kick
    /\ mutex = "free"
    /\ kick' = kick \ {c}
    /\ sock' = [sock EXCEPT ![c] = IF c \in conns THEN "closed" ELSE @]
    /\ UNCHANGED <<mutex, pc, conns, call, restartVars, backend, noReload, known,
                   loggedIn, told, closing, diskVars>>

-----------------------------------------------------------------------------
(* Restarting the backend. *)

\* ReloadBackend is called, or a backend that was not started by the frontend
\* (which passes --nosignal) gets a signal: both go through ShutdownBackend.
StartRestart(v) ==
    /\ restart = "none"
    /\ backend = "ready"
    /\ restarts < MaxRestarts
    /\ IF v = "reload" THEN Reloads ELSE ~Integrated
    /\ restart' = "lock"
    /\ via' = v
    /\ restarts' = restarts + 1
    /\ UNCHANGED <<frontVars, call, waiting, dialing, fatal, uuid, backVars,
                   diskVars>>

\* ShutdownBackend: "Lock indefinitely".
ShutdownLock ==
    /\ restart = "lock"
    /\ mutex = "free"
    /\ mutex' = "held"
    /\ restart' = "drain"
    /\ UNCHANGED <<pc, sock, conns, call, via, restarts, waiting, dialing, fatal,
                   uuid, backVars, diskVars>>

\* Mutant: ShutdownBackend starts waitForBackend in integrated mode too.
DrainedWaitAlways ==
    /\ restart = "drain"
    /\ Busy = {}
    /\ restart' = "stop"
    /\ waiting' = waiting + 1
    /\ IF Integrated THEN UNCHANGED uuid ELSE uuid' = restarts
    /\ UNCHANGED <<frontVars, call, via, restarts, dialing, fatal, backVars,
                   diskVars>>

\* Mutant: ShutdownBackend does not wait for rpcBusyCount.
DrainedAtOnce ==
    /\ restart = "drain"
    /\ restart' = "stop"
    /\ IF Integrated THEN UNCHANGED <<waiting, uuid>>
                     ELSE waiting' = waiting + 1 /\ uuid' = restarts
    /\ UNCHANGED <<frontVars, call, via, restarts, dialing, fatal, backVars,
                   diskVars>>

\* ShutdownBackend: rpcBusyCount.Wait() returns.
Drained ==
    /\ restart = "drain"
    /\ Busy = {}
    /\ restart' = "stop"
    /\ IF Integrated THEN UNCHANGED <<waiting, uuid>>
                     ELSE waiting' = waiting + 1 /\ uuid' = restarts
    /\ UNCHANGED <<frontVars, call, via, restarts, dialing, fatal, backVars,
                   diskVars>>

\* RPCPacket.Shutdown: the servers save their state and the process exits; with
\* an empty UUID it just exits.  gpcm saves under its mutex.  ReloadBackend
\* starts the next process and waits for it.
StopBackend ==
    /\ restart = "stop"
    /\ \/ Integrated /\ UNCHANGED diskVars
       \/ /\ ~Integrated
          /\ kick = {}
          /\ saved' = loggedIn
          /\ savedUuid' = uuid
    /\ kick' = {}
    /\ known' = {}
    /\ loggedIn' = {}
    /\ \/ /\ via = "reload"
          /\ restart' = "boot"
          /\ waiting' = waiting + 1
          /\ backend' = "boot"
          /\ noReload' = FALSE
       \/ /\ via = "signal"
          /\ restart' = "boot"
          /\ backend' = "off"
          /\ UNCHANGED <<waiting, noReload>>
    /\ UNCHANGED <<frontVars, call, via, restarts, dialing, fatal, uuid, told,
                   closing>>

\* The operator starts the backend again, with or without --noreload.
StartBackend ==
    /\ backend = "off"
    /\ backend' = "boot"
    /\ noReload' \in BOOLEAN
    /\ UNCHANGED <<frontVars, call, restartVars, known, loggedIn, told, kick,
                   closing, diskVars>>

\* Mutant: VerifyState does not reset the connections.
VerifyStateNoReset ==
    LET claimed == IF noReload THEN 0 ELSE savedUuid
        reload == claimed = uuid /\ claimed # 0
    IN  /\ backend = "boot"
        /\ mutex = "held"
        /\ backend' = "loaded"
        /\ known' = IF reload THEN saved ELSE {}
        /\ loggedIn' = IF reload THEN saved ELSE {}
        /\ UNCHANGED <<frontVars, call, restartVars, noReload, told, kick,
                       closing, diskVars>>

\* backendMain: VerifyState, then the servers load what they saved, or not.
\* gamestats closes a loaded connection of a game it no longer knows, if there
\* is one.  (VerifyState refuses a second backend while the first is connected.)
VerifyState ==
    LET claimed == IF noReload THEN 0 ELSE savedUuid
    IN  /\ backend = "boot"
        /\ mutex = "held"
        /\ backend' = "loaded"
        /\ \/ /\ claimed # uuid
              /\ sock' = [c \in Conn |-> IF c \in conns THEN "closed" ELSE sock[c]]
              /\ conns' = {}
              /\ UNCHANGED <<known, loggedIn, closing>>
           \/ /\ claimed = uuid
              /\ known' = IF claimed # 0 THEN saved ELSE {}
              /\ loggedIn' = IF claimed # 0 THEN saved ELSE {}
              /\ closing' \in IF claimed # 0 THEN BOOLEAN ELSE {FALSE}
              /\ UNCHANGED <<sock, conns>>
        /\ UNCHANGED <<mutex, pc, call, restartVars, noReload, told, kick,
                       diskVars>>

\* Closing backendReady wakes everybody who waits on it.  backendMain gets here
\* when every server has started, and CloseConnection needs rpcMutex.
Ready ==
    /\ backend = "loaded"
    /\ closing => mutex = "free"
    /\ closing' = FALSE
    /\ backend' = "ready"
    /\ dialing' = dialing + waiting
    /\ waiting' = 0
    /\ UNCHANGED <<frontVars, call, restart, via, restarts, fatal, uuid,
                   noReload, known, loggedIn, told, kick, diskVars>>

\* waitForBackend connects and unlocks the mutex.
Connected ==
    /\ dialing > 0
    /\ dialing' = dialing - 1
    /\ mutex' = "free"
    /\ fatal' = (fatal \/ mutex = "free")
    /\ restart' = IF restart = "boot" THEN "none" ELSE restart
    /\ UNCHANGED <<pc, sock, conns, call, via, restarts, waiting, uuid, backVars,
                   diskVars>>

-----------------------------------------------------------------------------
Frontline(c) ==
    ForwardNew(c) \/ Read(c) \/ ForwardPacket(c) \/ ForwardClose(c)

Serve(c) == SendPacket(c) \/ Return(c)

Restarting ==
    ShutdownLock \/ Drained \/ StopBackend \/ VerifyState \/ Ready \/ Connected

Next ==
    \/ \E c \in Conn : Accept(c) \/ Hangup(c) \/ Frontline(c) \/ Reply(c) \/ Serve(c)
    \/ \E cs \in SUBSET loggedIn : KickPlayer(cs)
    \/ \E c \in Conn : KickClose(c)
    \/ \E v \in {"reload", "signal"} : StartRestart(v)
    \/ Restarting
    \/ StartBackend

\* Goroutines and processes that can go on do.  Clients need not, and nobody
\* need restart anything; a stopped backend is started again.
Fairness ==
    /\ \A c \in Conn : WF_vars(Serve(c)) /\ WF_vars(KickClose(c))
    /\ WF_vars(Restarting)
    /\ WF_vars(StartBackend)

Spec == Init /\ [][Next]_vars

FairSpec == Spec /\ Fairness

-----------------------------------------------------------------------------
(* Properties. *)

\* Who holds rpcMutex, who is going to unlock it, and what the backend does
\* meanwhile: exactly one waitForBackend is on its way whenever the mutex is
\* held and no restart is still to start one, and no call is open from the
\* moment a restart has drained them.
LockProtocol ==
    /\ restart # "none" => (via = "reload" <=> Integrated)
    /\ dialing > 0 => backend = "ready"
    /\ mutex = "free" => /\ restart \in {"none", "lock"}
                         /\ waiting + dialing = 0
                         /\ backend = "ready"
    /\ mutex = "held" =>
          /\ restart = "none" => waiting + dialing = 1 /\ Busy = {}
          /\ restart = "lock" => dialing = 1 /\ waiting = 0 /\ Busy = {}
          /\ restart = "drain" => waiting + dialing = 0 /\ backend = "ready"
          /\ restart = "stop" => /\ waiting = IF Integrated THEN 0 ELSE 1
                                 /\ dialing = 0
                                 /\ Busy = {}
                                 /\ backend = "ready"
          /\ restart = "boot" => waiting + dialing = 1 /\ Busy = {}

\* No call is ever made to, or left open with, a backend that is not up: taking
\* the mutex before waiting for rpcBusyCount, and counting under the mutex, is
\* enough to stop the process safely however packets and restarts interleave.
CallsReachBackend == Busy # {} => backend = "ready"

\* rpcMutex is never unlocked twice: exactly one waitForBackend runs per lock.
UnlockedOnce == ~fatal

\* A client that was told it is logged in and still has its connection is logged
\* in for the backend too, restarts notwithstanding.
StaysLoggedIn ==
    backend = "ready" =>
        \A c \in told : (sock[c] = "open" /\ pc[c] \in {"reading", "got", "packet"})
                           => c \in loggedIn

\* What the backend and the frontend hold of their connections is well formed
\* and keeps every login, through any number of restarts.
SessionsKept == TypeOK /\ StaysLoggedIn

\* The backend keeps a session for every connection the frontend forwards
\* packets of: restarting it works "without closing all connections".
ConnectionsKnown ==
    backend = "ready" =>
        \A c \in conns : pc[c] \in {"reading", "got"} => c \in known

\* A restart that has locked the mutex comes to its end, and the frontend goes
\* back to forwarding packets.
RestartCompletes == restart = "drain" ~> restart = "none"

\* What a restart waits for while it waits for the restart: a handler that
\* answers its client; a kick that holds gpcm's mutex, which a handler or
\* gpcm.Shutdown needs; a server that closes a connection before it is up.
ReplyWaits == restart = "drain" /\ \E c \in Conn : call[c] = "send"

KickWaits ==
    kick # {} /\ ((restart = "drain" /\ Busy # {}) \/ (restart = "stop" /\ ~Integrated))

CloseWaits == backend = "loaded" /\ closing

\* Only three things can hold a restart up that has locked rpcMutex, and each of
\* them waits for that mutex itself: every other order of the calls, the kicks
\* and the restart comes to its end.
OnlyCallbacksBlock ==
    restart = "drain" ~> (restart = "none" \/ ReplyWaits \/ KickWaits \/ CloseWaits)
=============================================================================
