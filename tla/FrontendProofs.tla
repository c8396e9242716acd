--------------------------- MODULE FrontendProofs ---------------------------
(***************************************************************************)
(* Theorems about Frontend, for any number of connections and restarts, in *)
(* the configurations that start one waitForBackend per restart:           *)
(* ReloadBackend is only called on an integrated frontend.                 *)
(***************************************************************************)
EXTENDS Frontend, TLAPS

Supported == Reloads => Integrated

\* While the mutex is held and no backend is about to be stopped, waitForBackend
\* waits exactly as long as the backend is not ready.
WaitsForReady ==
    (mutex = "held" /\ restart \in {"none", "lock", "boot"}) =>
        (waiting = 0 <=> backend = "ready")

\* A packet is answered only by a backend that has the session.
Answering ==
    \A c \in Conn : (call[c] \in {"send", "sent"} /\ pc[c] = "packet") => c \in known

\* The inductive invariant.
FrontInv == TypeOK /\ LockProtocol /\ WaitsForReady /\ Answering /\ ~fatal

-----------------------------------------------------------------------------

\* No call is open with a backend that is not up.
LEMMA CallsFromLock ==
    ASSUME TypeOK, LockProtocol
    PROVE  CallsReachBackend
BY DEF TypeOK, LockProtocol, CallsReachBackend

LEMMA InitFrontInv == Init => FrontInv
<1> SUFFICES ASSUME Init PROVE FrontInv
  OBVIOUS
<1>1. TypeOK
  <2>1. noReload \in BOOLEAN
    BY FrontendAssumption, Zenon DEF Init, FrontendAssumption
  <2>2. savedUuid \in -1 .. MaxRestarts /\ 0 \in 0 .. MaxRestarts
    BY FrontendAssumption DEF Init, FrontendAssumption
  <2>3. fatal \in BOOLEAN /\ closing \in BOOLEAN
    BY Zenon DEF Init
  <2>4. /\ pc \in [Conn -> {"idle", "accepted", "reading", "got", "eof", "done"}
                             \cup Calling]
        /\ sock \in [Conn -> {"open", "closed"}]
        /\ call \in [Conn -> {"none", "run", "send", "sent"}]
    BY DEF Init
  <2>5. /\ mutex \in {"free", "held"}
        /\ restart \in {"none", "lock", "drain", "stop", "boot"}
        /\ via \in {"reload", "signal"}
        /\ backend \in {"off", "boot", "loaded", "ready"}
    BY DEF Init
  <2>6. /\ restarts \in 0 .. MaxRestarts
        /\ uuid \in 0 .. MaxRestarts
        /\ waiting \in 0 .. 2
        /\ dialing \in 0 .. 2
    BY <2>2 DEF Init
  <2>7. /\ conns \subseteq Conn
        /\ known \subseteq Conn
        /\ loggedIn \subseteq known
        /\ told \subseteq Conn
        /\ kick \subseteq Conn
        /\ saved \subseteq Conn
    BY DEF Init
  <2> QED BY <2>1, <2>2, <2>3, <2>4, <2>5, <2>6, <2>7 DEF TypeOK
<1>2. Busy = {}
  BY DEF Init, Busy, Calling
<1>3. LockProtocol /\ WaitsForReady
  BY <1>2 DEF Init, LockProtocol, WaitsForReady
<1>4. Answering /\ ~fatal
  BY DEF Init, Answering
<1> QED BY <1>1, <1>3, <1>4 DEF FrontInv

\* The steps of the connections.
LEMMA ConnInv ==
    ASSUME FrontInv, NEW c \in Conn,
           Accept(c) \/ Hangup(c) \/ Frontline(c) \/ Reply(c) \/ Serve(c) \/ KickClose(c)
    PROVE  FrontInv'
<1> USE DEF FrontInv
<1> DEFINE others == <<mutex, restartVars, backend, noReload, diskVars>>
<1>1. CASE Accept(c) \/ Read(c) \/ Hangup(c)
  <2>1. TypeOK' /\ Answering' /\ ~fatal'
    BY <1>1 DEF Accept, Read, Hangup, TypeOK, Answering, restartVars, backVars,
                diskVars, Calling
  <2>2. Busy' = Busy
    BY <1>1 DEF Accept, Read, Hangup, TypeOK, Busy, Calling
  <2>3. UNCHANGED others
    BY <1>1 DEF Accept, Read, Hangup, restartVars, backVars
  <2> QED BY <2>1, <2>2, <2>3 DEF LockProtocol, WaitsForReady, restartVars
<1>2. CASE ForwardNew(c) \/ ForwardPacket(c) \/ ForwardClose(c)
  <2>1. TypeOK' /\ Answering' /\ ~fatal'
    BY <1>2 DEF ForwardNew, ForwardPacket, ForwardClose, TypeOK, Answering,
                restartVars, backVars, diskVars, Calling
  <2>2. mutex = "free" /\ UNCHANGED others
    BY <1>2 DEF ForwardNew, ForwardPacket, ForwardClose, restartVars, backVars
  <2> QED BY <2>1, <2>2 DEF LockProtocol, WaitsForReady, restartVars
<1>3. CASE Reply(c) \/ SendPacket(c)
  <2>1. TypeOK' /\ Answering' /\ ~fatal'
    BY <1>3 DEF Reply, SendPacket, TypeOK, Answering, frontVars, restartVars,
                backVars, diskVars, Calling
  <2>2. Busy' = Busy /\ UNCHANGED others
    BY <1>3 DEF Reply, SendPacket, Busy, frontVars, restartVars, backVars
  <2> QED BY <2>1, <2>2 DEF LockProtocol, WaitsForReady, restartVars
<1>4. CASE Return(c)
  <2>1. TypeOK' /\ Answering' /\ ~fatal'
    BY <1>4 DEF Return, TypeOK, Answering, restartVars, diskVars, Calling
  <2>2. Busy' \subseteq Busy
    BY <1>4 DEF Return, TypeOK, Busy, Calling
  <2>3. UNCHANGED others
    BY <1>4 DEF Return
  <2> QED BY <2>1, <2>2, <2>3 DEF LockProtocol, WaitsForReady, restartVars
<1>5. CASE KickClose(c)
  <2>1. TypeOK' /\ Answering' /\ ~fatal'
    BY <1>5 DEF KickClose, TypeOK, Answering, restartVars, diskVars
  <2>2. Busy' = Busy /\ UNCHANGED others
    BY <1>5 DEF KickClose, Busy
  <2> QED BY <2>1, <2>2 DEF LockProtocol, WaitsForReady, restartVars
<1> QED BY <1>1, <1>2, <1>3, <1>4, <1>5 DEF Frontline, Serve

\* The steps of a restart, and the beginning of a kick.
LEMMA RestartInv ==
    ASSUME Supported, FrontInv,
           \/ \E cs \in SUBSET loggedIn : KickPlayer(cs)
           \/ \E v \in {"reload", "signal"} : StartRestart(v)
           \/ Restarting
           \/ StartBackend
    PROVE  FrontInv'
<1> USE FrontendAssumption DEF FrontInv
<1>1. ASSUME NEW v \in {"reload", "signal"}, StartRestart(v)
      PROVE  FrontInv'
  <2>1. TypeOK' /\ Answering' /\ ~fatal'
    BY <1>1 DEF StartRestart, TypeOK, Answering, frontVars, backVars, diskVars
  <2>2. Busy' = Busy
    BY <1>1 DEF StartRestart, Busy, frontVars
  <2>3. LockProtocol' /\ WaitsForReady'
    BY <1>1, <2>2 DEF StartRestart, Supported, TypeOK, LockProtocol, WaitsForReady,
                      frontVars, backVars
  <2> QED BY <2>1, <2>3
<1>2. CASE ShutdownLock
  <2>1. TypeOK' /\ Answering' /\ ~fatal'
    BY <1>2 DEF ShutdownLock, TypeOK, Answering, backVars, diskVars
  <2>3. LockProtocol' /\ WaitsForReady'
    BY <1>2 DEF ShutdownLock, TypeOK, LockProtocol, WaitsForReady, backVars
  <2> QED BY <2>1, <2>3
<1>3. CASE Drained
  <2>1. mutex = "held" /\ waiting = 0 /\ dialing = 0 /\ backend = "ready"
    BY <1>3 DEF Drained, TypeOK, LockProtocol
  <2>2. TypeOK' /\ Answering' /\ ~fatal'
    BY <1>3, <2>1 DEF Drained, TypeOK, Answering, frontVars, backVars, diskVars
  <2>3. Busy' = {}
    BY <1>3 DEF Drained, Busy, frontVars
  <2>4. LockProtocol' /\ WaitsForReady'
    BY <1>3, <2>1, <2>3 DEF Drained, TypeOK, LockProtocol, WaitsForReady, frontVars,
                            backVars
  <2> QED BY <2>2, <2>4
<1>4. CASE StopBackend
  <2>1. /\ mutex = "held" /\ dialing = 0 /\ Busy = {}
        /\ waiting = IF Integrated THEN 0 ELSE 1
        /\ via = "reload" <=> Integrated
    BY <1>4 DEF StopBackend, TypeOK, LockProtocol
  <2>2. TypeOK' /\ ~fatal'
    <3>1. noReload' \in BOOLEAN
      BY <1>4, Zenon DEF StopBackend, TypeOK
    <3>2. saved' \subseteq Conn /\ savedUuid' \in -1 .. MaxRestarts
      BY <1>4 DEF StopBackend, TypeOK, diskVars
    <3>3. waiting' \in 0 .. 2 /\ backend' \in {"off", "boot", "loaded", "ready"}
      BY <1>4, <2>1 DEF StopBackend, TypeOK
    <3> QED BY <1>4, <3>1, <3>2, <3>3 DEF StopBackend, TypeOK, frontVars
  <2>3. Busy' = {}
    BY <1>4, <2>1 DEF StopBackend, Busy, frontVars
  <2>4. Answering'
    BY <2>3 DEF Answering, Busy, Calling
  <2>5. LockProtocol' /\ WaitsForReady'
    BY <1>4, <2>1, <2>3 DEF StopBackend, TypeOK, LockProtocol, WaitsForReady, frontVars
  <2> QED BY <2>2, <2>4, <2>5
<1>5. CASE VerifyState
  <2>1. mutex = "held" /\ backend = "boot" /\ Busy = {}
    BY <1>5, CallsFromLock DEF VerifyState, CallsReachBackend
  <2>2. TypeOK' /\ ~fatal'
    BY <1>5 DEF VerifyState, TypeOK, restartVars, diskVars
  <2>3. Busy' = {}
    BY <1>5, <2>1 DEF VerifyState, Busy
  <2>4. Answering'
    BY <2>3 DEF Answering, Busy, Calling
  <2>5. LockProtocol' /\ WaitsForReady'
    BY <1>5, <2>1, <2>3 DEF VerifyState, TypeOK, LockProtocol, WaitsForReady, restartVars
  <2> QED BY <2>2, <2>4, <2>5
<1>6. CASE Ready
  <2>1. /\ mutex = "held" /\ backend = "loaded" /\ Busy = {}
        /\ waiting + dialing = 1 /\ restart \in {"none", "boot"}
    BY <1>6, CallsFromLock DEF Ready, CallsReachBackend, TypeOK, LockProtocol
  <2>2. TypeOK' /\ Answering' /\ ~fatal'
    <3>1. closing' \in BOOLEAN
      BY <1>6, Zenon DEF Ready
    <3> QED BY <1>6, <2>1, <3>1 DEF Ready, TypeOK, Answering, frontVars, diskVars
  <2>3. Busy' = {}
    BY <1>6, <2>1 DEF Ready, Busy, frontVars
  <2>4. LockProtocol' /\ WaitsForReady'
    BY <1>6, <2>1, <2>3 DEF Ready, TypeOK, LockProtocol, WaitsForReady, frontVars
  <2> QED BY <2>2, <2>4
<1>7. CASE Connected
  <2>1. /\ mutex = "held" /\ waiting = 0 /\ dialing = 1 /\ backend = "ready"
        /\ restart \in {"none", "lock", "boot"}
    BY <1>7 DEF Connected, TypeOK, LockProtocol
  <2>2. TypeOK' /\ Answering' /\ ~fatal'
    BY <1>7, <2>1 DEF Connected, TypeOK, Answering, backVars, diskVars
  <2>3. LockProtocol' /\ WaitsForReady'
    BY <1>7, <2>1 DEF Connected, TypeOK, LockProtocol, WaitsForReady, backVars
  <2> QED BY <2>2, <2>3
<1>8. CASE StartBackend
  <2>1. mutex = "held" /\ restart \in {"none", "boot", "lock"}
    BY <1>8 DEF StartBackend, TypeOK, LockProtocol
  <2>2. TypeOK' /\ Answering' /\ ~fatal'
    BY <1>8 DEF StartBackend, TypeOK, Answering, frontVars, restartVars, diskVars
  <2>3. Busy' = Busy
    BY <1>8 DEF StartBackend, Busy, frontVars
  <2>4. LockProtocol' /\ WaitsForReady'
    BY <1>8, <2>1, <2>3 DEF StartBackend, TypeOK, LockProtocol, WaitsForReady, frontVars,
                            restartVars
  <2> QED BY <2>2, <2>4
<1>9. ASSUME NEW cs \in SUBSET loggedIn, KickPlayer(cs)
      PROVE  FrontInv'
  <2>1. TypeOK' /\ Answering' /\ ~fatal'
    BY <1>9 DEF KickPlayer, TypeOK, Answering, frontVars, restartVars, diskVars
  <2>2. Busy' = Busy
    BY <1>9 DEF KickPlayer, Busy, frontVars
  <2> QED BY <1>9, <2>1, <2>2 DEF KickPlayer, LockProtocol, WaitsForReady, frontVars,
                                  restartVars
<1> QED BY <1>1, <1>2, <1>3, <1>4, <1>5, <1>6, <1>7, <1>8, <1>9 DEF Restarting

LEMMA NextFrontInv ==
    ASSUME Supported, FrontInv, [Next]_vars
    PROVE  FrontInv'
<1>1. CASE \E c \in Conn : \/ Accept(c) \/ Hangup(c) \/ Frontline(c) \/ Reply(c) \/ Serve(c)
                         \/ KickClose(c)
  BY <1>1, ConnInv
<1>2. CASE \/ \E cs \in SUBSET loggedIn : KickPlayer(cs)
           \/ \E v \in {"reload", "signal"} : StartRestart(v)
           \/ Restarting
           \/ StartBackend
  BY <1>2, RestartInv
<1>3. CASE UNCHANGED vars
  BY <1>3 DEF FrontInv, TypeOK, LockProtocol, WaitsForReady, Answering, Busy, Calling, vars,
              frontVars, restartVars, backVars, diskVars
<1> QED BY <1>1, <1>2, <1>3 DEF Next

-----------------------------------------------------------------------------

\* Exactly one goroutine is going to unlock rpcMutex whenever a restart holds it
\* and is past draining the calls (ShutdownBackend, waitForBackend).
THEOREM LockKept ==
    ASSUME Supported
    PROVE  Spec => []LockProtocol
<1>1. Init => FrontInv BY InitFrontInv
<1>2. FrontInv /\ [Next]_vars => FrontInv' BY NextFrontInv
<1>3. FrontInv => LockProtocol BY DEF FrontInv
<1> QED BY <1>1, <1>2, <1>3, PTL DEF Spec

\* No forwarded call is open while the backend is down or still starting: the
\* count of rpcBusyCount under rpcMutex is enough (handleConnection).
THEOREM NoLostCall ==
    ASSUME Supported
    PROVE  Spec => []CallsReachBackend
<1>1. Init => FrontInv BY InitFrontInv
<1>2. FrontInv /\ [Next]_vars => FrontInv' BY NextFrontInv
<1>3. FrontInv => CallsReachBackend BY CallsFromLock DEF FrontInv
<1> QED BY <1>1, <1>2, <1>3, PTL DEF Spec

\* The frontend never unlocks rpcMutex when it is not locked, which would end
\* it (waitForBackend).
THEOREM NoDoubleUnlock ==
    ASSUME Supported
    PROVE  Spec => []UnlockedOnce
<1>1. Init => FrontInv BY InitFrontInv
<1>2. FrontInv /\ [Next]_vars => FrontInv' BY NextFrontInv
<1>3. FrontInv => UnlockedOnce BY DEF FrontInv, UnlockedOnce
<1> QED BY <1>1, <1>2, <1>3, PTL DEF Spec

-----------------------------------------------------------------------------
(* Logins survive the restarts of a backend that is stopped by a signal.     *)
(* The clients that may rely on their login are those that were told of it   *)
(* and whose connection is open.  While the backend is down they are in the  *)
(* file, which carries the UUID the frontend waits for; a backend that names *)
(* another one has their connections closed.                                 *)

Relying == {c \in told : sock[c] = "open" /\ pc[c] \in {"reading", "got", "packet"}}

\* An open connection that was forwarded is in the connections map, so that a
\* reset closes it.
Registered ==
    \A c \in Conn : pc[c] \in {"new", "reading", "got", "packet"} /\ sock[c] = "open" => c \in conns

ToldLate == \A c \in told : pc[c] \notin {"idle", "accepted", "new"}

\* Without ReloadBackend only a backend of its own is restarted, and the UUID of
\* a restart that stops it is not empty.
UuidSet ==
    /\ restart \in {"lock", "drain", "stop"} => ~Integrated /\ restarts >= 1
    /\ restart = "stop" => uuid # 0

LoginsSafe ==
    /\ backend \in {"loaded", "ready"} => Relying \subseteq loggedIn
    /\ backend \in {"off", "boot"} => Relying = {} \/ (uuid # 0 /\ savedUuid = uuid /\ Relying \subseteq saved)

KeptInv == FrontInv /\ Registered /\ ToldLate /\ UuidSet /\ LoginsSafe

\* The steps of the connections.  Nothing moves while the backend is down but
\* what reads a socket or closes it.
LEMMA KeptConn ==
    ASSUME KeptInv, NEW c \in Conn,
           Accept(c) \/ Hangup(c) \/ Frontline(c) \/ Reply(c) \/ Serve(c) \/ KickClose(c)
    PROVE  Registered' /\ ToldLate' /\ UuidSet' /\ LoginsSafe'
<1> USE DEF KeptInv, FrontInv
<1>1. CASE Accept(c) \/ Read(c) \/ Hangup(c)
  <2>1. Relying' \subseteq Relying
    BY <1>1 DEF Accept, Read, Hangup, TypeOK, Relying, Calling, backVars
  <2>2. Registered' /\ ToldLate'
    BY <1>1 DEF Accept, Read, Hangup, TypeOK, Registered, ToldLate, Calling, backVars
  <2>3. UNCHANGED <<restart, restarts, uuid, backend, loggedIn, saved, savedUuid>>
    BY <1>1 DEF Accept, Read, Hangup, restartVars, backVars, diskVars
  <2> QED BY <2>1, <2>2, <2>3 DEF UuidSet, LoginsSafe
<1>2. CASE ForwardNew(c) \/ ForwardPacket(c) \/ ForwardClose(c)
  <2>1. Relying' \subseteq Relying
    BY <1>2 DEF ForwardNew, ForwardPacket, ForwardClose, TypeOK, Relying, ToldLate, Calling, backVars
  <2>2. Registered' /\ ToldLate'
    BY <1>2 DEF ForwardNew, ForwardPacket, ForwardClose, TypeOK, Registered, ToldLate, Calling, backVars
  <2>3. UNCHANGED <<restart, restarts, uuid, backend, loggedIn, saved, savedUuid>>
    BY <1>2 DEF ForwardNew, ForwardPacket, ForwardClose, restartVars, backVars, diskVars
  <2> QED BY <2>1, <2>2, <2>3 DEF UuidSet, LoginsSafe
<1>3. CASE Reply(c) \/ SendPacket(c)
  <2>1. UNCHANGED <<pc, sock, conns, told, restart, restarts, uuid, backend, loggedIn, saved, savedUuid>>
    BY <1>3 DEF Reply, SendPacket, frontVars, restartVars, backVars, diskVars
  <2> QED BY <2>1 DEF Registered, ToldLate, UuidSet, LoginsSafe, Relying
<1>4. CASE Return(c)
  <2>0. backend = "ready"
    <3>1. c \in Busy
      BY <1>4 DEF Return, Busy, Calling
    <3> QED BY <3>1, CallsFromLock DEF CallsReachBackend
  <2>1. UNCHANGED <<sock, conns, restart, restarts, uuid, backend, saved, savedUuid>>
    BY <1>4 DEF Return, restartVars, diskVars
  <2>2. Registered'
    BY <1>4 DEF Return, TypeOK, Registered, Calling
  <2>3. ToldLate' /\ Relying' \subseteq loggedIn'
    <3>1. CASE pc[c] = "new"
      <4>1. c \notin told /\ UNCHANGED <<loggedIn, told>> /\ pc' = [pc EXCEPT ![c] = "reading"]
        BY <1>4, <3>1 DEF Return, ToldLate
      <4> QED BY <2>0, <2>1, <4>1 DEF TypeOK, ToldLate, Relying, LoginsSafe
    <3>2. CASE pc[c] = "packet"
      <4>1. /\ pc' = [pc EXCEPT ![c] = "reading"]
            /\ \/ loggedIn' = loggedIn \cup {c} /\ told' = told \cup {c}
               \/ UNCHANGED <<loggedIn, told>>
        BY <1>4, <3>2 DEF Return
      <4> QED BY <2>0, <2>1, <3>2, <4>1 DEF TypeOK, ToldLate, Relying, LoginsSafe
    <3>3. CASE pc[c] = "close"
      <4>1. pc' = [pc EXCEPT ![c] = "done"] /\ loggedIn' = loggedIn \ {c} /\ UNCHANGED told
        BY <1>4, <3>3 DEF Return
      <4> QED BY <2>0, <2>1, <3>3, <4>1 DEF TypeOK, ToldLate, Relying, LoginsSafe
    <3> QED BY <1>4, <3>1, <3>2, <3>3 DEF Return
  <2> QED BY <2>0, <2>1, <2>2, <2>3 DEF UuidSet, LoginsSafe
<1>5. CASE KickClose(c)
  <2>1. Relying' \subseteq Relying /\ Registered' /\ ToldLate'
    BY <1>5 DEF KickClose, TypeOK, Relying, Registered, ToldLate
  <2>2. UNCHANGED <<restart, restarts, uuid, backend, loggedIn, saved, savedUuid>>
    BY <1>5 DEF KickClose, restartVars, diskVars
  <2> QED BY <2>1, <2>2 DEF UuidSet, LoginsSafe
<1> QED BY <1>1, <1>2, <1>3, <1>4, <1>5 DEF Frontline, Serve

\* The steps of a restart: the logins go to the file, and come back from it or
\* their connections are closed.
LEMMA KeptRestart ==
    ASSUME ~Reloads, KeptInv,
           \/ \E cs \in SUBSET loggedIn : KickPlayer(cs)
           \/ \E v \in {"reload", "signal"} : StartRestart(v)
           \/ Restarting
           \/ StartBackend
    PROVE  Registered' /\ ToldLate' /\ UuidSet' /\ LoginsSafe'
<1> USE FrontendAssumption DEF KeptInv, FrontInv
<1>1. ASSUME NEW v \in {"reload", "signal"}, StartRestart(v)
      PROVE  Registered' /\ ToldLate' /\ UuidSet' /\ LoginsSafe'
  <2>1. UNCHANGED <<pc, sock, conns, told, uuid, backend, loggedIn, saved, savedUuid>>
    BY <1>1 DEF StartRestart, frontVars, backVars, diskVars
  <2>2. UuidSet'
    BY <1>1 DEF StartRestart, UuidSet, TypeOK
  <2> QED BY <2>1, <2>2 DEF Registered, ToldLate, LoginsSafe, Relying
<1>2. CASE ShutdownLock
  <2>1. UNCHANGED <<pc, sock, conns, told, uuid, backend, loggedIn, saved, savedUuid>>
    BY <1>2 DEF ShutdownLock, backVars, diskVars
  <2>2. UuidSet'
    BY <1>2 DEF ShutdownLock, UuidSet
  <2> QED BY <2>1, <2>2 DEF Registered, ToldLate, LoginsSafe, Relying
<1>3. CASE Drained
  <2>1. UNCHANGED <<pc, sock, conns, told, backend, loggedIn, saved, savedUuid>>
    BY <1>3 DEF Drained, frontVars, backVars, diskVars
  <2>2. UuidSet'
    BY <1>3 DEF Drained, UuidSet, TypeOK
  <2>3. backend = "ready"
    BY <1>3 DEF Drained, TypeOK, LockProtocol
  <2> QED BY <2>1, <2>2, <2>3 DEF Registered, ToldLate, LoginsSafe, Relying
<1>4. CASE StopBackend
  <2>1. UNCHANGED <<pc, sock, conns, told, uuid, restarts>> /\ restart' = "boot"
    BY <1>4 DEF StopBackend, frontVars
  <2>2. backend = "ready" /\ uuid # 0
    BY <1>4 DEF StopBackend, TypeOK, LockProtocol, UuidSet
  <2>3. saved' = loggedIn /\ savedUuid' = uuid /\ backend' \in {"off", "boot"}
    BY <1>4 DEF StopBackend, UuidSet
  <2>4. LoginsSafe'
    BY <2>1, <2>2, <2>3 DEF LoginsSafe, Relying
  <2> QED BY <2>1, <2>4 DEF Registered, ToldLate, UuidSet
<1>5. CASE VerifyState
  <2>1. PICK claimed : claimed = IF noReload THEN 0 ELSE savedUuid
    OBVIOUS
  <2>2. /\ backend = "boot" /\ backend' = "loaded"
        /\ UNCHANGED <<pc, told, uuid, restart, restarts, saved, savedUuid>>
    BY <1>5 DEF VerifyState, restartVars, diskVars
  <2>3. CASE claimed # uuid
    <3>1. /\ sock' = [d \in Conn |-> IF d \in conns THEN "closed" ELSE sock[d]]
          /\ conns' = {}
      BY <1>5, <2>1, <2>3 DEF VerifyState
    <3>2. Registered' /\ Relying' = {}
      BY <2>2, <3>1 DEF Registered, Relying, TypeOK
    <3> QED BY <2>2, <3>2 DEF ToldLate, UuidSet, LoginsSafe
  <2>4. CASE claimed = uuid
    <3>1. loggedIn' = IF claimed # 0 THEN saved ELSE {}
      BY <1>5, <2>1, <2>4 DEF VerifyState
    <3>2. UNCHANGED <<sock, conns>>
      BY <1>5, <2>1, <2>4 DEF VerifyState
    <3>3. Relying' = Relying
      BY <2>2, <3>2 DEF Relying
    <3>4. Relying \subseteq loggedIn'
      BY <2>2, <2>4, <3>1 DEF LoginsSafe
    <3> QED BY <2>2, <3>2, <3>3, <3>4 DEF Registered, ToldLate, UuidSet, LoginsSafe
  <2> QED BY <2>3, <2>4
<1>6. CASE Ready
  <2>1. UNCHANGED <<pc, sock, conns, told, uuid, restart, restarts, loggedIn, saved, savedUuid>>
        /\ backend = "loaded" /\ backend' = "ready"
    BY <1>6 DEF Ready, frontVars, diskVars
  <2> QED BY <2>1 DEF Registered, ToldLate, UuidSet, LoginsSafe, Relying
<1>7. CASE Connected
  <2>1. UNCHANGED <<pc, sock, conns, told, uuid, restarts, backend, loggedIn, saved, savedUuid>>
        /\ (restart' = restart \/ restart' = "none")
    BY <1>7 DEF Connected, backVars, diskVars
  <2> QED BY <2>1 DEF Registered, ToldLate, UuidSet, LoginsSafe, Relying
<1>8. CASE StartBackend
  <2>1. UNCHANGED <<pc, sock, conns, told, uuid, restart, restarts, loggedIn, saved, savedUuid>>
        /\ backend = "off" /\ backend' = "boot"
    BY <1>8 DEF StartBackend, frontVars, restartVars, diskVars
  <2> QED BY <2>1 DEF Registered, ToldLate, UuidSet, LoginsSafe, Relying
<1>9. ASSUME NEW cs \in SUBSET loggedIn, KickPlayer(cs)
      PROVE  Registered' /\ ToldLate' /\ UuidSet' /\ LoginsSafe'
  <2>1. UNCHANGED <<pc, sock, conns, told, uuid, restart, restarts, backend, loggedIn, saved, savedUuid>>
    BY <1>9 DEF KickPlayer, frontVars, restartVars, diskVars
  <2> QED BY <2>1 DEF Registered, ToldLate, UuidSet, LoginsSafe, Relying
<1> QED BY <1>1, <1>2, <1>3, <1>4, <1>5, <1>6, <1>7, <1>8, <1>9 DEF Restarting

\* A client that was told it is logged in and whose connection is still open is
\* logged in for the backend, however often it was restarted by a signal, and with
\* whatever flags it was started again, in both modes of the frontend, as long as
\* nobody calls ReloadBackend (backendMain, VerifyState, gpcm's saved sessions).
THEOREM LoginsSurvive ==
    ASSUME ~Reloads
    PROVE  Spec => []SessionsKept
<1> USE DEF Supported
<1>1. Init => KeptInv
  <2> SUFFICES ASSUME Init PROVE KeptInv
    OBVIOUS
  <2>1. Relying = {}
    BY DEF Init, Relying
  <2>2. Registered /\ ToldLate /\ UuidSet
    BY DEF Init, Registered, ToldLate, UuidSet
  <2> QED BY <2>1, <2>2, InitFrontInv DEF Init, LoginsSafe, KeptInv
<1>2. KeptInv /\ [Next]_vars => KeptInv'
  <2> SUFFICES ASSUME KeptInv, [Next]_vars PROVE KeptInv'
    OBVIOUS
  <2>1. FrontInv'
    BY NextFrontInv DEF KeptInv
  <2>2. Registered' /\ ToldLate' /\ UuidSet' /\ LoginsSafe'
    <3>1. CASE \E c \in Conn : \/ Accept(c) \/ Hangup(c) \/ Frontline(c) \/ Reply(c) \/ Serve(c)
                             \/ KickClose(c)
      BY <3>1, KeptConn
    <3>2. CASE \/ \E cs \in SUBSET loggedIn : KickPlayer(cs)
               \/ \E v \in {"reload", "signal"} : StartRestart(v)
               \/ Restarting
               \/ StartBackend
      BY <3>2, KeptRestart
    <3>3. CASE UNCHANGED vars
      BY <3>3 DEF KeptInv, Registered, ToldLate, UuidSet, LoginsSafe, Relying, vars,
                  frontVars, restartVars, backVars, diskVars
    <3> QED BY <3>1, <3>2, <3>3 DEF Next
  <2> QED BY <2>1, <2>2 DEF KeptInv
<1>3. KeptInv => SessionsKept
  BY DEF KeptInv, FrontInv, LoginsSafe, Relying, SessionsKept, StaysLoggedIn
<1> QED BY <1>1, <1>2, <1>3, PTL DEF Spec
=============================================================================
