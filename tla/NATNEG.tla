------------------------------- MODULE NATNEG -------------------------------
(***************************************************************************)
(* The NAT negotiation server, package natneg: it pairs the clients of a   *)
(* session, tells both of a pair the other's address until they            *)
(* acknowledge, and collects their reports.                                *)
(*                                                                         *)
(* Sessions with different cookies do not touch each other; the module has *)
(* the session objects that one cookie has in the course of time.  Packets *)
(* come by UDP: one that is lost, late, repeated or out of order is a      *)
(* packet that arrives at another time, so that any packet may arrive at   *)
(* any time.  A handler finds its session under the global mutex and       *)
(* works under the session's mutex; the goroutines that repeat the connect *)
(* requests take neither.  Two that repeat them for the same two clients   *)
(* do the same and count as one.                                           *)
(*                                                                         *)
(* Left out: packet layout and version, commands that are only logged, the *)
(* PREINIT answer (no state), the game name (one game per session), the    *)
(* value of a reported result and its delivery to qr2.                     *)
(***************************************************************************)
EXTENDS Integers, FiniteSets

CONSTANTS
    Sess,      \* session objects of one cookie
    Client,    \* client indices
    Handlers,  \* goroutines running handleConnection
    Ports,     \* the kinds of INIT packets that the clients send
    NoSess,    \* the nil *NATNEGSession
    NoClient,  \* no client
    MaxReload  \* bound: restarts of the server

ASSUME NATNEGAssumption ==
    /\ NoSess \notin Sess
    /\ NoClient \notin Client
    /\ Ports \subseteq {"game", "negotiate", "both"}
    /\ MaxReload \in Nat

VARIABLES
    current,   \* sessions[cookie]
    open,      \* Session.Open
    timer,     \* its time.AfterFunc: "off", "armed", or "fired" while it waits
               \* for the session's mutex
    clients,   \* keys of Session.Clients
    neg,       \* clients whose NegotiateIP is known
    srv,       \* clients whose ServerIP is known
    peer,      \* ConnectingIndex; the client itself when it is idle
    ack,       \* ConnectAck
    tried,     \* keys of Result: <<c, d>> when c has reported about d
    loops,     \* goroutines of sendConnectRequests: <<session, pair>>
    ptr,       \* the session a handler has found
    busy,      \* is a handler in sendConnectRequests, the mutex locked?
    hub,       \* and for which client
    reloads    \* restarts so far

clientVars == <<clients, neg, srv, peer, ack, tried>>
vars == <<current, open, timer, clientVars, loops, ptr, busy, hub, reloads>>

TypeOK ==
    /\ current \in Sess \cup {NoSess}
    /\ open \in [Sess -> BOOLEAN]
    /\ timer \in [Sess -> {"off", "armed", "fired"}]
    /\ clients \in [Sess -> SUBSET Client]
    /\ neg \in [Sess -> SUBSET Client]
    /\ srv \in [Sess -> SUBSET Client]
    /\ peer \in [Sess -> [Client -> Client]]
    /\ ack \in [Sess -> [Client -> BOOLEAN]]
    /\ tried \in [Sess -> SUBSET (Client \X Client)]
    /\ loops \subseteq Sess \X SUBSET Client
    /\ ptr \in [Handlers -> Sess \cup {NoSess}]
    /\ busy \in [Sess -> BOOLEAN]
    /\ hub \in [Sess -> Client \cup {NoClient}]
    /\ reloads \in 0 .. MaxReload

Init ==
    /\ current = NoSess
    /\ open = [s \in Sess |-> FALSE]
    /\ timer = [s \in Sess |-> "off"]
    /\ clients = [s \in Sess |-> {}]
    /\ neg = [s \in Sess |-> {}]
    /\ srv = [s \in Sess |-> {}]
    /\ peer = [s \in Sess |-> [c \in Client |-> c]]
    /\ ack = [s \in Sess |-> [c \in Client |-> FALSE]]
    /\ tried = [s \in Sess |-> {}]
    /\ loops = {}
    /\ ptr = [t \in Handlers |-> NoSess]
    /\ busy = [s \in Sess |-> FALSE]
    /\ hub = [s \in Sess |-> NoClient]
    /\ reloads = 0

\* isMapped: both addresses are known.
Mapped(s) == neg[s] \cap srv[s]

\* Mapped clients that are not connecting to anybody.
Idle(s) == {c \in Mapped(s) : peer[s][c] = c}

-----------------------------------------------------------------------------
(* handleConnection: find or create the session. *)

\* An object nobody refers to any more.
Free(s) ==
    /\ current # s
    /\ timer[s] = "off"
    /\ ~busy[s]
    /\ \A t \in Handlers : ptr[t] # s
    /\ \A l \in loops : l[1] # s

FindSession(t) ==
    /\ ptr[t] = NoSess
    /\ current # NoSess
    /\ ptr' = [ptr EXCEPT ![t] = current]
    /\ UNCHANGED <<current, open, timer, clientVars, loops, busy, hub, reloads>>

\* Mutant: does not look whether the cookie has a session.
CreateSessionAlways(t, s) ==
    /\ ptr[t] = NoSess
    /\ Free(s)
    /\ current' = s
    /\ open' = [open EXCEPT ![s] = TRUE]
    /\ timer' = [timer EXCEPT ![s] = "armed"]
    /\ ptr' = [ptr EXCEPT ![t] = s]
    /\ UNCHANGED <<clientVars, loops, busy, hub, reloads>>

CreateSession(t, s) ==
    /\ ptr[t] = NoSess
    /\ current = NoSess
    /\ Free(s)
    /\ current' = s
    /\ open' = [open EXCEPT ![s] = TRUE]
    /\ timer' = [timer EXCEPT ![s] = "armed"]
    /\ clients' = [clients EXCEPT ![s] = {}]
    /\ neg' = [neg EXCEPT ![s] = {}]
    /\ srv' = [srv EXCEPT ![s] = {}]
    /\ peer' = [peer EXCEPT ![s] = [c \in Client |-> c]]
    /\ ack' = [ack EXCEPT ![s] = [c \in Client |-> FALSE]]
    /\ tried' = [tried EXCEPT ![s] = {}]
    /\ ptr' = [ptr EXCEPT ![t] = s]
    /\ UNCHANGED <<loops, busy, hub, reloads>>

\* The handler t has locked its session and is about to serve its packet.
Serving(t) == ptr[t] # NoSess /\ ~busy[ptr[t]]

\* A version mismatch, an invalid packet, or a command without effect.
Ignore(t) ==
    /\ Serving(t)
    /\ ptr' = [ptr EXCEPT ![t] = NoSess]
    /\ UNCHANGED <<current, open, timer, clientVars, loops, busy, hub, reloads>>

-----------------------------------------------------------------------------
(* sendConnectRequests: every idle client in turn is paired with every idle *)
(* client that has no result for it, both in the order of a Go map.  The     *)
(* inner loop does not stop when it has paired its client once; hub is the   *)
(* client of the outer loop.  Nobody becomes idle while the loops run, so    *)
(* that a turn that has nothing to do has nothing to do later either and is  *)
(* left out.                                                                 *)

\* Mutant: asks for the results of both.
DestinationsOnce(s, c) ==
    {d \in Idle(s) \ {c} : <<d, c>> \notin tried[s] /\ <<c, d>> \notin tried[s]}

\* The clients that the inner loop of c pairs with c.
Destinations(s, c) == {d \in Idle(s) \ {c} : <<d, c>> \notin tried[s]}

StartRequests(s) == busy' = [busy EXCEPT ![s] = TRUE]

\* The inner loop of hub is at its end, or there was none yet.
InnerDone(s) == hub[s] = NoClient \/ Destinations(s, hub[s]) = {}

ExchangeRequests(s, c, d) ==
    /\ busy[s]
    /\ c = hub[s] \/ (InnerDone(s) /\ c \in Idle(s))
    /\ d \in Destinations(s, c)
    /\ hub' = [hub EXCEPT ![s] = c]
    /\ peer' = [peer EXCEPT ![s][c] = d, ![s][d] = c]
    /\ ack' = [ack EXCEPT ![s][c] = FALSE, ![s][d] = FALSE]
    /\ loops' = loops \cup {<<s, {c, d}>>}
    /\ UNCHANGED <<current, open, timer, clients, neg, srv, tried, busy, ptr,
                   reloads>>

\* Mutant: returns without the unlock when the session was closed.
EndRequestsLocked(s) ==
    /\ busy[s]
    /\ InnerDone(s)
    /\ \A c \in Idle(s) : Destinations(s, c) = {}
    /\ busy' = [busy EXCEPT ![s] = ~open[s]]
    /\ hub' = [hub EXCEPT ![s] = NoClient]
    /\ UNCHANGED <<current, open, timer, clientVars, loops, ptr, reloads>>

\* The handler returns and unlocks the session.
EndRequests(s) ==
    /\ busy[s]
    /\ InnerDone(s)
    /\ \A c \in Idle(s) : Destinations(s, c) = {}
    /\ busy' = [busy EXCEPT ![s] = FALSE]
    /\ hub' = [hub EXCEPT ![s] = NoClient]
    /\ UNCHANGED <<current, open, timer, clientVars, loops, ptr, reloads>>

Requests(s) ==
    \/ \E c, d \in Client : ExchangeRequests(s, c, d)
    \/ EndRequests(s)

\* Does client c wait for a connect request about d?
Waits(s, c, d) == peer[s][c] = d /\ ~ack[s][c]

\* Mutant: ends as soon as one of the two does not wait.
ConnectLoopEager(l) ==
    LET s == l[1]
    IN  /\ \/ ~open[s]
           \/ \E c, d \in l[2] : c # d /\ ~Waits(s, c, d)
        /\ loops' = loops \ {l}
        /\ UNCHANGED <<current, open, timer, clientVars, ptr, busy, hub, reloads>>

\* One round of the goroutine: it sends to whoever of the two waits for the
\* other, or ends.
ConnectLoop(l) ==
    LET s == l[1]
    IN  /\ \/ ~open[s]
           \/ \A c, d \in l[2] : c # d => ~Waits(s, c, d)
        /\ loops' = loops \ {l}
        /\ UNCHANGED <<current, open, timer, clientVars, ptr, busy, hub, reloads>>

-----------------------------------------------------------------------------
(* The packets. *)

\* INIT from client c: its port tells the server one of its addresses, or both
\* (useGamePort = 0).
HandleInit(t, c, port) ==
    LET s == ptr[t]
    IN  /\ Serving(t)
        /\ ptr' = [ptr EXCEPT ![t] = NoSess]
        /\ clients' = [clients EXCEPT ![s] = @ \cup {c}]
        /\ neg' = [neg EXCEPT ![s] = IF port = "game" THEN @ ELSE @ \cup {c}]
        /\ srv' = [srv EXCEPT ![s] = IF port = "negotiate" THEN @ ELSE @ \cup {c}]
        /\ IF c \in neg'[s] \cap srv'[s]
           THEN StartRequests(s)
           ELSE UNCHANGED busy
        /\ UNCHANGED <<current, open, timer, peer, ack, tried, loops, hub,
                       reloads>>

HandleConnectReply(t, c) ==
    LET s == ptr[t]
    IN  /\ Serving(t)
        /\ c \in clients[s]
        /\ ptr' = [ptr EXCEPT ![t] = NoSess]
        /\ ack' = [ack EXCEPT ![s][c] = TRUE]
        /\ UNCHANGED <<current, open, timer, clients, neg, srv, peer, tried,
                       loops, busy, hub, reloads>>

\* Mutant: the remaining requests are not sent.
HandleReportLast(t, c) ==
    LET s == ptr[t]
    IN  /\ Serving(t)
        /\ c \in clients[s]
        /\ ptr' = [ptr EXCEPT ![t] = NoSess]
        /\ tried' = [tried EXCEPT ![s] = @ \cup {<<c, peer[s][c]>>}]
        /\ peer' = [peer EXCEPT ![s][c] = c]
        /\ ack' = [ack EXCEPT ![s][c] = FALSE]
        /\ UNCHANGED <<current, open, timer, clients, neg, srv, loops, busy, hub,
                       reloads>>

\* REPORT: the result counts for whomever the client is connecting to.
HandleReport(t, c) ==
    LET s == ptr[t]
    IN  /\ Serving(t)
        /\ c \in clients[s]
        /\ ptr' = [ptr EXCEPT ![t] = NoSess]
        /\ tried' = [tried EXCEPT ![s] = @ \cup {<<c, peer[s][c]>>}]
        /\ peer' = [peer EXCEPT ![s][c] = c]
        /\ ack' = [ack EXCEPT ![s][c] = FALSE]
        /\ StartRequests(s)
        /\ UNCHANGED <<current, open, timer, clients, neg, srv, loops, hub,
                       reloads>>

\* A REPORT of a client that the session does not have.
HandleReportUnknown(t) ==
    /\ Serving(t)
    /\ ptr' = [ptr EXCEPT ![t] = NoSess]
    /\ StartRequests(ptr[t])
    /\ UNCHANGED <<current, open, timer, clientVars, loops, hub, reloads>>

-----------------------------------------------------------------------------
(* The end of a session, and of the server. *)

\* closeSession, under the global mutex.
Expire(s) ==
    /\ timer[s] = "armed"
    /\ timer' = [timer EXCEPT ![s] = "fired"]
    /\ open' = [open EXCEPT ![s] = FALSE]
    /\ current' = NoSess
    /\ UNCHANGED <<clientVars, loops, ptr, busy, hub, reloads>>

\* closeSession, under the session's mutex: clients that are connecting are told
\* to give up (a packet, no state).
Disconnect(s) ==
    /\ timer[s] = "fired"
    /\ ~busy[s]
    /\ timer' = [timer EXCEPT ![s] = "off"]
    /\ UNCHANGED <<current, open, clientVars, loops, ptr, busy, hub, reloads>>

\* Shutdown waits for the handlers and saves the sessions; StartServer loads
\* them and arms their timers.  Everything else goes with the process.
Reload ==
    /\ reloads < MaxReload
    /\ reloads' = reloads + 1
    /\ \A t \in Handlers : ptr[t] = NoSess
    /\ \A s \in Sess : ~busy[s]
    /\ loops' = {}
    /\ timer' = [s \in Sess |-> IF s = current THEN "armed" ELSE "off"]
    /\ UNCHANGED <<current, open, clientVars, ptr, busy, hub>>

-----------------------------------------------------------------------------
Packet(t) ==
    \/ Ignore(t)
    \/ HandleReportUnknown(t)
    \/ \E c \in Client :
          \/ \E p \in Ports : HandleInit(t, c, p)
          \/ HandleConnectReply(t, c)
          \/ HandleReport(t, c)

Next ==
    \/ \E t \in Handlers : FindSession(t) \/ Packet(t)
    \/ \E t \in Handlers, s \in Sess : CreateSession(t, s)
    \/ \E s \in Sess : Requests(s) \/ Expire(s) \/ Disconnect(s)
    \/ \E l \in loops : ConnectLoop(l)
    \/ Reload

\* Goroutines go on and timers fire.
Fairness ==
    /\ \A t \in Handlers : WF_vars(Packet(t))
    /\ \A s \in Sess : WF_vars(Requests(s)) /\ WF_vars(Expire(s))
                         /\ WF_vars(Disconnect(s))

Spec == Init /\ [][Next]_vars

FairSpec == Spec /\ Fairness

\* Instead of the timers, the clients: packets keep coming, and a client that
\* connects reports in the end (the console's library has a time limit of its
\* own).
Reports(c) ==
    \E t \in Handlers : HandleReport(t, c) /\ peer[ptr[t]][c] # c

ClientFairness ==
    /\ \A t \in Handlers : WF_vars(FindSession(t)) /\ WF_vars(Packet(t))
    /\ \A s \in Sess : WF_vars(Requests(s))
    /\ \A c \in Client : SF_vars(Reports(c))

ClientSpec == Spec /\ ClientFairness

-----------------------------------------------------------------------------
(* Properties. *)

\* The session under the cookie is the one open session, and it has a timer:
\* closeSession, which deletes by cookie and not by pointer, never removes a
\* session that was created after the one whose time is over, and no session
\* outlives its timer, restarts included.
OneSession ==
    \A s \in Sess : /\ open[s] <=> current = s
                    /\ timer[s] = "armed" <=> current = s

\* Whenever nobody works on a session, no two idle clients are left that have
\* not tried each other: no packet makes a client idle, or known, and leaves it
\* behind without a partner it could have.
NoIdlePair ==
    \A s \in Sess : ~busy[s] =>
        \A c, d \in Idle(s) : c # d => <<c, d>> \in tried[s]

\* A client that waits for a connect request gets it repeated: a client of an
\* open session that waits with no goroutine to send to it did so before, or the
\* server was restarted (which starts none for the sessions it loads).
RequestsRepeated ==
    [][\A s \in Sess, c, d \in Client :
          (c # d /\ open'[s] /\ Waits(s, c, d)' /\ <<s, {c, d}>> \notin loops') =>
             \/ Reload
             \/ Waits(s, c, d) /\ <<s, {c, d}>> \notin loops
      ]_vars

\* Every session comes to its end ("Session has TTL of 30 seconds"), and then
\* its clients are told.
SessionExpires ==
    \A s \in Sess : current = s ~> (current # s /\ timer[s] = "off")

\* Every two mapped clients come to try each other, in both directions, if the
\* session lives long enough: also when more than two clients arrive one by one,
\* a client is paired again before it has reported, or packets are repeated.
\* The clients being interchangeable, one pair stands for all.
PairsTried ==
    LET pair == CHOOSE p \in Client \X Client : p[1] # p[2]
    IN  \A s \in Sess :
           ({pair[1], pair[2]} \subseteq Mapped(s)) ~> (pair \in tried[s] \/ ~open[s])
=============================================================================
