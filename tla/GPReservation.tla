--------------------------- MODULE GPReservation ----------------------------
(***************************************************************************)
(* Match messages between friends, gpcm/message.go bestieMessage: a player *)
(* asks a friend for a place in its room (RESERVATION), the friend answers *)
(* (RESV_OK, RESV_DENY, RESV_WAIT) and both exchange addresses (TELL_ADDR). *)
(* A handler runs under gpcm's mutex; what QR2 answers is an input.        *)
(*                                                                         *)
(* The players play the same game and are friends.  The lists of friends   *)
(* and the delivery are GPFriends, what a RESV_OK does to the rooms is     *)
(* QR2Group, and the encoding of the messages is MatchCommand.             *)
(***************************************************************************)
EXTENDS Integers, FiniteSets

CONSTANTS
    RPlayer,        \* profiles, all friends of each other
    RRestricted,    \* those with User.Restricted
    RVersions,      \* versions of the match protocol
    NoPlayer        \* profile ID 0

ASSUME ReservationAssumption ==
    /\ RRestricted \subseteq RPlayer
    /\ NoPlayer \notin RPlayer
    /\ RVersions \subseteq Nat \ {0}

VARIABLES
    ronline,        \* profiles with a session that is LoggedIn
    rdevice,        \* those with DeviceAuthenticated
    qr2ip,          \* those with QR2IP # 0
    resv,           \* Reservation.Version; 0 while Reservation is nil
    resvPID,        \* ReservationPID
    qsess,          \* QR2's login and session of the profile
    outcome         \* what the last message led to

rvars == <<ronline, rdevice, qr2ip, resv, resvPID, qsess, outcome>>

RCommands == {"RESERVATION", "RESV_OK", "RESV_DENY", "RESV_WAIT", "TELL_ADDR"}

\* What qr2.GetReservationForProfile finds: no login, a login without a
\* session, or a session with a reservation (version 0: none) for a player.
QSessions ==
    {[st |-> "nologin", ver |-> 0, id |-> NoPlayer], [st |-> "nosession", ver |-> 0, id |-> NoPlayer]}
    \cup [st : {"session"}, ver : RVersions \cup {0}, id : RPlayer \cup {NoPlayer}]

Nothing == [res |-> "none", who |-> {}]

ReservationInit ==
    /\ ronline = {} /\ rdevice = {} /\ qr2ip = {}
    /\ resv = [p \in RPlayer |-> 0]
    /\ resvPID = [p \in RPlayer |-> NoPlayer]
    /\ qsess = [p \in RPlayer |-> [st |-> "nologin", ver |-> 0, id |-> NoPlayer]]
    /\ outcome = Nothing

\* A new session: NewConnection and login.
LogIn(p) ==
    /\ p \notin ronline
    /\ ronline' = ronline \cup {p}
    /\ rdevice' = rdevice \ {p} /\ qr2ip' = qr2ip \ {p}
    /\ resv' = [resv EXCEPT ![p] = 0] /\ resvPID' = [resvPID EXCEPT ![p] = NoPlayer]
    /\ outcome' = Nothing /\ UNCHANGED qsess

\* exLogin succeeds.
DeviceLogin(p) ==
    /\ p \in ronline \ rdevice
    /\ rdevice' = rdevice \cup {p}
    /\ outcome' = Nothing /\ UNCHANGED <<ronline, qr2ip, resv, resvPID, qsess>>

LogOut(p) ==
    /\ p \in ronline
    /\ ronline' = ronline \ {p}
    /\ outcome' = Nothing /\ UNCHANGED <<rdevice, qr2ip, resv, resvPID, qsess>>

\* QR2 gets and loses sessions, and reservations that were sent through it.
QR2Moves(p, q) ==
    /\ qsess' = [qsess EXCEPT ![p] = q]
    /\ outcome' = Nothing /\ UNCHANGED <<ronline, rdevice, qr2ip, resv, resvPID>>

Ends(o) == outcome' = o /\ UNCHANGED <<ronline, resv, resvPID>>
Refused == Ends([res |-> "refused", who |-> {}])
Passed(to) == [res |-> "passed", who |-> {to}]

\* The sender's QR2IP is not zero: RESERVATION and RESV_OK bring it, addr tells
\* whether the address in them is one.
HasAddress(g, cmd, addr) == IF cmd \in {"RESERVATION", "RESV_OK"} THEN addr ELSE g \in qr2ip

\* qr2.GetSearchID of the sender's address finds nothing.
NoSearchID(g, has) == qsess[g].st # "session" \/ ~has

\* Mutant: the receiver waits for the sender whether QR2 knows of it or not.
LookUpAnyway(g, to, has, ver) == [ok |-> TRUE, ver |-> resv[to], pid |-> g]

\* The reservation the answer belongs to: the receiver's, or the one QR2 knows.
\* QR2's lookup follows two pointers without a test.
LookUp(g, to, has, ver) ==
    IF resvPID[to] = g /\ resv[to] = ver
    THEN [ok |-> TRUE, ver |-> resv[to], pid |-> resvPID[to]]
    ELSE IF qsess[to].st # "session" THEN [ok |-> FALSE, ver |-> resv[to], pid |-> resvPID[to]]
    ELSE IF qsess[to].ver # 0 /\ (NoSearchID(g, has) \/ qsess[to].id \in {NoPlayer, g})
    THEN [ok |-> TRUE, ver |-> qsess[to].ver, pid |-> g]
    ELSE [ok |-> TRUE, ver |-> resv[to], pid |-> resvPID[to]]

\* The kick of a refused reservation: the code kicks the one that is not
\* restricted.
Kicks(g, to) == (IF g \in RRestricted THEN {to} ELSE {}) \cup (IF to \in RRestricted THEN {g} ELSE {})

\* RESERVATION: refused without an address, and for restricted players unless
\* QR2 allows it.
Reservation(g, to, ver, has, allowed) ==
    IF ~has THEN Refused
    ELSE IF (g \in RRestricted \/ to \in RRestricted) /\ allowed # "ok"
    THEN IF allowed = "restricted"
         THEN /\ outcome' = [res |-> "kicked", who |-> Kicks(g, to)]
              /\ ronline' = ronline \ Kicks(g, to)
              /\ UNCHANGED <<resv, resvPID>>
         ELSE Ends(Nothing)
    ELSE /\ outcome' = Passed(to)
         /\ resv' = [resv EXCEPT ![g] = ver]
         /\ resvPID' = [resvPID EXCEPT ![g] = to]
         /\ UNCHANGED ronline

\* The answers.  One without a reservation is let through unless the versions
\* differ, which they do if there is none at all.
Answered(g, to, cmd, ver, has, accepted) ==
    LET r == LookUp(g, to, has, ver) IN
    IF ~r.ok THEN Ends([res |-> "panic", who |-> {to}])
    ELSE /\ resv' = [resv EXCEPT ![to] = r.ver]
         /\ resvPID' = [resvPID EXCEPT ![to] =
                IF r.ver = ver /\ cmd # "RESV_OK" /\ r.pid = g THEN NoPlayer ELSE r.pid]
         /\ outcome' =
                IF r.ver # ver \/ (cmd = "RESV_OK" /\ (~has \/ to \notin qr2ip' \/ ~accepted))
                THEN [res |-> "refused", who |-> {}]
                ELSE [res |-> cmd, who |-> {to}]
         /\ UNCHANGED ronline

\* What QR2 answers, of the two messages it is asked about:
\* CheckGPReservationAllowed and ProcessGPResvOK.
QR2Answers(cmd) ==
    CASE cmd = "RESERVATION" -> {"ok", "restricted", "other"}
      [] cmd = "RESV_OK"     -> {"ok", "other"}
      [] OTHER               -> {"ok"}

\* bestieMessage
MatchMessage(g, to, cmd, ver, addr, answer) ==
    LET has == HasAddress(g, cmd, addr) IN
    /\ g \in ronline /\ g # to
    /\ UNCHANGED <<rdevice, qsess>>
    /\ IF g \notin rdevice THEN Ends([res |-> "wait", who |-> {}]) /\ UNCHANGED qr2ip
       ELSE /\ qr2ip' = (qr2ip \ {g}) \cup (IF has THEN {g} ELSE {})
                  \cup (IF /\ cmd \in {"RESV_OK", "RESV_DENY", "RESV_WAIT"}
                           /\ to \in ronline \cap rdevice
                           /\ ~(resvPID[to] = g /\ resv[to] = ver)
                           /\ qsess[to].st = "session" /\ qsess[to].ver # 0
                        THEN {to} ELSE {})
            /\ IF to \notin ronline \/ to \notin rdevice THEN Ends([res |-> "deny", who |-> {}])
               ELSE CASE cmd = "RESERVATION" -> Reservation(g, to, ver, has, answer)
                      [] cmd = "TELL_ADDR" ->
                            IF has /\ to \in qr2ip THEN Ends(Passed(to)) ELSE Refused
                      [] OTHER -> Answered(g, to, cmd, ver, has, answer = "ok")

ReservationNext ==
    \/ \E p \in RPlayer : LogIn(p) \/ DeviceLogin(p) \/ LogOut(p) \/ \E q \in QSessions : QR2Moves(p, q)
    \/ \E g, to \in RPlayer, cmd \in RCommands, ver \in RVersions, addr \in BOOLEAN :
          \E answer \in QR2Answers(cmd) : MatchMessage(g, to, cmd, ver, addr, answer)

-----------------------------------------------------------------------------
(* Properties.                                                              *)

\* A session that waits for an answer of a player has the reservation it sent:
\* RESV_OK dereferences the pointer without a test of its own (message.go:262)
\* and relies on the versions having been compared.  Sessions begin without
\* one, DENY and WAIT forget the player and keep the reservation, and QR2's
\* copy may replace it.
ReservationPresent ==
    /\ \A p \in ronline : resvPID[p] # NoPlayer => resv[p] # 0
    /\ outcome.res = "RESV_OK" => \A p \in outcome.who \cap ronline : resv[p] # 0

\* A message is lost in a panic only if QR2 has no login or no session for the
\* receiver (qr2/session.go:345); HandlePacket recovers and the client waits.
PanicOnlyWithoutSession ==
    outcome.res = "panic" => \A p \in outcome.who : qsess[p].st # "session"

\* A match message finds the reservation it answers, and is lost in no other
\* panic than that of a receiver without a QR2 session (message.go:196-280).
ReservationInv == ReservationPresent /\ PanicOnlyWithoutSession

\* The player that a refused reservation kicks is the restricted one: "prevent
\* the restricted player from staying in the group" (gpcm/kick.go:155), and
\* what QR2 does for the same message (qr2/message.go:323-336).
KicksRestricted ==
    outcome.res = "kicked" => outcome.who \subseteq RRestricted
=============================================================================
