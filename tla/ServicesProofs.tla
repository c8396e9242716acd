--------------------------- MODULE ServicesProofs ---------------------------
(***************************************************************************)
(* Proofs about the services around the rooms: match messages between      *)
(* friends (GPReservation), Discord links (DiscordLink), the hashes of mod *)
(* packs (HashCache), friends and their statuses (GPFriends), and the      *)
(* parser of the server browser's filters (FilterParser).                  *)
(***************************************************************************)
EXTENDS GPReservation, DiscordLink, HashCache, GPFriends, FilterParser,
        FiniteSetTheorems, WellFoundedInduction, TLAPS

-----------------------------------------------------------------------------
(* Match messages.  Besides the types, the sessions that wait for an answer *)
(* have their reservation; the outcome of a message is of that message only.*)

ReservationTypeOK ==
    /\ ronline \subseteq RPlayer
    /\ resv    \in [RPlayer -> RVersions \cup {0}]
    /\ resvPID \in [RPlayer -> RPlayer \cup {NoPlayer}]
    /\ qsess   \in [RPlayer -> QSessions]

WaitingHasReservation == \A p \in ronline : resvPID[p] # NoPlayer => resv[p] # 0

\* A step that answers nobody and loses nothing.
LEMMA QuietOutcome ==
    ASSUME outcome' \in {Nothing, [res |-> "refused", who |-> {}], [res |-> "wait", who |-> {}],
                         [res |-> "deny", who |-> {}]}
           \/ (\E to : outcome' = Passed(to)) \/ (\E S : outcome' = [res |-> "kicked", who |-> S])
    PROVE  outcome'.res # "RESV_OK" /\ outcome'.res # "panic"
BY DEF Nothing, Passed

\* An answer: the reservation that it belongs to is found, or the versions
\* differ, or QR2 has no session for the receiver.
LEMMA AnsweredStep ==
    ASSUME ReservationTypeOK, WaitingHasReservation,
           NEW g \in RPlayer, NEW to \in ronline, NEW cmd \in RCommands, NEW ver \in RVersions,
           NEW has, NEW accepted \in BOOLEAN, Answered(g, to, cmd, ver, has, accepted),
           UNCHANGED qsess
    PROVE  ReservationTypeOK' /\ WaitingHasReservation' /\ ReservationInv'
<1> USE ReservationAssumption DEF ReservationAssumption
<1>1. to \in RPlayer /\ ver # 0 /\ ver \in RVersions
  BY DEF ReservationTypeOK
<1>2. PICK r : r = LookUp(g, to, has, ver)
  OBVIOUS
<1>3. /\ r.ver \in RVersions \cup {0} /\ r.pid \in RPlayer \cup {NoPlayer}
      /\ r.pid # NoPlayer => r.ver # 0 \/ ~r.ok
      /\ r.ok \in BOOLEAN
      /\ ~r.ok => qsess[to].st # "session"
  <2> DEFINE own == [ok |-> TRUE, ver |-> resv[to], pid |-> resvPID[to]]
             lost == [ok |-> FALSE, ver |-> resv[to], pid |-> resvPID[to]]
             known == [ok |-> TRUE, ver |-> qsess[to].ver, pid |-> g]
  <2>1. \/ r = own
        \/ r = lost /\ qsess[to].st # "session"
        \/ r = known /\ qsess[to].ver # 0
    BY <1>2 DEF LookUp
  <2>2. resv[to] \in RVersions \cup {0} /\ resvPID[to] \in RPlayer \cup {NoPlayer}
        /\ (resvPID[to] # NoPlayer => resv[to] # 0)
    BY <1>1 DEF ReservationTypeOK, WaitingHasReservation
  <2>3. qsess[to].ver \in RVersions \cup {0}
    BY <1>1 DEF ReservationTypeOK, QSessions
  <2>4. CASE r = own
    BY <2>2, <2>4
  <2>5. CASE r = lost /\ qsess[to].st # "session"
    BY <2>2, <2>5
  <2>6. CASE r = known /\ qsess[to].ver # 0
    BY <2>3, <2>6
  <2> QED BY <2>1, <2>4, <2>5, <2>6
<1>4. CASE ~r.ok
  <2>1. outcome' = [res |-> "panic", who |-> {to}] /\ UNCHANGED <<ronline, resv, resvPID>>
    BY <1>2, <1>4 DEF Answered, Ends
  <2>2. ReservationTypeOK' /\ WaitingHasReservation'
    BY <2>1 DEF ReservationTypeOK, WaitingHasReservation
  <2>3. outcome'.res = "panic" /\ outcome'.who = {to}
    BY <2>1
  <2> QED BY <1>3, <1>4, <2>2, <2>3 DEF ReservationInv, ReservationPresent, PanicOnlyWithoutSession, WaitingHasReservation
<1>5. CASE r.ok
  <2>1. /\ resv' = [resv EXCEPT ![to] = r.ver]
        /\ resvPID' = [resvPID EXCEPT ![to] =
              IF r.ver = ver /\ cmd # "RESV_OK" /\ r.pid = g THEN NoPlayer ELSE r.pid]
        /\ UNCHANGED ronline
        /\ outcome' = [res |-> "refused", who |-> {}] \/ (r.ver = ver /\ outcome' = [res |-> cmd, who |-> {to}])
    BY <1>2, <1>5 DEF Answered
  <2>2. ReservationTypeOK'
    BY <1>1, <1>3, <2>1 DEF ReservationTypeOK
  <2>3. WaitingHasReservation'
    BY <1>1, <1>3, <1>5, <2>1 DEF ReservationTypeOK, WaitingHasReservation
  <2>4. outcome'.res # "panic"
    BY <2>1 DEF RCommands
  <2>5. outcome'.res = "RESV_OK" => \A p \in outcome'.who \cap ronline' : resv'[p] # 0
    BY <1>1, <2>1 DEF ReservationTypeOK
  <2> QED BY <2>2, <2>3, <2>4, <2>5 DEF ReservationInv, ReservationPresent, PanicOnlyWithoutSession, WaitingHasReservation
<1> QED BY <1>3, <1>4, <1>5

LEMMA MessageStep ==
    ASSUME ReservationTypeOK, WaitingHasReservation,
           NEW g \in RPlayer, NEW to \in RPlayer, NEW cmd \in RCommands, NEW ver \in RVersions,
           NEW addr \in BOOLEAN, NEW answer \in QR2Answers(cmd),
           MatchMessage(g, to, cmd, ver, addr, answer)
    PROVE  ReservationTypeOK' /\ WaitingHasReservation' /\ ReservationInv'
<1> USE ReservationAssumption DEF ReservationAssumption
<1>1. UNCHANGED qsess
  BY DEF MatchMessage
<1>2. ASSUME UNCHANGED <<ronline, resv, resvPID>>,
             \/ outcome' \in {Nothing, [res |-> "refused", who |-> {}], [res |-> "wait", who |-> {}],
                              [res |-> "deny", who |-> {}]}
             \/ outcome' = Passed(to)
      PROVE  ReservationTypeOK' /\ WaitingHasReservation' /\ ReservationInv'
  <2>1. outcome'.res # "RESV_OK" /\ outcome'.res # "panic"
    BY <1>2, QuietOutcome
  <2>2. ReservationTypeOK' /\ WaitingHasReservation'
    BY <1>1, <1>2 DEF ReservationTypeOK, WaitingHasReservation
  <2> QED BY <2>1, <2>2 DEF ReservationInv, ReservationPresent, PanicOnlyWithoutSession, WaitingHasReservation
<1>3. CASE g \notin rdevice \/ to \notin ronline \/ to \notin rdevice
  BY <1>2, <1>3 DEF MatchMessage, Ends
<1>4. CASE g \in rdevice /\ to \in ronline /\ to \in rdevice /\ cmd = "TELL_ADDR"
  BY <1>2, <1>4 DEF MatchMessage, Ends, Refused
<1>5. CASE g \in rdevice /\ to \in ronline /\ to \in rdevice /\ cmd = "RESERVATION"
  <2>0. PICK has \in BOOLEAN : Reservation(g, to, ver, has, answer)
    BY <1>5 DEF MatchMessage, HasAddress
  <2>1. CASE ~has
    BY <1>2, <2>0, <2>1 DEF Reservation, Refused, Ends
  <2>2. CASE has /\ (g \in RRestricted \/ to \in RRestricted) /\ answer # "ok" /\ answer # "restricted"
    BY <1>2, <2>0, <2>2 DEF Reservation, Ends
  <2>3. CASE has /\ (g \in RRestricted \/ to \in RRestricted) /\ answer = "restricted"
    <3>1. /\ outcome' = [res |-> "kicked", who |-> Kicks(g, to)]
          /\ ronline' \subseteq ronline /\ UNCHANGED <<resv, resvPID>>
      BY <2>0, <2>3 DEF Reservation
    <3>2. outcome'.res # "RESV_OK" /\ outcome'.res # "panic"
      BY <3>1, QuietOutcome
    <3>3. ReservationTypeOK' /\ WaitingHasReservation'
      BY <1>1, <3>1 DEF ReservationTypeOK, WaitingHasReservation
    <3> QED BY <3>2, <3>3 DEF ReservationInv, ReservationPresent, PanicOnlyWithoutSession, WaitingHasReservation
  <2>4. CASE has /\ ~((g \in RRestricted \/ to \in RRestricted) /\ answer # "ok")
    <3>1. /\ outcome' = Passed(to) /\ resv' = [resv EXCEPT ![g] = ver]
          /\ resvPID' = [resvPID EXCEPT ![g] = to] /\ UNCHANGED ronline
      BY <2>0, <2>4 DEF Reservation
    <3>2. outcome'.res # "RESV_OK" /\ outcome'.res # "panic"
      BY <3>1, QuietOutcome
    <3>3. ReservationTypeOK'
      BY <1>1, <3>1 DEF ReservationTypeOK
    <3>4. WaitingHasReservation'
      BY <3>1 DEF ReservationTypeOK, WaitingHasReservation
    <3> QED BY <3>2, <3>3, <3>4 DEF ReservationInv, ReservationPresent, PanicOnlyWithoutSession, WaitingHasReservation
  <2> QED BY <2>1, <2>2, <2>3, <2>4
<1>6. CASE g \in rdevice /\ to \in ronline /\ to \in rdevice /\ cmd \notin {"RESERVATION", "TELL_ADDR"}
  <2>1. PICK accepted \in BOOLEAN : Answered(g, to, cmd, ver, HasAddress(g, cmd, addr), accepted)
    BY <1>6 DEF MatchMessage
  <2> QED BY <1>1, <1>6, <2>1, AnsweredStep
<1> QED BY <1>3, <1>4, <1>5, <1>6

(***************************************************************************)
(* A match message finds its reservation: RESV_OK dereferences it without a *)
(* test (message.go:262), which is safe although answers, refusals, logins *)
(* and QR2's own copy come in any order, and the only panic left is that of *)
(* a receiver without a QR2 session (message.go:196-280, qr2/session.go:345).*)
(***************************************************************************)
THEOREM ReservationsPresent == ReservationInit /\ [][ReservationNext]_rvars => []ReservationInv
<1> DEFINE Inv == ReservationTypeOK /\ WaitingHasReservation /\ ReservationInv
<1> USE ReservationAssumption DEF ReservationAssumption
<1>1. ReservationInit => Inv
  <2> SUFFICES ASSUME ReservationInit PROVE Inv
    OBVIOUS
  <2>1. [st |-> "nologin", ver |-> 0, id |-> NoPlayer] \in QSessions
    BY DEF QSessions
  <2>2. outcome.res = "none"
    BY DEF ReservationInit, Nothing
  <2> QED BY <2>1, <2>2 DEF ReservationInit, ReservationTypeOK, WaitingHasReservation, ReservationInv,
                            ReservationPresent, PanicOnlyWithoutSession
<1>2. Inv /\ [ReservationNext]_rvars => Inv'
  <2> SUFFICES ASSUME Inv, [ReservationNext]_rvars PROVE Inv'
    OBVIOUS
  <2>1. CASE UNCHANGED rvars
    BY <2>1 DEF rvars, ReservationTypeOK, WaitingHasReservation, ReservationInv, ReservationPresent,
                PanicOnlyWithoutSession
  <2>2. ASSUME NEW p \in RPlayer, LogIn(p) \/ DeviceLogin(p) \/ LogOut(p) \/ \E q \in QSessions : QR2Moves(p, q)
        PROVE  Inv'
    <3>1. outcome' = Nothing
      BY <2>2 DEF LogIn, DeviceLogin, LogOut, QR2Moves
    <3>2. outcome'.res # "RESV_OK" /\ outcome'.res # "panic"
      BY <3>1, QuietOutcome
    <3>3. ReservationTypeOK'
      BY <2>2 DEF LogIn, DeviceLogin, LogOut, QR2Moves, ReservationTypeOK
    <3>4. WaitingHasReservation'
      BY <2>2 DEF LogIn, DeviceLogin, LogOut, QR2Moves, ReservationTypeOK, WaitingHasReservation
    <3> QED BY <3>2, <3>3, <3>4 DEF ReservationInv, ReservationPresent, PanicOnlyWithoutSession, WaitingHasReservation
  <2>3. ASSUME NEW g \in RPlayer, NEW to \in RPlayer, NEW cmd \in RCommands, NEW ver \in RVersions,
               NEW addr \in BOOLEAN, NEW answer \in QR2Answers(cmd),
               MatchMessage(g, to, cmd, ver, addr, answer)
        PROVE  Inv'
    BY <2>3, MessageStep
  <2> QED BY <2>1, <2>2, <2>3 DEF ReservationNext
<1>3. Inv => ReservationInv
  OBVIOUS
<1> QED BY <1>1, <1>2, <1>3, PTL

-----------------------------------------------------------------------------
(* Discord links.  The invariant follows a request through its steps: one   *)
(* that checks a link was allowed to because the player had added the bot   *)
(* for the ID on the session, and what a request that runs apart has        *)
(* written to the session is what it will write to the table.                *)

LinkRecords == [pc : {"idle", "read", "session", "persist"},
                action : {"none", "link", "check", "reset", "force"}, id : LIDs \cup {NoDiscord}]

LinkTypeOK ==
    /\ lsession \in [on : BOOLEAN, stage : {"none", "started", "friended", "finished"},
                     id : LIDs \cup {NoDiscord}]
    /\ ldb \in LIDs \cup {NoDiscord}
    /\ lreq \in [LRequests -> LinkRecords]
    /\ apart \subseteq LRequests

\* What a request's place says of its action and of the player's consent.
RequestsAllowed ==
    /\ lsession.stage = "friended" => lsession.id \in agreed
    /\ ~lsession.on => lsession.stage = "none" /\ lbot = FALSE
    /\ \A q \in LRequests :
         /\ lreq[q].pc # "idle" => lreq[q].action # "none"
         /\ lreq[q].pc \in {"read", "persist"} => lreq[q].action \in {"check", "reset", "force"}
         /\ lreq[q].pc # "idle" /\ lreq[q].action = "check" => lreq[q].id \in agreed \cup foreign

\* A request that runs apart is the only one, and the session shows what it is
\* about to write; undisturbed, there is no other, and before it writes the
\* session shows what the table has.
UndisturbedAgrees ==
    /\ \A q \in apart : \A r \in LRequests : lreq[r].pc # "idle" => r = q
    /\ lsession.stage = "finished" =>
         \A q \in apart : lreq[q].pc = "persist" /\ lreq[q].action # "reset" => lsession.id = lreq[q].id
    /\ ~disturbed =>
         /\ \A q \in LRequests : lreq[q].pc # "idle" => q \in apart /\ lreq[q].action # "reset"
         /\ lsession.stage = "finished" /\ (\A q \in LRequests : lreq[q].pc # "persist") => lsession.id = ldb

LinkIInv == LinkTypeOK /\ RequestsAllowed /\ LinkConfirmed /\ UndisturbedAgrees

\* The session begins, ends or gets the bot as a friend.
LEMMA LinkSessionStep ==
    ASSUME LinkIInv, SessionBegins \/ SessionEnds \/ FriendBot \/ FriendBotAdvances
    PROVE  LinkIInv'
<1> USE LinkAssumption DEF LinkAssumption, LinkIInv
<1>1. UNCHANGED <<ldb, lreq, forced, foreign, apart>>
  BY DEF SessionBegins, SessionEnds, FriendBot, FriendBotAdvances, histories
<1>2. agreed \subseteq agreed'
  BY DEF SessionBegins, SessionEnds, FriendBot, FriendBotAdvances, histories
<1>3. /\ lsession'.stage # "finished" \/ lsession' = lsession
      /\ lsession'.stage = "friended" => lsession'.id \in agreed'
      /\ ~lsession'.on => lsession'.stage = "none" /\ lbot' = FALSE
  <2>1. CASE SessionBegins
    BY <2>1 DEF SessionBegins
  <2>2. CASE SessionEnds
    BY <2>2 DEF SessionEnds, NoSession
  <2>3. CASE FriendBot
    BY <2>3, <1>2 DEF FriendBot, RequestsAllowed
  <2>4. CASE FriendBotAdvances
    BY <2>4 DEF FriendBotAdvances, RequestsAllowed, LinkTypeOK
  <2> QED BY <2>1, <2>2, <2>3, <2>4
<1>4. LinkTypeOK'
  <2>1. lsession' \in
           [on : BOOLEAN, stage : {"none", "started", "friended", "finished"}, id : LIDs \cup {NoDiscord}]
    <3>1. CASE SessionBegins
      BY <3>1 DEF SessionBegins, LinkTypeOK
    <3>2. CASE SessionEnds
      BY <3>2 DEF SessionEnds, NoSession
    <3>3. CASE FriendBot \/ FriendBotAdvances
      BY <3>3 DEF FriendBot, FriendBotAdvances, LinkTypeOK
    <3> QED BY <3>1, <3>2, <3>3
  <2> QED BY <1>1, <2>1 DEF LinkTypeOK
<1>5. RequestsAllowed'
  BY <1>1, <1>2, <1>3 DEF RequestsAllowed
<1>6. LinkConfirmed'
  BY <1>1, <1>2 DEF LinkConfirmed
<1>7. UndisturbedAgrees'
  <2>1. ~disturbed' => ~disturbed \/ Running = {}
    BY DEF SessionBegins, SessionEnds, FriendBot, FriendBotAdvances, histories
  <2>2. Running = {} => \A q \in LRequests : lreq[q].pc = "idle"
    BY DEF Running
  <2>3. lsession'.stage = "finished" /\ ~disturbed' => ~disturbed
    BY <1>3 DEF SessionBegins, SessionEnds, FriendBot, FriendBotAdvances, histories
  <2> QED BY <1>1, <1>3, <2>1, <2>2, <2>3 DEF UndisturbedAgrees
<1> QED BY <1>4, <1>5, <1>6, <1>7

\* A request begins: it runs apart when it finds no other.
LEMMA LinkRequestStep ==
    ASSUME LinkIInv, NEW q \in LRequests, NEW action \in {"link", "check", "reset", "force"},
           NEW id \in LIDs, Request(q, action, id)
    PROVE  LinkIInv'
<1> USE LinkAssumption DEF LinkAssumption, LinkIInv
<1>1. UNCHANGED <<lsession, ldb, lbot, agreed, forced>> /\ lreq[q].pc = "idle"
  BY DEF Request
<1>2. PICK d \in LinkRecords :
         /\ lreq' = [lreq EXCEPT ![q] = d] /\ d.action = action /\ d.id = id
         /\ d.pc = IF action = "link" THEN "session" ELSE "read"
  <2>1. PICK d : d = [pc |-> IF action = "link" THEN "session" ELSE "read", action |-> action, id |-> id]
    OBVIOUS
  <2>2. d \in LinkRecords /\ d.action = action /\ d.id = id /\ d.pc = IF action = "link" THEN "session" ELSE "read"
    BY <2>1 DEF LinkRecords
  <2>3. lreq' = [lreq EXCEPT ![q] = d]
    BY <2>1 DEF Request, Go
  <2> QED BY <2>2, <2>3
<1>3. \A r \in LRequests : lreq'[r] = IF r = q THEN d ELSE lreq[r]
  BY <1>2 DEF LinkTypeOK
<1>4. ~disturbed' => ~disturbed /\ Running = {} /\ action # "reset"
  BY DEF Request
<1>5. apart' = IF Running = {} THEN {q} ELSE {}
  BY DEF Request
<1>6. LinkTypeOK'
  BY <1>1, <1>2, <1>5 DEF LinkTypeOK
<1>7. RequestsAllowed'
  <2>1. action = "check" => lsession.stage = "friended"
    BY DEF Request
  <2>2. foreign \subseteq foreign' /\ (action = "check" /\ lsession.id # id => id \in foreign')
    BY DEF Request
  <2> QED BY <1>1, <1>2, <1>3, <2>1, <2>2 DEF RequestsAllowed
<1>8. LinkConfirmed'
  <2>1. foreign \subseteq foreign'
    BY DEF Request
  <2> QED BY <1>1, <2>1 DEF LinkConfirmed
<1>9. UndisturbedAgrees'
  <2>1. Running = {} => \A r \in LRequests : lreq[r].pc = "idle"
    BY DEF Running
  <2>2. \A p \in apart' : p = q /\ Running = {}
    BY <1>5
  <2>3. \A p \in apart' : \A r \in LRequests : lreq'[r].pc # "idle" => r = p
    BY <1>3, <2>1, <2>2
  <2>4. \A p \in apart' : lreq'[p].pc # "persist"
    BY <1>2, <1>3, <2>2
  <2>5. ASSUME ~disturbed'
        PROVE  /\ \A p \in LRequests : lreq'[p].pc # "idle" => p \in apart' /\ lreq'[p].action # "reset"
               /\ lsession.stage = "finished" => lsession.id = ldb
    <3>1. Running = {} /\ ~disturbed /\ action # "reset"
      BY <1>4, <2>5
    <3>2. \A p \in LRequests : lreq'[p].pc # "idle" => p \in apart' /\ lreq'[p].action # "reset"
      BY <1>2, <1>3, <1>5, <2>1, <3>1
    <3> QED BY <2>1, <3>1, <3>2 DEF UndisturbedAgrees
  <2> QED BY <1>1, <2>3, <2>4, <2>5 DEF UndisturbedAgrees
<1> QED BY <1>6, <1>7, <1>8, <1>9

\* GetProfile
LEMMA LinkReadStep ==
    ASSUME LinkIInv, NEW q \in LRequests, NEW ok \in BOOLEAN, ReadProfile(q, ok)
    PROVE  LinkIInv'
<1> USE LinkAssumption DEF LinkAssumption, LinkIInv
<1>1. UNCHANGED <<lsession, ldb, lbot, agreed, foreign, forced, apart, disturbed>> /\ lreq[q].pc = "read"
  BY DEF ReadProfile, histories
<1>2. PICK d \in LinkRecords :
         /\ lreq' = [lreq EXCEPT ![q] = d]
         /\ \/ d.pc = "idle"
            \/ /\ d.action = lreq[q].action /\ d.id = lreq[q].id
               /\ d.pc = IF lreq[q].action = "reset" THEN "persist" ELSE "session"
  <2>1. CASE ~ok
    <3>1. NoRequest \in LinkRecords /\ NoRequest.pc = "idle"
      BY DEF NoRequest, LinkRecords
    <3>2. lreq' = [lreq EXCEPT ![q] = NoRequest]
      BY <2>1 DEF ReadProfile
    <3> QED BY <3>1, <3>2
  <2>2. CASE ok
    <3>1. PICK d : d = [lreq[q] EXCEPT !.pc = IF lreq[q].action = "reset" THEN "persist" ELSE "session"]
      OBVIOUS
    <3>2. /\ d \in LinkRecords /\ d.action = lreq[q].action /\ d.id = lreq[q].id
          /\ d.pc = IF lreq[q].action = "reset" THEN "persist" ELSE "session"
      BY <3>1 DEF LinkTypeOK, LinkRecords
    <3>3. lreq' = [lreq EXCEPT ![q] = d]
      BY <2>2, <3>1 DEF ReadProfile
    <3> QED BY <3>2, <3>3
  <2> QED BY <2>1, <2>2
<1>3. \A r \in LRequests : lreq'[r] = IF r = q THEN d ELSE lreq[r]
  BY <1>2 DEF LinkTypeOK
<1>4. LinkTypeOK'
  BY <1>1, <1>2 DEF LinkTypeOK
<1>5. RequestsAllowed'
  BY <1>1, <1>2, <1>3 DEF RequestsAllowed
<1>6. LinkConfirmed'
  BY <1>1 DEF LinkConfirmed
<1>7. UndisturbedAgrees'
  <2>1. \A r \in LRequests : lreq'[r].pc # "idle" => lreq[r].pc # "idle" /\ lreq'[r].action = lreq[r].action
    BY <1>1, <1>2, <1>3
  <2>2. \A r \in LRequests : lreq'[r].pc = "persist" /\ lreq'[r].action # "reset" => lreq'[r] = lreq[r]
    BY <1>2, <1>3
  <2>3. ASSUME ~disturbed, \A r \in LRequests : lreq'[r].pc # "persist"
        PROVE  \A r \in LRequests : lreq[r].pc # "persist"
    BY <1>1, <1>3, <2>3
  <2> QED BY <1>1, <2>1, <2>2, <2>3 DEF UndisturbedAgrees, LinkTypeOK
<1> QED BY <1>4, <1>5, <1>6, <1>7

\* SetSessionDiscordInfo
LEMMA LinkSetStep ==
    ASSUME LinkIInv, NEW q \in LRequests, SetSession(q)
    PROVE  LinkIInv'
<1> USE LinkAssumption DEF LinkAssumption, LinkIInv
<1>1. UNCHANGED <<ldb, lbot, agreed, foreign, forced, apart, disturbed>> /\ lreq[q].pc = "session"
  BY DEF SetSession, histories
<1>2. PICK c \in LinkRecords : c = lreq[q]
  BY DEF LinkTypeOK
<1>3. PICK d \in LinkRecords :
         /\ lreq' = [lreq EXCEPT ![q] = d]
         /\ \/ d.pc = "idle" /\ (c.action = "link" \/ ~lsession.on)
            \/ d.pc = "persist" /\ d.action = c.action /\ d.id = c.id /\ c.action # "link"
  <2>1. CASE c.action = "link" \/ (~lsession.on /\ c.action = "check")
    <3>1. NoRequest \in LinkRecords /\ NoRequest.pc = "idle"
      BY DEF NoRequest, LinkRecords
    <3>2. lreq' = [lreq EXCEPT ![q] = NoRequest]
      BY <1>2, <2>1 DEF SetSession
    <3> QED BY <2>1, <3>1, <3>2
  <2>2. CASE ~(c.action = "link" \/ (~lsession.on /\ c.action = "check"))
    <3>1. PICK d : d = [c EXCEPT !.pc = "persist"]
      OBVIOUS
    <3>2. d \in LinkRecords /\ d.pc = "persist" /\ d.action = c.action /\ d.id = c.id
      BY <3>1 DEF LinkRecords
    <3>3. lreq' = [lreq EXCEPT ![q] = d]
      BY <1>2, <2>2, <3>1 DEF SetSession
    <3> QED BY <2>2, <3>2, <3>3
  <2> QED BY <2>1, <2>2
<1>4. \A r \in LRequests : lreq'[r] = IF r = q THEN d ELSE lreq[r]
  BY <1>3 DEF LinkTypeOK
<1>5. /\ lsession' \in [on : BOOLEAN, stage : {"none", "started", "friended", "finished"},
                        id : LIDs \cup {NoDiscord}]
      /\ lsession.on => lsession'.on /\ lsession'.id = c.id /\ lsession'.stage = IF c.action = "link" THEN "started" ELSE "finished"
      /\ ~lsession.on => lsession' = lsession
  <2>1. PICK s : s = [on |-> TRUE, stage |-> IF c.action = "link" THEN "started" ELSE "finished", id |-> c.id]
    OBVIOUS
  <2>2. /\ s \in [on : BOOLEAN, stage : {"none", "started", "friended", "finished"}, id : LIDs \cup {NoDiscord}]
        /\ s.on /\ s.id = c.id /\ s.stage = IF c.action = "link" THEN "started" ELSE "finished"
    BY <2>1 DEF LinkRecords
  <2>3. lsession' = IF lsession.on THEN s ELSE lsession
    BY <1>2, <2>1 DEF SetSession
  <2> QED BY <2>2, <2>3 DEF LinkTypeOK
<1>6. LinkTypeOK'
  BY <1>1, <1>3, <1>5 DEF LinkTypeOK
<1>7. RequestsAllowed'
  <2>1. lsession'.stage = "friended" => lsession'.id \in agreed
    BY <1>5 DEF RequestsAllowed
  <2>2. ~lsession'.on => lsession'.stage = "none" /\ lbot' = FALSE
    BY <1>1, <1>5 DEF RequestsAllowed
  <2>3. c.action # "none" /\ (c.action = "check" => c.id \in agreed \cup foreign)
    BY <1>1, <1>2 DEF RequestsAllowed
  <2>4. d.pc # "idle" => d.action \in {"check", "reset", "force"} /\ (d.action = "check" => d.id \in agreed \cup foreign)
    BY <1>3, <2>3 DEF LinkRecords
  <2> QED BY <1>1, <1>4, <2>1, <2>2, <2>4 DEF RequestsAllowed
<1>8. LinkConfirmed'
  BY <1>1 DEF LinkConfirmed
<1>9. UndisturbedAgrees'
  <2>1. \A r \in LRequests : lreq'[r].pc # "idle" => lreq[r].pc # "idle" /\ lreq'[r].action = lreq[r].action
    BY <1>1, <1>2, <1>3, <1>4
  <2>2. \A p \in apart : p # q => lreq'[p].pc = "idle"
    BY <1>1, <1>4 DEF UndisturbedAgrees, LinkTypeOK
  <2>3. ASSUME lsession'.stage = "finished", NEW p \in apart, lreq'[p].pc = "persist", lreq'[p].action # "reset"
        PROVE  lsession'.id = lreq'[p].id
    <3>1. p = q /\ lreq'[p] = d
      BY <1>4, <2>2, <2>3
    <3>2. lsession.on
      BY <1>5, <2>3 DEF RequestsAllowed
    <3> QED BY <1>3, <1>5, <2>3, <3>1, <3>2
  <2>4. ASSUME ~disturbed, lsession'.stage = "finished", \A p \in LRequests : lreq'[p].pc # "persist"
        PROVE  FALSE
    <3>1. d.pc = "idle"
      BY <1>3, <1>4, <2>4
    <3>2. lsession.on => c.action = "link" /\ lsession'.stage = "started"
      BY <1>3, <1>5, <3>1
    <3> QED BY <1>5, <2>4, <3>2 DEF RequestsAllowed
  <2> QED BY <1>1, <2>1, <2>3, <2>4 DEF UndisturbedAgrees, LinkTypeOK
<1> QED BY <1>6, <1>7, <1>8, <1>9

\* UpdateDiscordID
LEMMA LinkPersistStep ==
    ASSUME LinkIInv, NEW q \in LRequests, NEW ok \in BOOLEAN, Persist(q, ok)
    PROVE  LinkIInv'
<1> USE LinkAssumption DEF LinkAssumption, LinkIInv
<1>1. UNCHANGED <<lsession, lbot, agreed, foreign, apart>> /\ lreq[q].pc = "persist" /\ lreq' = [lreq EXCEPT ![q] = NoRequest]
  BY DEF Persist
<1>2. NoRequest \in LinkRecords /\ NoRequest.pc = "idle"
  BY DEF NoRequest, LinkRecords
<1>3. \A r \in LRequests : IF r = q THEN lreq'[r].pc = "idle" ELSE lreq'[r] = lreq[r]
  BY <1>1, <1>2 DEF LinkTypeOK
<1>4. PICK c \in LinkRecords : c = lreq[q]
  BY DEF LinkTypeOK
<1>5. ldb' = IF ~ok THEN ldb ELSE IF c.action = "reset" THEN NoDiscord ELSE c.id
  BY <1>4 DEF Persist
<1>6. ok => (forced' <=> c.action = "force")
  BY <1>4 DEF Persist
<1>7. ~ok => (forced' <=> forced)
  BY DEF Persist
<1>8. ~disturbed' => ok /\ (~disturbed \/ (q \in apart /\ c.action # "reset"))
  BY <1>4 DEF Persist
<1>9. c.action \in {"check", "reset", "force"} /\ (c.action = "check" => c.id \in agreed \cup foreign)
  BY <1>1, <1>4 DEF RequestsAllowed
<1>10. LinkTypeOK'
  BY <1>1, <1>2, <1>5 DEF LinkTypeOK, LinkRecords
<1>11. RequestsAllowed'
  BY <1>1, <1>3 DEF RequestsAllowed
<1>12. LinkConfirmed'
  BY <1>1, <1>5, <1>6, <1>7, <1>9 DEF LinkConfirmed
<1>13. UndisturbedAgrees'
  <2>1. \A p \in apart : \A r \in LRequests : lreq'[r].pc # "idle" => r = p
    BY <1>1, <1>3 DEF UndisturbedAgrees
  <2>2. \A p \in apart : lreq'[p].pc # "persist"
    BY <1>1, <1>3 DEF UndisturbedAgrees, LinkTypeOK
  <2>3. ASSUME ~disturbed'
        PROVE  /\ \A r \in LRequests : lreq'[r].pc = "idle"
               /\ lsession'.stage = "finished" => lsession'.id = ldb'
    <3>1. q \in apart /\ c.action # "reset"
      BY <1>1, <1>4, <1>8, <2>3 DEF UndisturbedAgrees
    <3>2. \A r \in LRequests : lreq'[r].pc = "idle"
      BY <1>3, <2>1, <3>1
    <3>3. ldb' = c.id
      BY <1>5, <1>8, <2>3, <3>1
    <3>4. lsession.stage = "finished" => lsession.id = c.id
      BY <1>1, <1>4, <3>1 DEF UndisturbedAgrees
    <3> QED BY <1>1, <3>2, <3>3, <3>4
  <2> QED BY <1>1, <2>1, <2>2, <2>3 DEF UndisturbedAgrees
<1> QED BY <1>10, <1>11, <1>12, <1>13

(***************************************************************************)
(* Requests, friend requests and logins come between the steps of a link.   *)
(* Still the ID in the table is one that the player added the bot for, that *)
(* a moderator forced or that a check named during another ID's link; and   *)
(* when the requests have ended, a session whose link is finished shows it, *)
(* unless the last ones overlapped, failed half-way or were a reset, until  *)
(* one that runs apart or the session's end puts it right (link.go:65-153,  *)
(* friend.go:66-74).                                                       *)
(***************************************************************************)
THEOREM LinksAgree == LinkSpec => []LinkInv
<1> USE LinkAssumption DEF LinkAssumption
<1>1. LinkInit => LinkIInv
  <2> SUFFICES ASSUME LinkInit PROVE LinkIInv
    OBVIOUS
  <2>1. NoRequest \in LinkRecords /\ NoRequest.pc = "idle"
    BY DEF NoRequest, LinkRecords
  <2>2. /\ NoSession \in [on : BOOLEAN, stage : {"none", "started", "friended", "finished"},
                          id : LIDs \cup {NoDiscord}]
        /\ NoSession.stage = "none"
    BY DEF NoSession
  <2> QED BY <2>1, <2>2 DEF LinkInit, LinkIInv, LinkTypeOK, RequestsAllowed, LinkConfirmed, UndisturbedAgrees, Running
<1>2. LinkIInv /\ [LinkNext]_lvars => LinkIInv'
  <2> SUFFICES ASSUME LinkIInv, [LinkNext]_lvars PROVE LinkIInv'
    OBVIOUS
  <2>1. CASE UNCHANGED lvars
    BY <2>1 DEF lvars, histories, LinkIInv, LinkTypeOK, RequestsAllowed, LinkConfirmed, UndisturbedAgrees, Running
  <2>2. CASE SessionBegins \/ SessionEnds \/ FriendBot \/ FriendBotAdvances
    BY <2>2, LinkSessionStep
  <2>3. ASSUME NEW q \in LRequests, NEW a \in {"link", "check", "reset", "force"}, NEW d \in LIDs, Request(q, a, d)
        PROVE  LinkIInv'
    BY <2>3, LinkRequestStep
  <2>4. ASSUME NEW q \in LRequests, SetSession(q)
        PROVE  LinkIInv'
    BY <2>4, LinkSetStep
  <2>5. ASSUME NEW q \in LRequests, NEW ok \in BOOLEAN, ReadProfile(q, ok) \/ Persist(q, ok)
        PROVE  LinkIInv'
    BY <2>5, LinkReadStep, LinkPersistStep
  <2> QED BY <2>1, <2>2, <2>3, <2>4, <2>5 DEF LinkNext
<1>3. LinkIInv => LinkInv
  BY DEF LinkIInv, LinkInv, UndisturbedAgrees, FinishedAgrees, Running
<1> QED BY <1>1, <1>2, <1>3, PTL DEF LinkSpec

-----------------------------------------------------------------------------
(* Hashes of packs.  The table holds every entry as of its last statement    *)
(* that did not fail, each hash in the width of its column; the map holds    *)
(* the same entry unless a statement has failed since.                       *)

Stored == {"blank", "full", "padded"}
Cached == Hashes \ {"blank"}

HashTypeOK ==
    /\ hcache \in [HKeys -> [HRegions -> Cached] \cup {HNone}]
    /\ hlast \in [HKeys -> [HRegions -> Cached] \cup {HNone}]
    /\ htable \in [HKeys -> [HRegions -> Stored] \cup {HNone}]

HashesAgree ==
    \A k \in HKeys :
        /\ k \notin hfailed => hlast[k] = hcache[k]
        /\ hlast[k] = HNone <=> htable[k] = HNone
        /\ hlast[k] # HNone => \A r \in HRegions : htable[k][r] = Column(hlast[k][r])

HashIInv == HashTypeOK /\ HashesAgree

\* An entry is a function of strings and no stand-in for a missing one.
LEMMA EntriesAreNotNone ==
    ASSUME NEW S \in SUBSET Hashes
    PROVE  HNone \notin [HRegions -> S]
BY HashAssumption DEF HashAssumption

LEMMA HashUpdateStep ==
    ASSUME HashIInv, NEW k \in HKeys, NEW ok \in BOOLEAN, NEW h \in [HRegions -> Hashes],
           UpdateHash(k, h, ok)
    PROVE  HashIInv'
<1> USE HashAssumption DEF HashAssumption, HashIInv
<1>1. PICK c \in [HRegions -> Cached] : c = [r \in HRegions |-> flattenBlank(h[r])]
  BY DEF flattenBlank, Hashes, Cached
<1>2. PICK t : t = [r \in HRegions |-> Column(h[r])]
  OBVIOUS
<1>3. ok => t \in [HRegions -> Stored]
  <2> SUFFICES ASSUME ok, NEW r \in HRegions PROVE Column(h[r]) \in Stored
    BY <1>2
  <2>1. h[r] \in Hashes \ {"long"}
    BY DEF UpdateHash
  <2> QED BY <2>1 DEF Column, Stored, Hashes
<1>4. \A r \in HRegions : t[r] = Column(c[r])
  <2> TAKE r \in HRegions
  <2>1. h[r] \in Hashes /\ t[r] = Column(h[r]) /\ c[r] = flattenBlank(h[r])
    BY <1>1, <1>2
  <2> QED BY <2>1 DEF flattenBlank, Column, Hashes
<1>5. hcache' = [hcache EXCEPT ![k] = c] /\ htable' = IF ok THEN [htable EXCEPT ![k] = t] ELSE htable
  BY <1>1, <1>2 DEF UpdateHash
<1>6. /\ hfailed' = IF ok THEN hfailed \ {k} ELSE hfailed \cup {k}
      /\ hlast' = IF ok THEN [hlast EXCEPT ![k] = c] ELSE hlast
  BY <1>5 DEF UpdateHash, Outcome, HashTypeOK
<1>7. HashTypeOK'
  BY <1>3, <1>5, <1>6 DEF HashTypeOK
<1>8. c # HNone /\ (ok => t # HNone)
  BY <1>1, <1>3, EntriesAreNotNone DEF Stored, Hashes, Cached
<1>9. HashesAgree'
  <2> SUFFICES ASSUME NEW j \in HKeys
               PROVE  /\ j \notin hfailed' => hlast'[j] = hcache'[j]
                      /\ hlast'[j] = HNone <=> htable'[j] = HNone
                      /\ hlast'[j] # HNone => \A r \in HRegions : htable'[j][r] = Column(hlast'[j][r])
    BY DEF HashesAgree, Column
  <2>1. CASE j = k /\ ok
    BY <1>4, <1>5, <1>6, <1>8, <2>1 DEF HashTypeOK
  <2>2. CASE ~(j = k /\ ok)
    BY <1>5, <1>6, <2>2 DEF HashTypeOK, HashesAgree
  <2> QED BY <2>1, <2>2
<1> QED BY <1>7, <1>9

LEMMA HashRemoveStep ==
    ASSUME HashIInv, NEW k \in HKeys, NEW ok \in BOOLEAN, RemoveHash(k, ok)
    PROVE  HashIInv'
<1> USE HashAssumption DEF HashAssumption, HashIInv
<1>1. hcache' = [hcache EXCEPT ![k] = HNone] /\ htable' = IF ok THEN [htable EXCEPT ![k] = HNone] ELSE htable
  BY DEF RemoveHash
<1>2. /\ hfailed' = IF ok THEN hfailed \ {k} ELSE hfailed \cup {k}
      /\ hlast' = IF ok THEN [hlast EXCEPT ![k] = HNone] ELSE hlast
  BY <1>1 DEF RemoveHash, Outcome, HashTypeOK
<1>3. HashTypeOK'
  BY <1>1, <1>2 DEF HashTypeOK
<1>4. HashesAgree'
  <2> SUFFICES ASSUME NEW j \in HKeys
               PROVE  /\ j \notin hfailed' => hlast'[j] = hcache'[j]
                      /\ hlast'[j] = HNone <=> htable'[j] = HNone
                      /\ hlast'[j] # HNone => \A r \in HRegions : htable'[j][r] = Column(hlast'[j][r])
    BY DEF HashesAgree, Column
  <2>1. CASE j = k /\ ok
    BY <1>1, <1>2, <2>1 DEF HashTypeOK
  <2>2. CASE ~(j = k /\ ok)
    BY <1>1, <1>2, <2>2 DEF HashTypeOK, HashesAgree
  <2> QED BY <2>1, <2>2
<1> QED BY <1>3, <1>4

\* What the program reads when it starts.
LEMMA LoadedEntries ==
    ASSUME HashTypeOK
    PROVE  \E L : /\ L = Loaded
                  /\ L \in [HKeys -> [HRegions -> Cached] \cup {HNone}]
                  /\ \A k \in HKeys :
                       /\ L[k] = HNone <=> htable[k] = HNone
                       /\ htable[k] # HNone => \A r \in HRegions : L[k][r] = flattenBlank(htable[k][r])
<1> USE HashAssumption DEF HashAssumption
<1>1. ASSUME NEW k \in HKeys, htable[k] # HNone
      PROVE  /\ [r \in HRegions |-> flattenBlank(htable[k][r])] \in [HRegions -> Cached]
             /\ [r \in HRegions |-> flattenBlank(htable[k][r])] # HNone
  <2>1. htable[k] \in [HRegions -> Stored]
    BY <1>1 DEF HashTypeOK
  <2>2. [r \in HRegions |-> flattenBlank(htable[k][r])] \in [HRegions -> Cached]
    BY <2>1 DEF flattenBlank, Hashes, Stored, Cached
  <2> QED BY <2>2, EntriesAreNotNone DEF Cached
<1>2. PICK L : L = Loaded
  OBVIOUS
<1>3. L = [k \in HKeys |-> IF htable[k] = HNone THEN HNone
                         ELSE [r \in HRegions |-> flattenBlank(htable[k][r])]]
  BY <1>2 DEF Loaded
<1>4. L \in [HKeys -> [HRegions -> Cached] \cup {HNone}]
  BY <1>1, <1>3
<1>5. \A k \in HKeys : L[k] = HNone <=> htable[k] = HNone
  BY <1>1, <1>3
<1>6. \A k \in HKeys : htable[k] # HNone => \A r \in HRegions : L[k][r] = flattenBlank(htable[k][r])
  BY <1>3
<1> QED BY <1>2, <1>4, <1>5, <1>6

(***************************************************************************)
(* The map is changed before the statement is executed, which may fail.    *)
(* After a restart ValidateHash accepts what the last change of each entry  *)
(* that reported no error put there, as its column holds it; without an     *)
(* error in between that is the entry that the map had before               *)
(* (hash.go:93-111, 131-203, schema.sql:170-177).                           *)
(***************************************************************************)
THEOREM HashesSurviveRestart == HashSpec => []RestartKeepsAnswers
<1> USE HashAssumption DEF HashAssumption
<1>1. HashStart => HashIInv
  BY DEF HashStart, HashIInv, HashTypeOK, HashesAgree
<1>2. HashIInv /\ [HashNext]_hvars => HashIInv'
  <2> SUFFICES ASSUME HashIInv, [HashNext]_hvars PROVE HashIInv'
    OBVIOUS
  <2>1. CASE UNCHANGED hvars \/ GetHashes
    <3>1. UNCHANGED <<hcache, htable, hlast, hfailed>>
      BY <2>1 DEF hvars, GetHashes
    <3> QED BY <3>1 DEF HashIInv, HashTypeOK, HashesAgree, Column
  <2>2. CASE HashInit
    <3>1. PICK L : /\ L = Loaded
                   /\ L \in [HKeys -> [HRegions -> Cached] \cup {HNone}]
                   /\ \A k \in HKeys :
                        /\ L[k] = HNone <=> htable[k] = HNone
                        /\ htable[k] # HNone => \A r \in HRegions : L[k][r] = flattenBlank(htable[k][r])
      BY LoadedEntries DEF HashIInv
    <3>2. hcache' = L /\ hlast' = L /\ UNCHANGED htable
      BY <2>2, <3>1 DEF HashInit
    <3>3. HashTypeOK'
      BY <3>1, <3>2 DEF HashIInv, HashTypeOK
    <3>4. ASSUME NEW k \in HKeys, htable[k] # HNone, NEW r \in HRegions
          PROVE  htable[k][r] = Column(L[k][r])
      <4>1. htable[k][r] \in Stored
        BY <3>4 DEF HashIInv, HashTypeOK
      <4> QED BY <3>1, <3>4, <4>1 DEF Column, flattenBlank, Stored
    <3>5. HashesAgree'
      <4> SUFFICES ASSUME NEW k \in HKeys
                   PROVE  /\ k \notin hfailed' => hlast'[k] = hcache'[k]
                          /\ hlast'[k] = HNone <=> htable'[k] = HNone
                          /\ hlast'[k] # HNone => \A r \in HRegions : htable'[k][r] = Column(hlast'[k][r])
        BY DEF HashesAgree, Column
      <4> QED BY <3>1, <3>2, <3>4
    <3> QED BY <3>3, <3>5 DEF HashIInv
  <2>3. ASSUME NEW k \in HKeys, NEW ok \in BOOLEAN, RemoveHash(k, ok)
        PROVE  HashIInv'
    BY <2>3, HashRemoveStep
  <2>4. ASSUME NEW k \in HKeys, NEW ok \in BOOLEAN, NEW h \in [HRegions -> Hashes], UpdateHash(k, h, ok)
        PROVE  HashIInv'
    BY <2>4, HashUpdateStep
  <2> QED BY <2>1, <2>2, <2>3, <2>4 DEF HashNext
<1>3. HashIInv => RestartKeepsAnswers
  <2> SUFFICES ASSUME HashIInv, NEW k \in HKeys, NEW r \in HRegions, NEW h \in Hashes
               PROVE  ValidateHash(Loaded, k, r, h) =
                        (hlast[k] # HNone /\ hlast[k][r] # "" /\ h = Column(hlast[k][r]))
    BY DEF RestartKeepsAnswers, HashIInv, HashesAgree
  <2>1. PICK L : /\ L = Loaded
                 /\ \A j \in HKeys :
                      /\ L[j] = HNone <=> htable[j] = HNone
                      /\ htable[j] # HNone => \A s \in HRegions : L[j][s] = flattenBlank(htable[j][s])
    BY LoadedEntries DEF HashIInv
  <2>2. L[k] = HNone <=> hlast[k] = HNone
    BY <2>1 DEF HashIInv, HashesAgree
  <2>3. ASSUME hlast[k] # HNone
        PROVE  (L[k][r] # "" /\ L[k][r] = h) <=> (hlast[k][r] # "" /\ h = Column(hlast[k][r]))
    <3>1. htable[k] # HNone /\ htable[k][r] = Column(hlast[k][r])
      BY <2>3 DEF HashIInv, HashesAgree
    <3>2. hlast[k][r] \in Cached /\ htable[k][r] \in Stored
      BY <2>3, <3>1 DEF HashIInv, HashTypeOK
    <3>3. L[k][r] = flattenBlank(htable[k][r])
      BY <2>1, <3>1
    <3> QED BY <3>1, <3>2, <3>3 DEF flattenBlank, Column, Stored, Hashes, Cached
  <2> QED BY <2>1, <2>2, <2>3 DEF ValidateHash
<1> QED BY <1>1, <1>2, <1>3, PTL DEF HashSpec

-----------------------------------------------------------------------------
(* Friends: the loops over AuthFriendList.  What they take off the lists is  *)
(* shown by induction on their steps, with the least step that fails.       *)

LEMMA LeastNatural ==
    ASSUME NEW T \in SUBSET Nat, T # {}
    PROVE  \E n \in T : \A m \in T : n <= m
<1>1. PICK n \in T : \A m \in T : ~(<<m, n>> \in OpToRel(<, Nat))
  BY WFMin, NatLessThanWellFounded, Zenon
<1>2. \A m \in T : ~(m < n)
  BY <1>1 DEF OpToRel
<1> QED BY <1>2

LEMMA Induction ==
    ASSUME NEW T \in SUBSET Nat, 0 \in T, \A n \in T : n + 1 \in T
    PROVE  T = Nat
<1> SUFFICES ASSUME T # Nat PROVE FALSE
  OBVIOUS
<1>1. PICK n \in Nat \ T : \A m \in Nat \ T : n <= m
  BY LeastNatural
<1>2. n # 0 /\ n - 1 \in Nat
  BY <1>1
<1>3. n - 1 \in T
  BY <1>1, <1>2
<1> QED BY <1>1, <1>2, <1>3

\* removeFromUint32Array keeps everybody else on the list.
LEMMA RemovedKeeps ==
    ASSUME NEW s \in Seq(Profile), NEW e \in InSeq(s)
    PROVE  Removed(s, e) \in Seq(Profile) /\ InSeq(s) \ {e} \subseteq InSeq(Removed(s, e))
<1>1. PICK i \in DOMAIN s : /\ s[i] = e /\ \A k \in 1..(i - 1) : s[k] # e
                           /\ i = CHOOSE j \in DOMAIN s : s[j] = e /\ \A k \in 1..(j - 1) : s[k] # e
  <2> DEFINE T == {j \in DOMAIN s : s[j] = e}
  <2>1. T \in SUBSET Nat /\ T # {}
    BY DEF InSeq
  <2>2. PICK j \in T : \A m \in T : j <= m
    BY <2>1, LeastNatural
  <2>3. \E k \in DOMAIN s : s[k] = e /\ \A m \in 1..(k - 1) : s[m] # e
    BY <2>2
  <2> QED BY <2>3
<1>2. PICK t : t = [j \in 1..(Len(s) - 1) |-> IF j = i THEN s[Len(s)] ELSE s[j]]
  OBVIOUS
<1>3. t = Removed(s, e)
  BY <1>1, <1>2 DEF Removed
<1>4. Len(s) \in Nat /\ Len(s) >= 1 /\ i \in 1..Len(s) /\ DOMAIN t = 1..(Len(s) - 1)
  BY <1>2
<1>5. t \in Seq(Profile)
  <2>1. t \in [1..(Len(s) - 1) -> Profile]
    BY <1>2, <1>4
  <2>2. Len(s) - 1 \in Nat
    BY <1>4
  <2> QED BY <2>1, <2>2
<1>6. ASSUME NEW m \in 1..Len(s), s[m] # e
      PROVE  \E j \in DOMAIN t : t[j] = s[m]
  <2>1. CASE m = Len(s)
    <3>1. i \in DOMAIN t /\ t[i] = s[m]
      BY <1>1, <1>2, <1>4, <1>6, <2>1
    <3> QED BY <3>1
  <2>2. CASE m # Len(s)
    <3>1. m \in DOMAIN t /\ t[m] = s[m]
      BY <1>1, <1>2, <1>4, <1>6, <2>2
    <3> QED BY <3>1
  <2> QED BY <2>1, <2>2
<1>7. InSeq(s) \ {e} \subseteq InSeq(t)
  BY <1>4, <1>6 DEF InSeq
<1> QED BY <1>3, <1>5, <1>7

\* One step of a loop, from the lists a.
LEMMA UnauthorizeKeeps ==
    ASSUME NEW a \in [Profile -> Seq(Profile)], NEW p \in Profile, NEW q \in Profile
    PROVE  /\ Unauthorize(a, p, q) \in [Profile -> Seq(Profile)]
           /\ \A r \in Profile : r # p => Unauthorize(a, p, q)[r] = a[r]
           /\ InSeq(a[p]) \ {q} \subseteq InSeq(Unauthorize(a, p, q)[p])
<1>1. CASE Online(p) /\ q \in InSeq(a[p])
  <2>1. PICK t : t = Removed(a[p], q)
    OBVIOUS
  <2>2. a[p] \in Seq(Profile)
    OBVIOUS
  <2>3. t \in Seq(Profile) /\ InSeq(a[p]) \ {q} \subseteq InSeq(t)
    BY <1>1, <2>1, <2>2, RemovedKeeps
  <2>4. Unauthorize(a, p, q) = [a EXCEPT ![p] = t]
    BY <1>1, <2>1 DEF Unauthorize
  <2> QED BY <2>3, <2>4
<1>2. CASE ~(Online(p) /\ q \in InSeq(a[p]))
  <2>1. Unauthorize(a, p, q) = a
    BY <1>2 DEF Unauthorize
  <2> QED BY <2>1
<1> QED BY <1>1, <1>2

\* The steps of a loop exist: Unlisted is the last of them.
LEMMA UnlistedSteps ==
    ASSUME NEW p \in Profile, NEW s \in Seq(Profile), NEW both \in BOOLEAN
    PROVE  \E a : /\ a[0] = auth
                  /\ \A i \in 1..Len(s) :
                       a[i] = Unauthorize(IF both THEN Unauthorize(a[i - 1], p, s[i]) ELSE a[i - 1], s[i], p)
                  /\ Unlisted(p, s, both) = a[Len(s)]
<1> DEFINE Step(g, i) == Unauthorize(IF both THEN Unauthorize(g, p, s[i]) ELSE g, s[i], p)
           T == {n \in Nat : n <= Len(s) => \E g : g = [i \in 0..n |-> IF i = 0 THEN auth ELSE Step(g[i - 1], i)]}
<1> HIDE DEF Step
<1>1. 0 \in T
  <2>1. PICK g : g = [i \in 0..0 |-> auth]
    OBVIOUS
  <2>2. g = [i \in 0..0 |-> IF i = 0 THEN auth ELSE Step(g[i - 1], i)]
    BY <2>1
  <2> QED BY <2>2
<1>2. ASSUME NEW n \in T
      PROVE  n + 1 \in T
  <2>1. n \in Nat /\ n + 1 \in Nat
    OBVIOUS
  <2>2. ASSUME n + 1 <= Len(s)
        PROVE  \E g : g = [i \in 0..(n + 1) |-> IF i = 0 THEN auth ELSE Step(g[i - 1], i)]
    <3>1. PICK g : g = [i \in 0..n |-> IF i = 0 THEN auth ELSE Step(g[i - 1], i)]
      BY <2>1, <2>2
    <3>2. PICK h : h = [i \in 0..(n + 1) |-> IF i = n + 1 THEN Step(g[n], n + 1) ELSE g[i]]
      OBVIOUS
    <3>3. ASSUME NEW i \in 0..(n + 1)
          PROVE  h[i] = IF i = 0 THEN auth ELSE Step(h[i - 1], i)
      <4>1. CASE i = n + 1
        BY <2>1, <3>2, <4>1
      <4>2. CASE i # n + 1 /\ i # 0
        <5>1. i \in 0..n /\ i - 1 \in 0..n /\ i - 1 \in 0..(n + 1) /\ i - 1 # n + 1
          BY <2>1, <4>2
        <5>2. h[i] = g[i] /\ h[i - 1] = g[i - 1]
          BY <3>2, <4>2, <5>1
        <5>3. g[i] = Step(g[i - 1], i)
          BY <3>1, <4>2, <5>1
        <5> QED BY <4>2, <5>2, <5>3
      <4>3. CASE i = 0
        <5>1. h[0] = g[0] /\ g[0] = auth
          BY <2>1, <3>1, <3>2
        <5> QED BY <4>3, <5>1
      <4> QED BY <4>1, <4>2, <4>3
    <3>4. h = [i \in 0..(n + 1) |-> IF i = 0 THEN auth ELSE Step(h[i - 1], i)]
      BY <3>2, <3>3
    <3> QED BY <3>4
  <2> QED BY <2>1, <2>2
<1>3. T = Nat
  <2>1. T \in SUBSET Nat
    OBVIOUS
  <2> HIDE DEF T
  <2> QED BY <1>1, <1>2, <2>1, Induction
<1>4. \E g : g = [i \in 0..Len(s) |-> IF i = 0 THEN auth ELSE Step(g[i - 1], i)]
  <2>1. Len(s) \in T
    BY <1>3
  <2> QED BY <2>1
<1>5. PICK a : a = CHOOSE g : g = [i \in 0..Len(s) |-> IF i = 0 THEN auth ELSE Step(g[i - 1], i)]
  OBVIOUS
<1>6. a = [i \in 0..Len(s) |-> IF i = 0 THEN auth ELSE Step(a[i - 1], i)]
  BY <1>4, <1>5
<1>7. a[0] = auth /\ \A i \in 1..Len(s) : a[i] = Step(a[i - 1], i)
  BY <1>6
<1>8. Unlisted(p, s, both) = a[Len(s)]
  BY <1>5 DEF Unlisted, Step
<1> QED BY <1>7, <1>8 DEF Step

\* What a loop over s leaves on the lists.
Kept(a, p, s, both) ==
    /\ a \in [Profile -> Seq(Profile)]
    /\ \A r \in Profile : r # p => InSeq(auth[r]) \ {p} \subseteq InSeq(a[r])
    /\ \A r \in Profile : r # p /\ r \notin InSeq(s) => a[r] = auth[r]
    /\ \A r \in InSeq(auth[p]) : r # p /\ (both => r \notin InSeq(s)) => r \in InSeq(a[p])

LEMMA UnlistedKeeps ==
    ASSUME NEW p \in Profile, NEW s \in Seq(Profile), NEW both \in BOOLEAN,
           auth \in [Profile -> Seq(Profile)]
    PROVE  Kept(Unlisted(p, s, both), p, s, both)
<1>1. PICK a : /\ a[0] = auth
               /\ \A i \in 1..Len(s) :
                    a[i] = Unauthorize(IF both THEN Unauthorize(a[i - 1], p, s[i]) ELSE a[i - 1], s[i], p)
               /\ Unlisted(p, s, both) = a[Len(s)]
  BY UnlistedSteps
<1> DEFINE T == {n \in Nat : n <= Len(s) => Kept(a[n], p, s, both)}
<1>2. 0 \in T
  <2>1. Kept(auth, p, s, both)
    BY DEF Kept
  <2> QED BY <1>1, <2>1
<1>3. ASSUME NEW n \in T
      PROVE  n + 1 \in T
  <2> SUFFICES ASSUME n + 1 <= Len(s) PROVE Kept(a[n + 1], p, s, both)
    OBVIOUS
  <2>1. n \in Nat /\ n + 1 \in 1..Len(s) /\ (n + 1) - 1 = n
    OBVIOUS
  <2>2. PICK q \in Profile : q = s[n + 1]
    BY <2>1
  <2>3. q \in InSeq(s)
    BY <2>1, <2>2 DEF InSeq
  <2>4. PICK b : b = a[n]
    OBVIOUS
  <2>5. Kept(b, p, s, both)
    BY <2>1, <2>4
  <2>6. PICK c : c = IF both THEN Unauthorize(b, p, q) ELSE b
    OBVIOUS
  <2>7. /\ c \in [Profile -> Seq(Profile)]
        /\ \A r \in Profile : r # p => c[r] = b[r]
        /\ InSeq(b[p]) \ (IF both THEN {q} ELSE {}) \subseteq InSeq(c[p])
    <3>1. CASE both
      <4>1. c = Unauthorize(b, p, q)
        BY <2>6, <3>1
      <4> QED BY <2>5, <3>1, <4>1, UnauthorizeKeeps DEF Kept
    <3>2. CASE ~both
      BY <2>5, <2>6, <3>2 DEF Kept
    <3> QED BY <3>1, <3>2
  <2>8. PICK d : d = Unauthorize(c, q, p)
    OBVIOUS
  <2>9. /\ d \in [Profile -> Seq(Profile)]
        /\ \A r \in Profile : r # q => d[r] = c[r]
        /\ InSeq(c[q]) \ {p} \subseteq InSeq(d[q])
    BY <2>7, <2>8, UnauthorizeKeeps
  <2>10. a[n + 1] = d
    BY <1>1, <2>1, <2>2, <2>4, <2>6, <2>8
  <2>11. \A r \in Profile : r # p => InSeq(auth[r]) \ {p} \subseteq InSeq(d[r])
    <3> SUFFICES ASSUME NEW r \in Profile, r # p PROVE InSeq(auth[r]) \ {p} \subseteq InSeq(d[r])
      OBVIOUS
    <3>1. InSeq(auth[r]) \ {p} \subseteq InSeq(c[r])
      BY <2>5, <2>7 DEF Kept
    <3>2. CASE r = q
      BY <2>9, <3>1, <3>2
    <3>3. CASE r # q
      BY <2>9, <3>1, <3>3
    <3> QED BY <3>2, <3>3
  <2>12. \A r \in Profile : r # p /\ r \notin InSeq(s) => d[r] = auth[r]
    BY <2>3, <2>5, <2>7, <2>9 DEF Kept
  <2>13. \A r \in InSeq(auth[p]) : r # p /\ (both => r \notin InSeq(s)) => r \in InSeq(d[p])
    <3> SUFFICES ASSUME NEW r \in InSeq(auth[p]), r # p, both => r \notin InSeq(s)
                 PROVE  r \in InSeq(d[p])
      OBVIOUS
    <3>1. r \in InSeq(b[p])
      BY <2>5 DEF Kept
    <3>2. r \in InSeq(c[p])
      BY <2>3, <2>7, <3>1
    <3>3. CASE q = p
      BY <2>9, <3>2, <3>3
    <3>4. CASE q # p
      BY <2>9, <3>2, <3>4
    <3> QED BY <3>3, <3>4
  <2> QED BY <2>9, <2>10, <2>11, <2>12, <2>13 DEF Kept
<1>4. T = Nat
  <2>1. T \in SUBSET Nat
    OBVIOUS
  <2> HIDE DEF T
  <2> QED BY <1>2, <1>3, <2>1, Induction
<1>5. Kept(a[Len(s)], p, s, both)
  <2>1. Len(s) \in T /\ Len(s) \in Nat
    BY <1>4
  <2> QED BY <2>1
<1> QED BY <1>1, <1>5

\* The strangers among the authorized are not friends.
LEMMA StrangersStrange ==
    ASSUME NEW g \in Profile, auth \in [Profile -> Seq(Profile)]
    PROVE  Strangers(g) \in Seq(Profile) /\ InSeq(Strangers(g)) \cap friends[g] = {}
<1> DEFINE added == {i \in DOMAIN auth[g] : auth[g][i] \in friends[g]}
<1>0. auth[g] \in Seq(Profile) /\ Len(auth[g]) \in Nat /\ DOMAIN auth[g] = 1..Len(auth[g])
  OBVIOUS
<1>1. CASE added = {}
  <2>1. Strangers(g) = auth[g]
    BY <1>1 DEF Strangers
  <2> QED BY <1>0, <1>1, <2>1 DEF InSeq
<1>2. CASE added # {}
  <2>1. added \in SUBSET Nat
    BY <1>0
  <2>2. \E i \in added : \A j \in added : i <= j
    <3> HIDE DEF added
    <3> QED BY <1>2, <2>1, LeastNatural
  <2>3. PICK i \in added : i = CHOOSE k \in added : \A j \in added : k <= j
    BY <2>2
  <2>4. \A j \in added : i <= j
    BY <2>2, <2>3
  <2>5. Strangers(g) = SubSeq(auth[g], 1, i - 1)
    BY <1>2, <2>3 DEF Strangers
  <2>6. i \in 1..Len(auth[g])
    BY <1>0
  <2>7. /\ SubSeq(auth[g], 1, i - 1) \in Seq(Profile)
        /\ Len(SubSeq(auth[g], 1, i - 1)) = i - 1
        /\ \A k \in 1..(i - 1) : SubSeq(auth[g], 1, i - 1)[k] = auth[g][k]
    BY <1>0, <2>6
  <2>8. \A k \in 1..(i - 1) : auth[g][k] \notin friends[g]
    <3> SUFFICES ASSUME NEW k \in 1..(i - 1), auth[g][k] \in friends[g] PROVE FALSE
      OBVIOUS
    <3>1. k \in DOMAIN auth[g] /\ k < i
      BY <1>0, <2>6
    <3>2. k \in added
      BY <3>1
    <3> QED BY <2>4, <2>6, <3>1, <3>2
  <2>9. InSeq(Strangers(g)) \cap friends[g] = {}
    BY <2>5, <2>7, <2>8 DEF InSeq
  <2> QED BY <2>5, <2>7, <2>9
<1> QED BY <1>1, <1>2

-----------------------------------------------------------------------------
(* Friends: the invariant.  A friend that is shown is online and on both     *)
(* lists, so that its logout, which goes by the lists, finds everybody that  *)
(* shows it; and only friends are shown, so that an open host that closes    *)
(* takes nobody off its list whom it shows.                                  *)

HandlersEnd == \A p \in Profile : on[p] # "on" => buf[p] = {} /\ open[p] \in {"no", "yes"}

OnlyFriends ==
    \A p \in Profile : friends[p] \subseteq Knows[p] /\ shown[p] \subseteq friends[p] /\ buf[p] \subseteq friends[p]

Mutual(p, q) == on[p] = "on" /\ p \in InSeq(auth[q]) /\ q \in InSeq(auth[p])

ShownMutual ==
    \A q \in Profile : on[q] = "on" => \A p \in shown[q] : <<p, q>> \in late \/ Mutual(p, q)

\* As OpenHostComplete, from the moment when the lists are changed.
OpenHostsKnown ==
    \A g, q \in Profile :
        /\ on[g] = "on" /\ (open[g] = "opening" \/ (open[g] = "yes" /\ statusSet[g]))
        /\ on[q] = "on" /\ g \in friends[q]
        => g \in InSeq(auth[q]) \/ <<q, g>> \in raced

FriendsIInv ==
    FriendsTypeOK /\ HandlersEnd /\ OnlyFriends /\ ShownMutual /\ RecvTrue /\ OpenHostsKnown

\* What Deliver does, to senders and receivers who are friends.
LEMMA DeliverStep ==
    ASSUME FriendsTypeOK, NEW S \in SUBSET (Profile \X Profile), NEW L \in SUBSET (Profile \X Profile),
           Deliver(S, L)
    PROVE  /\ recv' \in [Profile -> SUBSET Profile] /\ got' \in [Profile -> SUBSET Profile]
           /\ shown' \in [Profile -> SUBSET Profile] /\ late' \subseteq Profile \X Profile
           /\ \A q \in Profile : recv[q] \subseteq got[q] \cup buf[q] => recv'[q] \subseteq got'[q] \cup buf[q]
           /\ \A q \in Profile : shown'[q] \subseteq shown[q] \cup {p \in Profile : <<p, q>> \in S}
           /\ \A q \in Profile : \A p \in shown'[q] : <<p, q>> \notin late' =>
                \/ <<p, q>> \in S /\ on[p] = "on" /\ p \in InSeq(auth'[q]) /\ q \in InSeq(auth'[p])
                \/ p \in shown[q] /\ <<p, q>> \notin late /\ <<p, q>> \notin L
<1>1. /\ recv'  = [q \in Profile |-> recv[q] \cup {p \in Profile : <<p, q>> \in S}]
      /\ got'   = [q \in Profile |-> got[q] \cup {p \in Profile : <<p, q>> \in S \cup L}]
      /\ shown' = [q \in Profile |-> (shown[q] \cup {p \in Profile : <<p, q>> \in S})
                                       \ {p \in Profile : <<p, q>> \in L}]
      /\ late'  = (late \ (S \cup L)) \cup {s \in S : Unannounced(s[1], s[2])}
  BY DEF Deliver
<1>2. /\ recv' \in [Profile -> SUBSET Profile] /\ got' \in [Profile -> SUBSET Profile]
      /\ shown' \in [Profile -> SUBSET Profile]
  BY <1>1 DEF FriendsTypeOK
<1>3. late' \subseteq Profile \X Profile
  BY <1>1 DEF FriendsTypeOK
<1>4. \A q \in Profile : recv[q] \subseteq got[q] \cup buf[q] => recv'[q] \subseteq got'[q] \cup buf[q]
  BY <1>1
<1>5. \A q \in Profile : shown'[q] \subseteq shown[q] \cup {p \in Profile : <<p, q>> \in S}
  BY <1>1
<1>6. ASSUME NEW q \in Profile, NEW p \in shown'[q], <<p, q>> \notin late'
      PROVE  \/ <<p, q>> \in S /\ on[p] = "on" /\ p \in InSeq(auth'[q]) /\ q \in InSeq(auth'[p])
             \/ p \in shown[q] /\ <<p, q>> \notin late /\ <<p, q>> \notin L
  <2>1. p \in Profile /\ <<p, q>> \notin L
    BY <1>1, <1>2, <1>6
  <2>2. CASE <<p, q>> \in S
    <3>1. ~Unannounced(p, q)
      BY <1>1, <1>6, <2>2
    <3> QED BY <2>2, <3>1 DEF Unannounced
  <2>3. CASE <<p, q>> \notin S
    BY <1>1, <1>6, <2>1, <2>3
  <2> QED BY <2>2, <2>3
<1> QED BY <1>2, <1>3, <1>4, <1>5, <1>6

\* Logouts only.
LEMMA DeliverLogouts ==
    ASSUME FriendsTypeOK, NEW L \in SUBSET (Profile \X Profile), Deliver({}, L)
    PROVE  /\ recv' \in [Profile -> SUBSET Profile] /\ got' \in [Profile -> SUBSET Profile]
           /\ shown' \in [Profile -> SUBSET Profile] /\ late' \subseteq Profile \X Profile
           /\ \A q \in Profile : recv[q] \subseteq got[q] \cup buf[q] => recv'[q] \subseteq got'[q] \cup buf[q]
           /\ \A q \in Profile : \A p \in shown'[q] :
                p \in shown[q] /\ (<<p, q>> \notin late' => <<p, q>> \notin late /\ <<p, q>> \notin L)
<1>1. PICK S \in SUBSET (Profile \X Profile) : S = {}
  OBVIOUS
<1>2. Deliver(S, L)
  BY <1>1
<1>3. /\ recv' \in [Profile -> SUBSET Profile] /\ got' \in [Profile -> SUBSET Profile]
      /\ shown' \in [Profile -> SUBSET Profile] /\ late' \subseteq Profile \X Profile
      /\ \A q \in Profile : recv[q] \subseteq got[q] \cup buf[q] => recv'[q] \subseteq got'[q] \cup buf[q]
      /\ \A q \in Profile : shown'[q] \subseteq shown[q] \cup {p \in Profile : <<p, q>> \in S}
      /\ \A q \in Profile : \A p \in shown'[q] : <<p, q>> \notin late' =>
           \/ <<p, q>> \in S /\ on[p] = "on" /\ p \in InSeq(auth'[q]) /\ q \in InSeq(auth'[p])
           \/ p \in shown[q] /\ <<p, q>> \notin late /\ <<p, q>> \notin L
  BY <1>2, DeliverStep
<1> QED BY <1>1, <1>3

LEMMA LoginStep ==
    ASSUME FriendsIInv, NEW p \in Profile, Login(p)
    PROVE  FriendsIInv'
<1> USE DEF FriendsIInv
<1>1. /\ on[p] = "off" /\ on' = [on EXCEPT ![p] = "on"] /\ friends' = [friends EXCEPT ![p] = {}]
      /\ auth' = [auth EXCEPT ![p] = <<>>] /\ statusSet' = [statusSet EXCEPT ![p] = FALSE]
      /\ recv' = [recv EXCEPT ![p] = {}] /\ shown' = [shown EXCEPT ![p] = {}] /\ got' = [got EXCEPT ![p] = {}]
      /\ late' = {s \in late : s[2] # p} /\ raced' = {s \in raced : s[1] # p} /\ UNCHANGED <<buf, open>>
  BY DEF Login
<1>2. FriendsTypeOK'
  <2>1. late' \subseteq Profile \X Profile /\ raced' \subseteq Profile \X Profile
    BY <1>1 DEF FriendsTypeOK
  <2>2. /\ on' \in [Profile -> {"off", "on", "leaving"}] /\ friends' \in [Profile -> SUBSET Profile]
        /\ auth' \in [Profile -> Seq(Profile)] /\ recv' \in [Profile -> SUBSET Profile]
        /\ shown' \in [Profile -> SUBSET Profile] /\ got' \in [Profile -> SUBSET Profile]
    BY <1>1 DEF FriendsTypeOK
  <2>3. statusSet' \in [Profile -> BOOLEAN]
    BY <1>1 DEF FriendsTypeOK
  <2> QED BY <1>1, <2>1, <2>2, <2>3 DEF FriendsTypeOK
<1>3. HandlersEnd'
  BY <1>1 DEF HandlersEnd, FriendsTypeOK
<1>4. OnlyFriends'
  BY <1>1 DEF OnlyFriends, HandlersEnd, FriendsTypeOK
<1>5. ShownMutual'
  <2> SUFFICES ASSUME NEW q \in Profile, on'[q] = "on", NEW r \in shown'[q]
               PROVE  <<r, q>> \in late' \/ Mutual(r, q)'
    BY DEF ShownMutual
  <2>1. q # p /\ on[q] = "on" /\ r \in shown[q] /\ r \in Profile
    BY <1>1 DEF FriendsTypeOK
  <2>2. <<r, q>> \in late \/ Mutual(r, q)
    BY <2>1 DEF ShownMutual
  <2>3. CASE <<r, q>> \in late
    BY <1>1, <2>1, <2>3
  <2>4. CASE Mutual(r, q)
    <3>1. r # p
      BY <1>1, <2>4 DEF Mutual
    <3> QED BY <1>1, <2>1, <2>4, <3>1 DEF Mutual, FriendsTypeOK
  <2> QED BY <2>2, <2>3, <2>4
<1>6. RecvTrue'
  BY <1>1 DEF RecvTrue, Online, FriendsTypeOK
<1>7. OpenHostsKnown'
  <2> SUFFICES ASSUME NEW g \in Profile, NEW q \in Profile, on'[g] = "on",
                      open'[g] = "opening" \/ (open'[g] = "yes" /\ statusSet'[g]),
                      on'[q] = "on", g \in friends'[q]
               PROVE  g \in InSeq(auth'[q]) \/ <<q, g>> \in raced'
    BY DEF OpenHostsKnown
  <2>1. q # p /\ g \in friends[q] /\ on[q] = "on"
    BY <1>1 DEF FriendsTypeOK
  <2>2. g # p
    BY <1>1 DEF FriendsTypeOK, HandlersEnd
  <2>3. on[g] = "on" /\ (open[g] = "opening" \/ (open[g] = "yes" /\ statusSet[g]))
    BY <1>1, <2>2 DEF FriendsTypeOK
  <2>4. g \in InSeq(auth[q]) \/ <<q, g>> \in raced
    BY <2>1, <2>3 DEF OpenHostsKnown
  <2>5. auth'[q] = auth[q] /\ (<<q, g>> \in raced => <<q, g>> \in raced')
    BY <1>1, <2>1 DEF FriendsTypeOK
  <2> QED BY <2>4, <2>5
<1> QED BY <1>2, <1>3, <1>4, <1>5, <1>6, <1>7

LEMMA LogoutStep ==
    ASSUME FriendsIInv, NEW p \in Profile, Logout(p)
    PROVE  FriendsIInv'
<1> USE DEF FriendsIInv
<1> DEFINE told == {q \in InSeq(auth[p]) : Online(q) /\ isFriendAuthorized(q, p)}
           L == {<<p, q>> : q \in told}
<1>1. /\ Idle(p) /\ on' = [on EXCEPT ![p] = "leaving"] /\ auth' = Unlisted(p, auth[p], FALSE)
      /\ Deliver({}, L) /\ UNCHANGED <<friends, statusSet, buf, open, raced>>
  BY DEF Logout
<1>2. auth[p] \in Seq(Profile) /\ told \subseteq Profile
  BY DEF FriendsTypeOK, InSeq
<1>3. Kept(auth', p, auth[p], FALSE)
  BY <1>1, <1>2, UnlistedKeeps DEF FriendsTypeOK
<1>4. auth' \in [Profile -> Seq(Profile)]
      /\ \A r \in Profile : r # p => InSeq(auth[r]) \ {p} \subseteq InSeq(auth'[r])
  BY <1>3 DEF Kept
<1>5. /\ recv' \in [Profile -> SUBSET Profile] /\ got' \in [Profile -> SUBSET Profile]
      /\ shown' \in [Profile -> SUBSET Profile] /\ late' \subseteq Profile \X Profile
      /\ \A q \in Profile : recv[q] \subseteq got[q] \cup buf[q] => recv'[q] \subseteq got'[q] \cup buf[q]
      /\ \A q \in Profile : \A r \in shown'[q] :
           r \in shown[q] /\ (<<r, q>> \notin late' => <<r, q>> \notin late /\ <<r, q>> \notin L)
  <2>1. L \in SUBSET (Profile \X Profile)
    BY <1>2
  <2> HIDE DEF L
  <2> QED BY <1>1, <2>1, DeliverLogouts
<1>6. FriendsTypeOK'
  <2>1. on' \in [Profile -> {"off", "on", "leaving"}]
    BY <1>1 DEF FriendsTypeOK
  <2> QED BY <1>1, <1>4, <1>5, <2>1 DEF FriendsTypeOK
<1>7. HandlersEnd'
  BY <1>1 DEF HandlersEnd, Idle, FriendsTypeOK
<1>8. OnlyFriends'
  BY <1>1, <1>5 DEF OnlyFriends
<1>9. ShownMutual'
  <2> SUFFICES ASSUME NEW q \in Profile, on'[q] = "on", NEW r \in shown'[q], <<r, q>> \notin late'
               PROVE  Mutual(r, q)'
    BY DEF ShownMutual
  <2>1. q # p /\ on[q] = "on" /\ r \in Profile /\ r \in shown[q]
    BY <1>1, <1>5 DEF FriendsTypeOK
  <2>2. <<r, q>> \notin late /\ <<r, q>> \notin L
    BY <1>5
  <2>3. Mutual(r, q)
    BY <2>1, <2>2 DEF ShownMutual
  <2>4. r # p
    BY <2>1, <2>2, <2>3 DEF Mutual, Online, isFriendAuthorized
  <2>5. r \in InSeq(auth'[q]) /\ q \in InSeq(auth'[r])
    BY <1>4, <2>1, <2>3, <2>4 DEF Mutual
  <2> QED BY <1>1, <2>1, <2>3, <2>4, <2>5 DEF Mutual, FriendsTypeOK
<1>10. RecvTrue'
  <2>1. \A q \in Profile : Online(q)' => Online(q)
    BY <1>1 DEF Online, Idle, FriendsTypeOK
  <2> QED BY <1>1, <1>5, <2>1 DEF RecvTrue, Online
<1>11. OpenHostsKnown'
  <2> SUFFICES ASSUME NEW g \in Profile, NEW q \in Profile, on'[g] = "on",
                      open'[g] = "opening" \/ (open'[g] = "yes" /\ statusSet'[g]),
                      on'[q] = "on", g \in friends'[q]
               PROVE  g \in InSeq(auth'[q]) \/ <<q, g>> \in raced'
    BY DEF OpenHostsKnown
  <2>1. q # p /\ g # p /\ on[q] = "on" /\ on[g] = "on"
    BY <1>1 DEF FriendsTypeOK
  <2>2. g \in InSeq(auth[q]) \/ <<q, g>> \in raced
    BY <1>1, <2>1 DEF OpenHostsKnown
  <2> QED BY <1>1, <1>4, <2>1, <2>2
<1> QED BY <1>6, <1>7, <1>8, <1>9, <1>10, <1>11

\* The end of CloseConnection, the assignment to OpenHost, and a message.
LEMMA QuietStep ==
    ASSUME FriendsIInv, NEW p \in Profile, NEW t \in Profile, Gone(p) \/ SetOpenHost(p) \/ BestieMessage(p, t)
    PROVE  FriendsIInv'
<1> USE DEF FriendsIInv
<1>1. UNCHANGED <<friends, auth, statusSet, buf, shown, late, raced>>
  BY DEF Gone, SetOpenHost, BestieMessage, clientVars
<1>2. CASE Gone(p)
  <2>1. on[p] = "leaving" /\ on' = [on EXCEPT ![p] = "off"] /\ UNCHANGED <<recv, open, got>>
    BY <1>2 DEF Gone, clientVars
  <2>2. FriendsTypeOK' /\ HandlersEnd'
    BY <1>1, <2>1 DEF FriendsTypeOK, HandlersEnd
  <2>3. OnlyFriends'
    BY <1>1 DEF OnlyFriends
  <2>4. ShownMutual'
    BY <1>1, <2>1 DEF ShownMutual, Mutual, FriendsTypeOK
  <2>5. RecvTrue' /\ OpenHostsKnown'
    BY <1>1, <2>1 DEF RecvTrue, Online, OpenHostsKnown, FriendsTypeOK
  <2> QED BY <2>2, <2>3, <2>4, <2>5
<1>3. CASE SetOpenHost(p)
  <2>1. /\ open[p] \in {"opening", "closing"} /\ UNCHANGED <<on, recv, got>>
        /\ open' = [open EXCEPT ![p] = IF open[p] = "opening" THEN "yes" ELSE "no"]
    BY <1>3 DEF SetOpenHost, clientVars
  <2>2. FriendsTypeOK' /\ HandlersEnd'
    BY <1>1, <2>1 DEF FriendsTypeOK, HandlersEnd, OpenStates
  <2>3. OnlyFriends' /\ ShownMutual' /\ RecvTrue'
    BY <1>1, <2>1 DEF OnlyFriends, ShownMutual, Mutual, RecvTrue, Online
  <2>4. \A g \in Profile : open'[g] = "opening" \/ (open'[g] = "yes" /\ statusSet[g])
           => open[g] = "opening" \/ (open[g] = "yes" /\ statusSet[g])
    BY <2>1 DEF FriendsTypeOK
  <2>5. OpenHostsKnown'
    BY <1>1, <2>1, <2>4 DEF OpenHostsKnown
  <2> QED BY <2>2, <2>3, <2>5
<1>4. CASE BestieMessage(p, t)
  <2>1. /\ UNCHANGED <<on, open>> /\ recv' = [recv EXCEPT ![t] = recv[t] \cup {p}]
        /\ got' = [got EXCEPT ![t] = got[t] \cup {p}]
    BY <1>4 DEF BestieMessage
  <2>2. FriendsTypeOK'
    BY <1>1, <2>1 DEF FriendsTypeOK
  <2>3. HandlersEnd' /\ OnlyFriends' /\ ShownMutual'
    BY <1>1, <2>1 DEF HandlersEnd, OnlyFriends, ShownMutual, Mutual
  <2>4. RecvTrue'
    BY <1>1, <2>1 DEF RecvTrue, Online, FriendsTypeOK
  <2>5. OpenHostsKnown'
    BY <1>1, <2>1 DEF OpenHostsKnown
  <2> QED BY <2>2, <2>3, <2>4, <2>5
<1> QED BY <1>2, <1>3, <1>4

\* A step that sends statuses to friends and takes nobody off a list.
LEMMA GrownStep ==
    ASSUME FriendsIInv, NEW S \in SUBSET (Profile \X Profile), Deliver(S, {}), UNCHANGED <<on, buf>>,
           auth' \in [Profile -> Seq(Profile)],
           \A r \in Profile : InSeq(auth[r]) \subseteq InSeq(auth'[r]),
           \A r \in Profile : friends[r] \subseteq friends'[r] /\ friends'[r] \subseteq Knows[r],
           \A p, q \in Profile : <<p, q>> \in S => p \in friends'[q]
    PROVE  /\ recv' \in [Profile -> SUBSET Profile] /\ got' \in [Profile -> SUBSET Profile]
           /\ shown' \in [Profile -> SUBSET Profile] /\ late' \subseteq Profile \X Profile
           /\ OnlyFriends' /\ ShownMutual' /\ RecvTrue'
<1> USE DEF FriendsIInv
<1>1. /\ recv' \in [Profile -> SUBSET Profile] /\ got' \in [Profile -> SUBSET Profile]
      /\ shown' \in [Profile -> SUBSET Profile] /\ late' \subseteq Profile \X Profile
      /\ \A q \in Profile : recv[q] \subseteq got[q] \cup buf[q] => recv'[q] \subseteq got'[q] \cup buf[q]
      /\ \A q \in Profile : shown'[q] \subseteq shown[q] \cup {p \in Profile : <<p, q>> \in S}
      /\ \A q \in Profile : \A p \in shown'[q] : <<p, q>> \notin late' =>
           \/ on[p] = "on" /\ p \in InSeq(auth'[q]) /\ q \in InSeq(auth'[p])
           \/ p \in shown[q] /\ <<p, q>> \notin late
  <2>1. PICK L \in SUBSET (Profile \X Profile) : L = {}
    OBVIOUS
  <2>2. Deliver(S, L)
    BY <2>1
  <2> QED BY <2>2, DeliverStep
<1>2. OnlyFriends'
  BY <1>1 DEF OnlyFriends
<1>3. ShownMutual'
  <2> SUFFICES ASSUME NEW q \in Profile, on[q] = "on", NEW p \in shown'[q], <<p, q>> \notin late'
               PROVE  on[p] = "on" /\ p \in InSeq(auth'[q]) /\ q \in InSeq(auth'[p])
    BY DEF ShownMutual, Mutual
  <2>1. p \in Profile
    BY <1>1
  <2>2. CASE p \in shown[q] /\ <<p, q>> \notin late
    BY <2>1, <2>2 DEF ShownMutual, Mutual
  <2> QED BY <1>1, <2>2
<1>4. RecvTrue'
  BY <1>1 DEF RecvTrue, Online
<1> QED BY <1>1, <1>2, <1>3, <1>4

\* An append to an AuthFriendList.
LEMMA AppendKeeps ==
    ASSUME NEW s \in Seq(Profile), NEW x \in Profile
    PROVE  Append(s, x) \in Seq(Profile) /\ InSeq(s) \cup {x} \subseteq InSeq(Append(s, x))
<1>1. /\ Append(s, x) \in Seq(Profile) /\ Len(Append(s, x)) = Len(s) + 1
      /\ \A i \in 1..Len(s) : Append(s, x)[i] = s[i]
      /\ Append(s, x)[Len(s) + 1] = x
  OBVIOUS
<1>2. DOMAIN s = 1..Len(s) /\ DOMAIN Append(s, x) = 1..(Len(s) + 1) /\ Len(s) \in Nat
  BY <1>1
<1> QED BY <1>1, <1>2 DEF InSeq

LEMMA AddFriendStep ==
    ASSUME FriendsIInv, NEW g \in Profile, NEW n \in Profile, AddFriend(g, n)
    PROVE  FriendsIInv'
<1> USE FriendsAssumption DEF FriendsAssumption, FriendsIInv
<1>1. /\ n \in Knows[g] /\ friends' = [friends EXCEPT ![g] = friends[g] \cup {n}]
      /\ UNCHANGED <<on, statusSet, buf, open>>
  BY DEF AddFriend
<1>2. /\ friends' \in [Profile -> SUBSET Profile] /\ g # n
      /\ \A r \in Profile : friends[r] \subseteq friends'[r] /\ friends'[r] \subseteq Knows[r]
      /\ \A r \in Profile : r # g => friends'[r] = friends[r]
  BY <1>1 DEF FriendsTypeOK, OnlyFriends
<1>3. CASE ~Accepts(n, g)
  <2>1. /\ UNCHANGED <<auth, recv, shown, got, late>>
        /\ raced' = IF open[n] = "opening" THEN raced \cup {<<g, n>>} ELSE raced
    BY <1>3 DEF AddFriend, clientVars
  <2>2. FriendsTypeOK'
    BY <1>1, <1>2, <2>1 DEF FriendsTypeOK
  <2>3. HandlersEnd' /\ OnlyFriends' /\ ShownMutual' /\ RecvTrue'
    BY <1>1, <1>2, <2>1 DEF HandlersEnd, OnlyFriends, ShownMutual, Mutual, RecvTrue, Online
  <2>4. OpenHostsKnown'
    <3> SUFFICES ASSUME NEW h \in Profile, NEW q \in Profile, on[h] = "on",
                        open[h] = "opening" \/ (open[h] = "yes" /\ statusSet[h]),
                        on[q] = "on", h \in friends'[q]
                 PROVE  h \in InSeq(auth[q]) \/ <<q, h>> \in raced'
      BY <1>1, <2>1 DEF OpenHostsKnown
    <3>1. CASE h \in friends[q]
      BY <2>1, <3>1 DEF OpenHostsKnown
    <3>2. CASE h \notin friends[q]
      <4>1. q = g /\ h = n
        BY <1>1, <1>2, <3>2 DEF FriendsTypeOK
      <4>2. open[n] = "opening"
        BY <1>3, <4>1 DEF Accepts, Online, OpenHost
      <4> QED BY <2>1, <4>1, <4>2
    <3> QED BY <3>1, <3>2
  <2> QED BY <2>2, <2>3, <2>4
<1>4. CASE Accepts(n, g)
  <2>1. /\ UNCHANGED raced
        /\ \/ isFriendAuthorized(g, n) /\ auth' = auth
           \/ auth' = [auth EXCEPT ![g] = Append(auth[g], n), ![n] = Append(auth[n], g)]
    BY <1>2, <1>4 DEF AddFriend, FriendsTypeOK
  <2>2. \A r \in Profile : auth[r] \in Seq(Profile)
    BY DEF FriendsTypeOK
  <2>3. /\ auth' \in [Profile -> Seq(Profile)] /\ n \in InSeq(auth'[g])
        /\ \A r \in Profile : InSeq(auth[r]) \subseteq InSeq(auth'[r])
    <3>1. CASE isFriendAuthorized(g, n) /\ auth' = auth
      BY <2>2, <3>1 DEF isFriendAuthorized, FriendsTypeOK
    <3>2. CASE auth' = [auth EXCEPT ![g] = Append(auth[g], n), ![n] = Append(auth[n], g)]
      <4>1. PICK s \in Seq(Profile), t \in Seq(Profile) :
               /\ s = Append(auth[g], n) /\ InSeq(auth[g]) \cup {n} \subseteq InSeq(s)
               /\ t = Append(auth[n], g) /\ InSeq(auth[n]) \cup {g} \subseteq InSeq(t)
        BY <2>2, AppendKeeps
      <4>2. auth' = [auth EXCEPT ![g] = s, ![n] = t]
        BY <3>2, <4>1
      <4>3. auth' \in [Profile -> Seq(Profile)] /\ auth'[g] = s /\ auth'[n] = t
            /\ \A r \in Profile : r # g /\ r # n => auth'[r] = auth[r]
        BY <1>2, <4>2 DEF FriendsTypeOK
      <4> QED BY <4>1, <4>3
    <3> QED BY <2>1, <3>1, <3>2
  <2>4. PICK S \in SUBSET (Profile \X Profile) :
           Deliver(S, {}) /\ \A x, y \in Profile : <<x, y>> \in S => x \in friends'[y]
    <3> DEFINE A == StatusTo(auth', friends', g, {n})
               B == StatusTo(auth', friends', n, {g})
    <3>1. Deliver((IF g \in friends[n] /\ ~OpenHost(g) THEN A ELSE {}) \cup B, {})
      BY <1>4 DEF AddFriend
    <3>2. A \in SUBSET (Profile \X Profile) /\ B \in SUBSET (Profile \X Profile)
          /\ \A x, y \in Profile : <<x, y>> \in A \/ <<x, y>> \in B => x \in friends'[y]
      BY DEF StatusTo
    <3> HIDE DEF A, B
    <3>3. PICK S : S = (IF g \in friends[n] /\ ~OpenHost(g) THEN A ELSE {}) \cup B
      OBVIOUS
    <3>4. S \in SUBSET (Profile \X Profile) /\ \A x, y \in Profile : <<x, y>> \in S => x \in friends'[y]
      BY <3>2, <3>3
    <3> QED BY <3>1, <3>3, <3>4
  <2>5. /\ recv' \in [Profile -> SUBSET Profile] /\ got' \in [Profile -> SUBSET Profile]
        /\ shown' \in [Profile -> SUBSET Profile] /\ late' \subseteq Profile \X Profile
        /\ OnlyFriends' /\ ShownMutual' /\ RecvTrue'
    BY <1>1, <1>2, <2>3, <2>4, GrownStep
  <2>6. FriendsTypeOK'
    BY <1>1, <1>2, <2>1, <2>3, <2>5 DEF FriendsTypeOK
  <2>7. HandlersEnd'
    BY <1>1 DEF HandlersEnd
  <2>8. OpenHostsKnown'
    <3> SUFFICES ASSUME NEW h \in Profile, NEW q \in Profile, on[h] = "on",
                        open[h] = "opening" \/ (open[h] = "yes" /\ statusSet[h]),
                        on[q] = "on", h \in friends'[q]
                 PROVE  h \in InSeq(auth'[q]) \/ <<q, h>> \in raced
      BY <1>1, <2>1 DEF OpenHostsKnown
    <3>1. CASE h \in friends[q]
      BY <2>3, <3>1 DEF OpenHostsKnown
    <3>2. CASE h \notin friends[q]
      <4>1. q = g /\ h = n
        BY <1>1, <1>2, <3>2 DEF FriendsTypeOK
      <4> QED BY <2>3, <4>1
    <3> QED BY <3>1, <3>2
  <2> QED BY <2>5, <2>6, <2>7, <2>8
<1> QED BY <1>3, <1>4

LEMMA RemoveFriendStep ==
    ASSUME FriendsIInv, NEW g \in Profile, NEW d \in Profile, RemoveFriend(g, d)
    PROVE  FriendsIInv'
<1> USE FriendsAssumption DEF FriendsAssumption, FriendsIInv
<1> DEFINE told == ~OpenHost(g) /\ Online(d) /\ isFriendAuthorized(d, g)
<1>1. /\ Idle(g) /\ d \in Knows[g] /\ friends' = [friends EXCEPT ![g] = friends[g] \ {d}]
      /\ auth' = IF OpenHost(g) THEN auth ELSE Unauthorize(auth, g, d)
      /\ UNCHANGED <<on, statusSet, recv, buf, open, raced>>
  BY DEF RemoveFriend
<1>2. /\ got' = [got EXCEPT ![d] = IF told THEN got[d] \cup {g} ELSE got[d]]
      /\ late' = (late \ {<<d, g>>}) \ (IF told THEN {<<g, d>>} ELSE {})
  BY DEF RemoveFriend
<1>3. g # d
  BY <1>1
<1>4. shown' = [shown EXCEPT ![g] = shown[g] \ {d}, ![d] = IF told THEN shown[d] \ {g} ELSE shown[d]]
  BY <1>3 DEF RemoveFriend, FriendsTypeOK
<1>5. /\ auth' \in [Profile -> Seq(Profile)]
      /\ \A r \in Profile : r # g => auth'[r] = auth[r]
      /\ InSeq(auth[g]) \ {d} \subseteq InSeq(auth'[g])
      /\ OpenHost(g) => auth' = auth
  <2>1. CASE OpenHost(g)
    BY <1>1, <2>1 DEF FriendsTypeOK
  <2>2. CASE ~OpenHost(g)
    <3>1. PICK a \in [Profile -> Seq(Profile)] : a = auth
      BY DEF FriendsTypeOK
    <3>2. auth' = Unauthorize(a, g, d)
      BY <1>1, <2>2, <3>1
    <3> HIDE DEF FriendsIInv
    <3>3. /\ Unauthorize(a, g, d) \in [Profile -> Seq(Profile)]
          /\ \A r \in Profile : r # g => Unauthorize(a, g, d)[r] = a[r]
          /\ InSeq(a[g]) \ {d} \subseteq InSeq(Unauthorize(a, g, d)[g])
      BY UnauthorizeKeeps, Zenon
    <3> QED BY <2>2, <3>1, <3>2, <3>3
  <2> QED BY <2>1, <2>2
<1> HIDE DEF told
<1>6. FriendsTypeOK'
  <2>1. /\ friends' \in [Profile -> SUBSET Profile] /\ got' \in [Profile -> SUBSET Profile]
        /\ shown' \in [Profile -> SUBSET Profile] /\ late' \subseteq Profile \X Profile
    BY <1>1, <1>2, <1>4 DEF FriendsTypeOK
  <2> QED BY <1>1, <1>5, <2>1 DEF FriendsTypeOK
<1>7. HandlersEnd'
  BY <1>1 DEF HandlersEnd
<1>8. /\ \A r \in Profile : r # g => friends'[r] = friends[r]
      /\ friends'[g] = friends[g] \ {d} /\ shown'[g] = shown[g] \ {d} /\ buf[g] = {}
      /\ \A r \in Profile : shown'[r] \subseteq shown[r]
  BY <1>1, <1>3, <1>4 DEF FriendsTypeOK, Idle
<1>9. OnlyFriends'
  <2>1. \A r \in Profile : friends'[r] \subseteq Knows[r] /\ shown'[r] \subseteq friends'[r] /\ buf[r] \subseteq friends'[r]
    BY <1>8 DEF OnlyFriends
  <2> QED BY <1>1, <2>1 DEF OnlyFriends
<1>10. ShownMutual'
  <2> SUFFICES ASSUME NEW q \in Profile, on[q] = "on", NEW p \in shown'[q], <<p, q>> \notin late'
               PROVE  on[p] = "on" /\ p \in InSeq(auth'[q]) /\ q \in InSeq(auth'[p])
    BY <1>1 DEF ShownMutual, Mutual
  <2>1. p \in shown[q] /\ p \in Profile
    BY <1>8 DEF FriendsTypeOK
  <2>2. ~(q = g /\ p = d)
    BY <1>8
  <2>3. ~(q = d /\ p = g /\ told)
    BY <1>3, <1>4 DEF FriendsTypeOK
  <2>4. <<p, q>> \notin late
    BY <1>2, <2>2, <2>3
  <2>5. Mutual(p, q)
    BY <2>1, <2>4 DEF ShownMutual
  <2>6. CASE q = d /\ p = g
    <3>1. OpenHost(g)
      BY <2>3, <2>5, <2>6 DEF told, Mutual, Online, isFriendAuthorized
    <3> QED BY <1>5, <2>5, <3>1 DEF Mutual
  <2>7. CASE ~(q = d /\ p = g)
    BY <1>5, <2>1, <2>2, <2>5, <2>7 DEF Mutual
  <2> QED BY <2>6, <2>7
<1>11. RecvTrue'
  <2>1. \A q \in Profile : got[q] \subseteq got'[q]
    BY <1>2 DEF FriendsTypeOK
  <2> QED BY <1>1, <2>1 DEF RecvTrue, Online
<1>12. OpenHostsKnown'
  <2> SUFFICES ASSUME NEW h \in Profile, NEW q \in Profile, on[h] = "on",
                      open[h] = "opening" \/ (open[h] = "yes" /\ statusSet[h]),
                      on[q] = "on", h \in friends'[q]
               PROVE  h \in InSeq(auth'[q]) \/ <<q, h>> \in raced
    BY <1>1 DEF OpenHostsKnown
  <2>1. h \in friends[q] /\ ~(q = g /\ h = d)
    BY <1>8
  <2>2. h \in InSeq(auth[q]) \/ <<q, h>> \in raced
    BY <2>1 DEF OpenHostsKnown
  <2> QED BY <1>5, <2>1, <2>2
<1> QED BY <1>6, <1>7, <1>9, <1>10, <1>11, <1>12

LEMMA AuthAddFriendStep ==
    ASSUME FriendsIInv, NEW g \in Profile, NEW f \in Profile, AuthAddFriend(g, f)
    PROVE  FriendsIInv'
<1> USE FriendsAssumption DEF FriendsAssumption, FriendsIInv
<1> DEFINE out  == g \in friends[f] /\ isFriendAuthorized(f, g)
           back == f \in friends[g]
<1>1. /\ on[g] = "on" /\ f \in InSeq(auth[g])
      /\ UNCHANGED <<on, friends, auth, statusSet, open, raced>>
  BY DEF AuthAddFriend
<1>2. /\ recv' = [q \in Profile |-> IF out /\ q = f THEN recv[q] \cup {g}
                                   ELSE IF back /\ q = g THEN recv[q] \cup {f} ELSE recv[q]]
      /\ buf'   = [buf EXCEPT ![g] = IF back THEN buf[g] \cup {f} ELSE buf[g]]
      /\ got'   = [got EXCEPT ![f] = IF out THEN got[f] \cup {g} ELSE got[f]]
      /\ shown' = [shown EXCEPT ![f] = IF out THEN shown[f] \cup {g} ELSE shown[f]]
      /\ late'  = late \ (IF out THEN {<<g, f>>} ELSE {})
  BY DEF AuthAddFriend, exchangeFriendStatus
<1>3. /\ out => g \in friends[f] /\ g \in InSeq(auth[f]) /\ f # g
      /\ back => f \in friends[g] /\ f # g
  BY DEF isFriendAuthorized, OnlyFriends
<1> HIDE DEF out, back
<1>4. /\ recv' \in [Profile -> SUBSET Profile] /\ buf' \in [Profile -> SUBSET Profile]
      /\ got' \in [Profile -> SUBSET Profile] /\ shown' \in [Profile -> SUBSET Profile]
      /\ late' \subseteq Profile \X Profile
  BY <1>2 DEF FriendsTypeOK
<1>5. FriendsTypeOK'
  BY <1>1, <1>4 DEF FriendsTypeOK
<1>6. HandlersEnd'
  BY <1>1, <1>2 DEF HandlersEnd, FriendsTypeOK
<1>7. /\ \A q \in Profile : q # f => shown'[q] = shown[q]
      /\ shown'[f] = IF out THEN shown[f] \cup {g} ELSE shown[f]
      /\ \A q \in Profile : q # g => buf'[q] = buf[q]
      /\ buf'[g] = IF back THEN buf[g] \cup {f} ELSE buf[g]
      /\ \A q \in Profile : q # f => got'[q] = got[q]
      /\ got'[f] = IF out THEN got[f] \cup {g} ELSE got[f]
      /\ \A q \in Profile : recv'[q] \subseteq recv[q] \cup (IF out /\ q = f THEN {g} ELSE {})
                                               \cup (IF back /\ q = g THEN {f} ELSE {})
  BY <1>2 DEF FriendsTypeOK
<1>8. OnlyFriends'
  BY <1>1, <1>3, <1>7 DEF OnlyFriends
<1>9. ShownMutual'
  <2> SUFFICES ASSUME NEW q \in Profile, on[q] = "on", NEW p \in shown'[q], <<p, q>> \notin late'
               PROVE  Mutual(p, q)
    BY <1>1 DEF ShownMutual, Mutual
  <2>1. CASE out /\ p = g /\ q = f
    BY <1>1, <1>3, <2>1 DEF Mutual
  <2>2. CASE ~(out /\ p = g /\ q = f)
    <3>1. p \in shown[q]
      BY <1>7, <2>2
    <3>2. <<p, q>> \notin late
      BY <1>2, <2>2
    <3> QED BY <3>1, <3>2 DEF ShownMutual
  <2> QED BY <2>1, <2>2
<1>10. RecvTrue'
  BY <1>1, <1>7 DEF RecvTrue, Online
<1>11. OpenHostsKnown'
  BY <1>1 DEF OpenHostsKnown
<1> QED BY <1>5, <1>6, <1>8, <1>9, <1>10, <1>11

LEMMA FlushStep ==
    ASSUME FriendsIInv, NEW g \in Profile, Flush(g)
    PROVE  FriendsIInv'
<1> USE DEF FriendsIInv
<1>1. /\ buf' = [buf EXCEPT ![g] = {}] /\ got' = [got EXCEPT ![g] = got[g] \cup buf[g]]
      /\ shown' = [shown EXCEPT ![g] = shown[g] \cup buf[g]]
      /\ UNCHANGED <<on, friends, auth, statusSet, recv, open, raced>>
      /\ late' = late \cup {<<p, g>> : p \in {q \in buf[g] : Unannounced(q, g)}}
  BY DEF Flush
<1>2. FriendsTypeOK'
  <2>1. late' \subseteq Profile \X Profile
    BY <1>1 DEF FriendsTypeOK
  <2> QED BY <1>1, <2>1 DEF FriendsTypeOK
<1>3. HandlersEnd' /\ OnlyFriends'
  BY <1>1 DEF HandlersEnd, OnlyFriends, FriendsTypeOK
<1>4. ShownMutual'
  <2> SUFFICES ASSUME NEW q \in Profile, on[q] = "on", NEW p \in shown'[q], <<p, q>> \notin late'
               PROVE  Mutual(p, q)
    BY <1>1 DEF ShownMutual, Mutual
  <2>1. CASE p \in shown[q]
    BY <1>1, <2>1 DEF ShownMutual
  <2>2. CASE p \notin shown[q]
    <3>1. q = g /\ p \in buf[g]
      BY <1>1, <2>2 DEF FriendsTypeOK
    <3>2. ~Unannounced(p, g)
      BY <1>1, <3>1
    <3> QED BY <1>1, <3>1, <3>2 DEF Unannounced, Mutual
  <2> QED BY <2>1, <2>2
<1>5. RecvTrue'
  BY <1>1 DEF RecvTrue, Online, FriendsTypeOK
<1>6. OpenHostsKnown'
  BY <1>1 DEF OpenHostsKnown
<1> QED BY <1>2, <1>3, <1>4, <1>5, <1>6

\* openHostEnabled takes nobody off a list, and puts the host on the list of
\* everybody who has added it.
LEMMA OpenedKnown ==
    ASSUME FriendsTypeOK, NEW g \in Profile, NEW order \in SetToSeqs(Newly(g))
    PROVE  /\ Opened(g, order) \in [Profile -> Seq(Profile)]
           /\ \A r \in Profile : InSeq(auth[r]) \subseteq InSeq(Opened(g, order)[r])
           /\ \A q \in Profile : Online(q) /\ g \in friends[q] /\ q # g => g \in InSeq(Opened(g, order)[q])
<1>1. order \in Seq(Profile)
  <2>1. PICK S : S = Newly(g)
    OBVIOUS
  <2>2. S \in SUBSET Profile
    BY <2>1 DEF Newly
  <2>3. IsFiniteSet(S)
    BY <2>2, FriendsAssumption, FS_Subset DEF FriendsAssumption
  <2>4. Cardinality(S) \in Nat
    BY <2>3, FS_CardinalityType
  <2>5. order \in [1..Cardinality(S) -> S]
    BY <2>1 DEF SetToSeqs
  <2> QED BY <2>2, <2>4, <2>5
<1>2. \A r \in Profile : auth[r] \in Seq(Profile)
  BY DEF FriendsTypeOK
<1>3. PICK s \in Seq(Profile) : s = auth[g] \o order /\ InSeq(auth[g]) \subseteq InSeq(s)
  <2>1. PICK a \in Seq(Profile) : a = auth[g]
    BY <1>2
  <2>2. /\ a \o order \in Seq(Profile) /\ Len(a \o order) = Len(a) + Len(order)
        /\ \A i \in 1..Len(a) : (a \o order)[i] = a[i]
    BY <1>1
  <2>3. /\ Len(a) \in Nat /\ Len(order) \in Nat /\ DOMAIN a = 1..Len(a)
        /\ DOMAIN (a \o order) = 1..(Len(a) + Len(order))
    BY <1>1, <2>2
  <2>4. InSeq(a) \subseteq InSeq(a \o order)
    BY <2>2, <2>3 DEF InSeq
  <2> QED BY <2>1, <2>2, <2>4
<1>4. PICK o : o = Opened(g, order)
  OBVIOUS
<1>5. o = [q \in Profile |-> IF q = g THEN s ELSE IF q \in Newly(g) THEN Append(auth[q], g) ELSE auth[q]]
  BY <1>3, <1>4 DEF Opened
<1>6. \A r \in Profile : /\ Append(auth[r], g) \in Seq(Profile)
                         /\ InSeq(auth[r]) \cup {g} \subseteq InSeq(Append(auth[r], g))
  BY <1>2, AppendKeeps
<1>7. \A r \in Profile : o[r] \in Seq(Profile) /\ InSeq(auth[r]) \subseteq InSeq(o[r])
  BY <1>2, <1>3, <1>5, <1>6
<1>8. o \in [Profile -> Seq(Profile)]
  BY <1>5, <1>7
<1>9. ASSUME NEW q \in Profile, Online(q), g \in friends[q], q # g
      PROVE  g \in InSeq(o[q])
  <2>1. CASE q \in Newly(g)
    BY <1>5, <1>6, <1>9, <2>1
  <2>2. CASE q \notin Newly(g)
    <3>1. g \in InSeq(auth[q])
      BY <1>9, <2>2 DEF Newly, isFriendAuthorized
    <3> QED BY <1>7, <3>1
  <2> QED BY <2>1, <2>2
<1> QED BY <1>4, <1>7, <1>8, <1>9

LEMMA SetStatusStep ==
    ASSUME FriendsIInv, NEW g \in Profile, SetStatus(g)
    PROVE  FriendsIInv'
<1> USE FriendsAssumption DEF FriendsAssumption, FriendsIInv
<1>1. /\ Idle(g) /\ statusSet' = [statusSet EXCEPT ![g] = TRUE] /\ UNCHANGED <<on, friends, buf, open, raced>>
      /\ Deliver(StatusTo(auth', friends, g, InSeq(auth'[g])), {})
  BY DEF SetStatus
<1>2. \/ ~statusSet[g] /\ OpenHost(g) /\ \E order \in SetToSeqs(Newly(g)) : auth' = Opened(g, order)
      \/ ~(~statusSet[g] /\ OpenHost(g)) /\ auth' = auth
  BY DEF SetStatus
<1>3. /\ auth' \in [Profile -> Seq(Profile)]
      /\ \A r \in Profile : InSeq(auth[r]) \subseteq InSeq(auth'[r])
      /\ ~statusSet[g] /\ OpenHost(g) =>
           \A q \in Profile : Online(q) /\ g \in friends[q] /\ q # g => g \in InSeq(auth'[q])
  <2>1. CASE ~(~statusSet[g] /\ OpenHost(g)) /\ auth' = auth
    BY <2>1 DEF FriendsTypeOK
  <2>2. CASE \E order \in SetToSeqs(Newly(g)) : auth' = Opened(g, order)
    BY <2>2, OpenedKnown
  <2> QED BY <1>2, <2>1, <2>2
<1>4. PICK S \in SUBSET (Profile \X Profile) :
         Deliver(S, {}) /\ \A x, y \in Profile : <<x, y>> \in S => x \in friends'[y]
  <2>1. PICK S : S = StatusTo(auth', friends, g, InSeq(auth'[g]))
    OBVIOUS
  <2>2. InSeq(auth'[g]) \subseteq Profile
    BY <1>3 DEF InSeq
  <2>3. S \in SUBSET (Profile \X Profile) /\ \A x, y \in Profile : <<x, y>> \in S => x \in friends'[y]
    BY <1>1, <2>1, <2>2 DEF StatusTo
  <2> QED BY <1>1, <2>1, <2>3
<1>5. \A r \in Profile : friends[r] \subseteq friends'[r] /\ friends'[r] \subseteq Knows[r]
  BY <1>1 DEF OnlyFriends
<1>6. /\ recv' \in [Profile -> SUBSET Profile] /\ got' \in [Profile -> SUBSET Profile]
      /\ shown' \in [Profile -> SUBSET Profile] /\ late' \subseteq Profile \X Profile
      /\ OnlyFriends' /\ ShownMutual' /\ RecvTrue'
  BY <1>1, <1>3, <1>4, <1>5, GrownStep
<1>7. statusSet' \in [Profile -> BOOLEAN] /\ \A r \in Profile : r # g => statusSet'[r] = statusSet[r]
  BY <1>1 DEF FriendsTypeOK
<1>8. FriendsTypeOK' /\ HandlersEnd'
  BY <1>1, <1>3, <1>6, <1>7 DEF FriendsTypeOK, HandlersEnd
<1>9. OpenHostsKnown'
  <2> SUFFICES ASSUME NEW h \in Profile, NEW q \in Profile, on[h] = "on",
                      open[h] = "opening" \/ (open[h] = "yes" /\ statusSet'[h]),
                      on[q] = "on", h \in friends[q]
               PROVE  h \in InSeq(auth'[q]) \/ <<q, h>> \in raced
    BY <1>1 DEF OpenHostsKnown
  <2>1. CASE h = g /\ ~statusSet[g] /\ OpenHost(g)
    <3>1. q # g
      BY <2>1 DEF OnlyFriends
    <3> QED BY <1>3, <2>1, <3>1 DEF Online
  <2>2. CASE ~(h = g /\ ~statusSet[g] /\ OpenHost(g))
    <3>1. open[h] = "opening" \/ (open[h] = "yes" /\ statusSet[h])
      BY <1>7, <2>2 DEF OpenHost
    <3> QED BY <1>3, <3>1 DEF OpenHostsKnown
  <2> QED BY <2>1, <2>2
<1> QED BY <1>6, <1>8, <1>9

LEMMA OpenHostEnabledStep ==
    ASSUME FriendsIInv, NEW g \in Profile, OpenHostEnabled(g)
    PROVE  FriendsIInv'
<1> USE FriendsAssumption DEF FriendsAssumption, FriendsIInv
<1>1. /\ Idle(g) /\ open' = [open EXCEPT ![g] = "opening"] /\ UNCHANGED <<on, friends, statusSet, buf, raced>>
      /\ Deliver(UNION {StatusTo(auth', friends, q, {g}) : q \in Newly(g)}, {})
      /\ \E order \in SetToSeqs(Newly(g)) : auth' = Opened(g, order)
  BY DEF OpenHostEnabled
<1>2. /\ auth' \in [Profile -> Seq(Profile)]
      /\ \A r \in Profile : InSeq(auth[r]) \subseteq InSeq(auth'[r])
      /\ \A q \in Profile : Online(q) /\ g \in friends[q] /\ q # g => g \in InSeq(auth'[q])
  BY <1>1, OpenedKnown
<1>3. PICK S \in SUBSET (Profile \X Profile) :
         Deliver(S, {}) /\ \A x, y \in Profile : <<x, y>> \in S => x \in friends'[y]
  <2>1. PICK S : S = UNION {StatusTo(auth', friends, q, {g}) : q \in Newly(g)}
    OBVIOUS
  <2>2. \A s \in S : s \in Profile \X Profile /\ \A x, y \in Profile : s = <<x, y>> => x \in friends'[y]
    BY <1>1, <2>1 DEF StatusTo, Newly
  <2>3. S \in SUBSET (Profile \X Profile)
    BY <2>2
  <2>4. \A x, y \in Profile : <<x, y>> \in S => x \in friends'[y]
    BY <2>2
  <2>5. Deliver(S, {})
    BY <1>1, <2>1
  <2> QED BY <2>3, <2>4, <2>5
<1>4. \A r \in Profile : friends[r] \subseteq friends'[r] /\ friends'[r] \subseteq Knows[r]
  BY <1>1 DEF OnlyFriends
<1>5. /\ recv' \in [Profile -> SUBSET Profile] /\ got' \in [Profile -> SUBSET Profile]
      /\ shown' \in [Profile -> SUBSET Profile] /\ late' \subseteq Profile \X Profile
      /\ OnlyFriends' /\ ShownMutual' /\ RecvTrue'
  BY <1>1, <1>2, <1>3, <1>4, GrownStep
<1>6. open' \in [Profile -> OpenStates] /\ \A r \in Profile : r # g => open'[r] = open[r]
  BY <1>1 DEF FriendsTypeOK, OpenStates
<1>7. FriendsTypeOK'
  BY <1>1, <1>2, <1>5, <1>6 DEF FriendsTypeOK
<1>8. HandlersEnd'
  BY <1>1, <1>6 DEF HandlersEnd, Idle
<1>9. OpenHostsKnown'
  <2> SUFFICES ASSUME NEW h \in Profile, NEW q \in Profile, on[h] = "on",
                      open'[h] = "opening" \/ (open'[h] = "yes" /\ statusSet[h]),
                      on[q] = "on", h \in friends[q]
               PROVE  h \in InSeq(auth'[q]) \/ <<q, h>> \in raced
    BY <1>1 DEF OpenHostsKnown
  <2>1. CASE h = g
    <3>1. q # g
      BY <2>1 DEF OnlyFriends
    <3> QED BY <1>2, <2>1, <3>1 DEF Online
  <2>2. CASE h # g
    BY <1>2, <1>6, <2>2 DEF OpenHostsKnown
  <2> QED BY <2>1, <2>2
<1> QED BY <1>5, <1>7, <1>8, <1>9

LEMMA OpenHostDisabledStep ==
    ASSUME FriendsIInv, NEW g \in Profile, OpenHostDisabled(g)
    PROVE  FriendsIInv'
<1> USE DEF FriendsIInv
<1> DEFINE told == {q \in InSeq(Strangers(g)) : Online(q) /\ isFriendAuthorized(q, g)}
           L == {<<g, q>> : q \in told}
<1>1. /\ Idle(g) /\ open' = [open EXCEPT ![g] = "closing"] /\ auth' = Unlisted(g, Strangers(g), TRUE)
      /\ Deliver({}, L) /\ UNCHANGED <<on, friends, statusSet, buf, raced>>
  BY DEF OpenHostDisabled
<1>2. PICK s \in Seq(Profile) : s = Strangers(g) /\ InSeq(s) \cap friends[g] = {}
  BY StrangersStrange DEF FriendsTypeOK
<1>3. Kept(auth', g, s, TRUE)
  BY <1>1, <1>2, UnlistedKeeps DEF FriendsTypeOK
<1>4. /\ auth' \in [Profile -> Seq(Profile)]
      /\ \A r \in Profile : r # g => InSeq(auth[r]) \ {g} \subseteq InSeq(auth'[r])
      /\ \A r \in Profile : r # g /\ r \notin InSeq(s) => auth'[r] = auth[r]
      /\ \A r \in InSeq(auth[g]) : r # g /\ r \notin InSeq(s) => r \in InSeq(auth'[g])
  BY <1>3 DEF Kept
<1>5. told \subseteq Profile /\ InSeq(s) \subseteq Profile
  BY <1>2 DEF InSeq
<1>6. /\ recv' \in [Profile -> SUBSET Profile] /\ got' \in [Profile -> SUBSET Profile]
      /\ shown' \in [Profile -> SUBSET Profile] /\ late' \subseteq Profile \X Profile
      /\ \A q \in Profile : recv[q] \subseteq got[q] \cup buf[q] => recv'[q] \subseteq got'[q] \cup buf[q]
      /\ \A q \in Profile : \A r \in shown'[q] :
           r \in shown[q] /\ (<<r, q>> \notin late' => <<r, q>> \notin late /\ <<r, q>> \notin L)
  <2>1. L \in SUBSET (Profile \X Profile)
    BY <1>5
  <2> HIDE DEF L
  <2> QED BY <1>1, <2>1, DeliverLogouts
<1>7. open' \in [Profile -> OpenStates] /\ \A r \in Profile : r # g => open'[r] = open[r]
  BY <1>1 DEF FriendsTypeOK, OpenStates
<1>8. FriendsTypeOK'
  BY <1>1, <1>4, <1>6, <1>7 DEF FriendsTypeOK
<1>9. HandlersEnd'
  BY <1>1, <1>7 DEF HandlersEnd, Idle
<1>10. OnlyFriends'
  BY <1>1, <1>6 DEF OnlyFriends
<1>11. ShownMutual'
  <2> SUFFICES ASSUME NEW q \in Profile, on[q] = "on", NEW p \in shown'[q], <<p, q>> \notin late'
               PROVE  p \in Profile /\ on[p] = "on" /\ p \in InSeq(auth'[q]) /\ q \in InSeq(auth'[p])
    BY <1>1 DEF ShownMutual, Mutual
  <2>1. p \in Profile /\ p \in shown[q] /\ <<p, q>> \notin late /\ <<p, q>> \notin L /\ p \in friends[q]
    BY <1>6 DEF FriendsTypeOK, OnlyFriends
  <2>2. Mutual(p, q)
    BY <2>1 DEF ShownMutual
  <2>3. p # q
    BY <2>1, FriendsAssumption DEF OnlyFriends, FriendsAssumption
  \* The host shows a friend, and goes over none.
  <2>4. CASE q = g
    <3>1. p \notin InSeq(s)
      BY <1>2, <2>1, <2>4
    <3> QED BY <1>4, <2>1, <2>2, <2>3, <2>4, <3>1 DEF Mutual
  \* Who shows the host has been told, if the host went over it.
  <2>5. CASE p = g
    <3>1. q \notin InSeq(s)
      <4> SUFFICES ASSUME q \in InSeq(s) PROVE FALSE
        OBVIOUS
      <4>1. q \in told
        BY <1>2, <2>2, <2>5 DEF Mutual, Online, isFriendAuthorized
      <4> QED BY <2>1, <2>5, <4>1
    <3> QED BY <1>4, <2>2, <2>3, <2>5, <3>1 DEF Mutual
  <2>6. CASE q # g /\ p # g
    BY <1>4, <2>1, <2>2, <2>6 DEF Mutual
  <2> QED BY <2>4, <2>5, <2>6
<1>12. RecvTrue'
  BY <1>1, <1>6 DEF RecvTrue, Online
<1>13. OpenHostsKnown'
  <2> SUFFICES ASSUME NEW h \in Profile, NEW q \in Profile, on[h] = "on",
                      open'[h] = "opening" \/ (open'[h] = "yes" /\ statusSet[h]),
                      on[q] = "on", h \in friends[q]
               PROVE  h \in InSeq(auth'[q]) \/ <<q, h>> \in raced
    BY <1>1 DEF OpenHostsKnown
  <2>1. h # g
    BY <1>1 DEF FriendsTypeOK
  <2>2. h \in InSeq(auth[q]) \/ <<q, h>> \in raced
    BY <1>7, <2>1 DEF OpenHostsKnown
  <2>3. CASE q = g
    <3>1. h \notin InSeq(s)
      BY <1>2, <2>3
    <3> QED BY <1>4, <2>1, <2>2, <2>3, <3>1
  <2>4. CASE q # g
    BY <1>4, <2>1, <2>2, <2>4
  <2> QED BY <2>3, <2>4
<1> QED BY <1>8, <1>9, <1>10, <1>11, <1>12, <1>13

\* What the clients were told of their friends agrees with what the sessions
\* hold, for any number of profiles and any lists: sendFriendStatus, the logout
\* statuses, addFriend, removeFriend and the open-host switch (friend.go:89-411).
THEOREM FriendsAgree == Spec => []FriendsInv
<1>1. Init => FriendsIInv
  <2> SUFFICES ASSUME Init PROVE FriendsIInv
    OBVIOUS
  <2> USE DEF Init, Nobody
  <2>1. FriendsTypeOK
    <3>1. <<>> \in Seq(Profile)
      OBVIOUS
    <3>2. statusSet \in [Profile -> BOOLEAN]
      OBVIOUS
    <3>3. late \subseteq Profile \X Profile /\ raced \subseteq Profile \X Profile
      OBVIOUS
    <3> QED BY <3>1, <3>2, <3>3 DEF FriendsTypeOK, OpenStates
  <2>2. HandlersEnd /\ OnlyFriends /\ ShownMutual /\ RecvTrue /\ OpenHostsKnown
    BY DEF HandlersEnd, OnlyFriends, ShownMutual, RecvTrue, Online, OpenHostsKnown
  <2> QED BY <2>1, <2>2 DEF FriendsIInv
<1>2. FriendsIInv /\ [Next]_vars => FriendsIInv'
  <2> SUFFICES ASSUME FriendsIInv, [Next]_vars PROVE FriendsIInv'
    OBVIOUS
  <2>1. CASE UNCHANGED vars
    BY <2>1 DEF vars, clientVars, FriendsIInv, FriendsTypeOK, HandlersEnd, OnlyFriends, ShownMutual, Mutual,
                RecvTrue, Online, OpenHostsKnown
  <2>2. ASSUME NEW p \in Profile,
               \/ Login(p) \/ Logout(p) \/ Gone(p) \/ SetStatus(p) \/ Flush(p)
               \/ OpenHostEnabled(p) \/ OpenHostDisabled(p) \/ SetOpenHost(p)
        PROVE  FriendsIInv'
    BY <2>2, LoginStep, LogoutStep, QuietStep, SetStatusStep, FlushStep, OpenHostEnabledStep, OpenHostDisabledStep
  <2>3. ASSUME NEW p \in Profile, NEW q \in Profile,
               AddFriend(p, q) \/ RemoveFriend(p, q) \/ AuthAddFriend(p, q) \/ BestieMessage(p, q)
        PROVE  FriendsIInv'
    BY <2>3, AddFriendStep, RemoveFriendStep, AuthAddFriendStep, QuietStep
  <2> QED BY <2>1, <2>2, <2>3 DEF Next
<1>3. FriendsIInv => FriendsInv
  <2> SUFFICES ASSUME FriendsIInv PROVE FriendsInv
    OBVIOUS
  <2>1. ShownOnline
    BY DEF FriendsIInv, ShownMutual, Mutual, ShownOnline
  <2>2. OpenHostComplete
    BY DEF FriendsIInv, OpenHostsKnown, OpenHostComplete, isFriendAuthorized
  <2> QED BY <2>1, <2>2 DEF FriendsIInv, FriendsInv
<1> QED BY <1>1, <1>2, <1>3, PTL DEF Spec

-----------------------------------------------------------------------------
(* The filter's parser.  A tree is a sequence of nodes whose parents and    *)
(* items agree, in which no path upwards comes back to where it began.      *)

NodeOver(T) == [tok : T, parent : Nat \cup {NoNode}, items : Seq(Nat)]

\* A sequence of nodes; what their tokens are does not matter.
NodeSeq(t) == \E T : t \in Seq(NodeOver(T))

ParentsInside(t) ==
    \A m \in 1..Len(t) :
        /\ t[m].parent \in (1..Len(t)) \cup {NoNode}
        /\ t[m].items \in Seq(Nat)

ChildrenKnow(t) ==
    \A m \in 1..Len(t) : \A i \in 1..Len(t[m].items) :
        t[m].items[i] \in 1..Len(t) /\ t[t[m].items[i]].parent = m

ChildrenOnce(t) ==
    \A m \in 1..Len(t) : \A i, j \in 1..Len(t[m].items) :
        t[m].items[i] = t[m].items[j] => i = j

ParentsKnow(t) ==
    \A m \in 1..Len(t) : t[m].parent # NoNode =>
        \E i \in 1..Len(t[t[m].parent].items) : t[t[m].parent].items[i] = m

\* From every node one comes to a node without a parent: in a set of nodes there
\* is one whose parent is outside.
NoCycle(t) ==
    \A S \in SUBSET (1..Len(t)) : S # {} => \E m \in S : t[m].parent \notin S

Tree(t) ==
    /\ NodeSeq(t) /\ Len(t) \in Nat \ {0}
    /\ ParentsInside(t) /\ ChildrenKnow(t) /\ ChildrenOnce(t) /\ ParentsKnow(t)
    /\ NoCycle(t)

\* Add appends a node and lists it with its parent.
LEMMA AddNodes ==
    ASSUME NEW t, NodeSeq(t), NEW n \in 1..Len(t), NEW tok
    PROVE  /\ NodeSeq(Add(t, n, tok))
           /\ Len(Add(t, n, tok)) = Len(t) + 1
           /\ \A m \in 1..Len(t) :
                /\ Add(t, n, tok)[m].tok = t[m].tok
                /\ Add(t, n, tok)[m].parent = t[m].parent
                /\ Add(t, n, tok)[m].items =
                      IF m = n THEN Append(t[m].items, Len(t) + 1) ELSE t[m].items
           /\ Add(t, n, tok)[Len(t) + 1] = [tok |-> tok, parent |-> n, items |-> <<>>]
<1>1. PICK T0 : t \in Seq(NodeOver(T0)) BY DEF NodeSeq
<1>2. PICK T : T = T0 \cup {tok} OBVIOUS
<1>3. PICK N : N = NodeOver(T) OBVIOUS
<1>4. t \in Seq(N)
  <2>1. NodeOver(T0) \subseteq N BY <1>2, <1>3 DEF NodeOver
  <2> QED BY <1>1, <2>1
<1>5. PICK x : x = [tok |-> tok, parent |-> n, items |-> <<>>] OBVIOUS
<1>6. x \in N
  <2>1. tok \in T BY <1>2
  <2>2. <<>> \in Seq(Nat) /\ n \in Nat BY <1>4
  <2> QED BY <1>3, <1>5, <2>1, <2>2 DEF NodeOver
<1>7. PICK v : v = Append(t, x) OBVIOUS
<1>8. /\ v \in Seq(N) /\ Len(v) = Len(t) + 1 /\ Len(t) \in Nat
      /\ \A m \in 1..Len(t) : v[m] = t[m]
      /\ v[Len(t) + 1] = x
  BY <1>4, <1>6, <1>7
<1>9. PICK y : y = [v[n] EXCEPT !.items = Append(v[n].items, Len(t) + 1)] OBVIOUS
<1>10. v[n] \in N /\ v[n].items \in Seq(Nat)
  <2>1. v[n] \in N BY <1>8
  <2> QED BY <1>3, <2>1 DEF NodeOver
<1>11. /\ y \in N /\ y.tok = v[n].tok /\ y.parent = v[n].parent
       /\ y.items = Append(v[n].items, Len(t) + 1)
  <2>1. Append(v[n].items, Len(t) + 1) \in Seq(Nat) BY <1>8, <1>10
  <2> QED BY <1>3, <1>9, <1>10, <2>1 DEF NodeOver
<1>12. PICK u : u = [v EXCEPT ![n] = y] OBVIOUS
<1>13. Add(t, n, tok) = u
  BY <1>5, <1>7, <1>9, <1>12 DEF Add, Fresh
<1>14. u \in Seq(N) /\ Len(u) = Len(t) + 1 /\ u[n] = y
       /\ \A m \in 1..(Len(t) + 1) : m # n => u[m] = v[m]
  BY <1>8, <1>11, <1>12
<1>15. NodeSeq(u) BY <1>3, <1>14 DEF NodeSeq
<1>16. ASSUME NEW m \in 1..Len(t)
       PROVE  /\ u[m].tok = t[m].tok /\ u[m].parent = t[m].parent
              /\ u[m].items = IF m = n THEN Append(t[m].items, Len(t) + 1) ELSE t[m].items
  <2>1. CASE m = n BY <1>8, <1>11, <1>14, <2>1
  <2>2. CASE m # n
    <3>1. u[m] = t[m] BY <1>8, <1>14, <2>2
    <3> QED BY <2>2, <3>1
  <2> QED BY <2>1, <2>2
<1>17. u[Len(t) + 1] = x BY <1>8, <1>14
<1> QED BY <1>5, <1>13, <1>14, <1>15, <1>16, <1>17

\* NewTreeNode appends a node that nobody lists.
LEMMA NewNodes ==
    ASSUME NEW t, NodeSeq(t), NEW tok
    PROVE  /\ NodeSeq(NewTreeNode(t, tok))
           /\ Len(NewTreeNode(t, tok)) = Len(t) + 1
           /\ \A m \in 1..Len(t) : NewTreeNode(t, tok)[m] = t[m]
           /\ NewTreeNode(t, tok)[Len(t) + 1] = [tok |-> tok, parent |-> NoNode, items |-> <<>>]
<1>1. PICK T0 : t \in Seq(NodeOver(T0)) BY DEF NodeSeq
<1>2. PICK T : T = T0 \cup {tok} OBVIOUS
<1>3. PICK N : N = NodeOver(T) OBVIOUS
<1>4. t \in Seq(N)
  <2>1. NodeOver(T0) \subseteq N BY <1>2, <1>3 DEF NodeOver
  <2> QED BY <1>1, <2>1
<1>5. PICK x : x = [tok |-> tok, parent |-> NoNode, items |-> <<>>] OBVIOUS
<1>6. x \in N
  <2>1. tok \in T BY <1>2
  <2>2. <<>> \in Seq(Nat) OBVIOUS
  <2> QED BY <1>3, <1>5, <2>1, <2>2 DEF NodeOver
<1>7. PICK v : v = Append(t, x) OBVIOUS
<1>8. /\ v \in Seq(N) /\ Len(v) = Len(t) + 1
      /\ \A m \in 1..Len(t) : v[m] = t[m]
      /\ v[Len(t) + 1] = x
  BY <1>4, <1>6, <1>7
<1>9. NewTreeNode(t, tok) = v BY <1>5, <1>7 DEF NewTreeNode
<1>10. NodeSeq(v) BY <1>3, <1>8 DEF NodeSeq
<1> QED BY <1>5, <1>8, <1>9, <1>10

\* Push puts a node in the place of a node that has a parent.
LEMMA PushNodes ==
    ASSUME NEW t, NodeSeq(t), NEW n \in 1..Len(t), NEW tok,
           t[n].parent \in 1..Len(t), t[n].parent # n
    PROVE  /\ NodeSeq(Push(t, n, tok))
           /\ Len(Push(t, n, tok)) = Len(t) + 1
           /\ \A m \in 1..Len(t) :
                /\ Push(t, n, tok)[m].tok = t[m].tok
                /\ Push(t, n, tok)[m].parent = IF m = n THEN Len(t) + 1 ELSE t[m].parent
                /\ Push(t, n, tok)[m].items =
                      IF m = t[n].parent
                      THEN [i \in DOMAIN t[m].items |->
                              IF t[m].items[i] = n THEN Len(t) + 1 ELSE t[m].items[i]]
                      ELSE t[m].items
           /\ Push(t, n, tok)[Len(t) + 1] =
                 [tok |-> tok, parent |-> t[n].parent, items |-> <<n>>]
<1>1. PICK T0 : t \in Seq(NodeOver(T0)) BY DEF NodeSeq
<1>2. PICK T : T = T0 \cup {tok} OBVIOUS
<1>3. PICK N : N = NodeOver(T) OBVIOUS
<1>4. t \in Seq(N) /\ Len(t) \in Nat
  <2>1. NodeOver(T0) \subseteq N BY <1>2, <1>3 DEF NodeOver
  <2> QED BY <1>1, <2>1
<1>5. PICK p : p = t[n].parent OBVIOUS
<1>p. p \in 1..Len(t) /\ p # n /\ p # NoNode /\ p \in Nat
  BY <1>4, <1>5, FilterAssumption
<1>6. PICK x : x = [tok |-> tok, parent |-> p, items |-> <<n>>] OBVIOUS
<1>7. x \in N
  <2>1. tok \in T BY <1>2
  <2>2. <<n>> \in Seq(Nat) BY <1>4
  <2> QED BY <1>3, <1>6, <1>p, <2>1, <2>2 DEF NodeOver
<1>8. PICK v : v = Append(t, x) OBVIOUS
<1>9. /\ v \in Seq(N) /\ Len(v) = Len(t) + 1
      /\ \A m \in 1..Len(t) : v[m] = t[m]
      /\ v[Len(t) + 1] = x
  BY <1>4, <1>7, <1>8
<1>10. v[n] \in N /\ v[p] \in N BY <1>9, <1>p
<1>11. PICK y : y = [v[n] EXCEPT !.parent = Len(t) + 1] OBVIOUS
<1>12. /\ y \in N /\ y.tok = v[n].tok /\ y.items = v[n].items
       /\ y.parent = Len(t) + 1
  <2>1. Len(t) + 1 \in Nat \cup {NoNode} BY <1>4
  <2> QED BY <1>3, <1>10, <1>11, <2>1 DEF NodeOver
<1>13. PICK w : w = [v EXCEPT ![n] = y] OBVIOUS
<1>14. /\ w \in Seq(N) /\ Len(w) = Len(t) + 1 /\ w[n] = y
       /\ \A m \in 1..(Len(t) + 1) : m # n => w[m] = v[m]
  BY <1>9, <1>12, <1>13
<1>15. w[p] = v[p] BY <1>4, <1>14, <1>p
<1>16. PICK its : its = [i \in DOMAIN w[p].items |->
                           IF w[p].items[i] = n THEN Len(t) + 1 ELSE w[p].items[i]]
  OBVIOUS
<1>17. its \in Seq(Nat)
  <2>1. w[p].items \in Seq(Nat) BY <1>3, <1>10, <1>15 DEF NodeOver
  <2>2. PICK k \in Nat : k = Len(w[p].items) /\ DOMAIN w[p].items = 1..k BY <2>1
  <2>3. its \in [1..k -> Nat]
    <3>1. \A i \in 1..k : w[p].items[i] \in Nat BY <2>1, <2>2
    <3>2. Len(t) + 1 \in Nat BY <1>4
    <3> QED BY <1>16, <2>2, <3>1, <3>2
  <2> QED BY <2>2, <2>3
<1>18. PICK z : z = [w[p] EXCEPT !.items = its] OBVIOUS
<1>19. z \in N /\ z.tok = w[p].tok /\ z.parent = w[p].parent /\ z.items = its
  BY <1>3, <1>10, <1>15, <1>17, <1>18 DEF NodeOver
<1>20. PICK u : u = [w EXCEPT ![p] = z] OBVIOUS
<1>21. Push(t, n, tok) = u
  BY <1>5, <1>6, <1>8, <1>11, <1>13, <1>16, <1>18, <1>20, <1>p DEF Push, Fresh
<1>22. /\ u \in Seq(N) /\ Len(u) = Len(t) + 1 /\ u[p] = z
       /\ \A m \in 1..(Len(t) + 1) : m # p => u[m] = w[m]
  BY <1>4, <1>14, <1>19, <1>20, <1>p
<1>23. NodeSeq(u) BY <1>3, <1>22 DEF NodeSeq
<1>24. u[Len(t) + 1] = x BY <1>4, <1>9, <1>14, <1>22, <1>p
<1>25. ASSUME NEW m \in 1..Len(t)
       PROVE  /\ u[m].tok = t[m].tok
              /\ u[m].parent = IF m = n THEN Len(t) + 1 ELSE t[m].parent
              /\ m # p => u[m].items = t[m].items
              /\ m = p => u[m].items = its
  <2>1. CASE m = p BY <1>9, <1>15, <1>19, <1>22, <1>p, <2>1
  <2>2. CASE m = n BY <1>4, <1>9, <1>12, <1>14, <1>22, <1>p, <2>2
  <2>3. CASE m # p /\ m # n BY <1>4, <1>9, <1>14, <1>22, <2>3
  <2> QED BY <2>1, <2>2, <2>3
<1>26. its = [i \in DOMAIN t[p].items |->
                 IF t[p].items[i] = n THEN Len(t) + 1 ELSE t[p].items[i]]
  BY <1>9, <1>15, <1>16, <1>p
<1>27. \A m \in 1..Len(t) :
          u[m].items = IF m = t[n].parent
                       THEN [i \in DOMAIN t[m].items |->
                               IF t[m].items[i] = n THEN Len(t) + 1 ELSE t[m].items[i]]
                       ELSE t[m].items
  BY <1>5, <1>25, <1>26
<1> QED BY <1>5, <1>6, <1>21, <1>22, <1>23, <1>24, <1>25, <1>27

\* No node is its own parent.
LEMMA NotOwnParent ==
    ASSUME NEW t, NoCycle(t), NEW n \in 1..Len(t)
    PROVE  t[n].parent # n
<1>1. {n} \in SUBSET (1..Len(t)) /\ {n} # {} OBVIOUS
<1>2. \E m \in {n} : t[m].parent \notin {n} BY <1>1 DEF NoCycle
<1> QED BY <1>2

\* A node is in the list of its parent and nowhere else, also after a new one
\* was added or appended.
LEMMA AddTree ==
    ASSUME NEW t, Tree(t), NEW n \in 1..Len(t), NEW tok
    PROVE  Tree(Add(t, n, tok))
<1>1. PICK u : u = Add(t, n, tok) OBVIOUS
<1>2. PICK k \in Nat \ {0} : k = Len(t) BY DEF Tree
<1>3. /\ NodeSeq(u) /\ Len(u) = k + 1
      /\ \A m \in 1..k : /\ u[m].parent = t[m].parent
                         /\ m # n => u[m].items = t[m].items
      /\ u[n].items = Append(t[n].items, k + 1)
      /\ u[k + 1].parent = n /\ u[k + 1].items = <<>>
  <2>1. NodeSeq(t) BY DEF Tree
  <2>2. /\ NodeSeq(u) /\ Len(u) = Len(t) + 1
        /\ \A m \in 1..Len(t) :
             /\ u[m].parent = t[m].parent
             /\ u[m].items = IF m = n THEN Append(t[m].items, Len(t) + 1) ELSE t[m].items
        /\ u[Len(t) + 1] = [tok |-> tok, parent |-> n, items |-> <<>>]
    BY <1>1, <2>1, AddNodes
  <2>3. u[k + 1].parent = n /\ u[k + 1].items = <<>> BY <1>2, <2>2
  <2> QED BY <1>2, <2>2, <2>3
<1>4. /\ \A m \in 1..k : t[m].parent \in (1..k) \cup {NoNode} /\ t[m].items \in Seq(Nat)
      /\ NoNode \notin Nat
  BY <1>2, FilterAssumption DEF Tree, ParentsInside
<1>5. ASSUME NEW m \in 1..(k + 1)
      PROVE  u[m].parent \in (1..(k + 1)) \cup {NoNode} /\ u[m].items \in Seq(Nat)
  <2>0. n \in 1..k /\ k \in Nat BY <1>2
  <2>1. CASE m = k + 1
    <3>0. <<>> \in Seq(Nat) OBVIOUS
    <3>1. u[m].items \in Seq(Nat) BY <1>3, <2>1, <3>0
    <3>2. u[m].parent \in 1..(k + 1) BY <1>3, <2>0, <2>1
    <3> QED BY <3>1, <3>2
  <2>2. CASE m = n
    <3>1. t[n].items \in Seq(Nat) BY <1>4, <2>0
    <3>0. Append(t[n].items, k + 1) \in Seq(Nat) BY <2>0, <3>1
    <3>2. u[m].items \in Seq(Nat) BY <1>3, <2>2, <3>0
    <3>3. u[m].parent = t[n].parent BY <1>3, <2>0, <2>2
    <3> QED BY <1>4, <2>0, <3>2, <3>3
  <2>3. CASE m # k + 1 /\ m # n
    <3>1. m \in 1..k BY <2>3
    <3>2. u[m].items = t[m].items /\ u[m].parent = t[m].parent BY <1>3, <2>3, <3>1
    <3> QED BY <1>4, <3>1, <3>2
  <2> QED BY <2>1, <2>2, <2>3
<1>6. PICK l \in Nat : l = Len(t[n].items) BY <1>2, <1>4
<1>7. /\ Len(u[n].items) = l + 1 /\ u[n].items[l + 1] = k + 1
      /\ \A i \in 1..l : u[n].items[i] = t[n].items[i]
  BY <1>2, <1>3, <1>4, <1>6
<1>8. \A m \in 1..k : \A i \in 1..Len(t[m].items) :
          t[m].items[i] \in 1..k /\ t[t[m].items[i]].parent = m
  BY <1>2 DEF Tree, ChildrenKnow
<1>9. ASSUME NEW m \in 1..(k + 1), NEW i \in 1..Len(u[m].items)
      PROVE  u[m].items[i] \in 1..(k + 1) /\ u[u[m].items[i]].parent = m
  <2>1. CASE m = k + 1 BY <1>3, <2>1
  <2>2. CASE m = n /\ i = l + 1 BY <1>2, <1>3, <1>7, <2>2
  <2>3. CASE m = n /\ i # l + 1
    <3>1. i \in 1..l BY <1>7, <2>3
    <3>2. u[m].items[i] = t[m].items[i] BY <1>7, <2>3, <3>1
    <3>3. t[m].items[i] \in 1..k /\ t[t[m].items[i]].parent = m
      BY <1>2, <1>6, <1>8, <2>3, <3>1
    <3> QED BY <1>3, <3>2, <3>3
  <2>4. CASE m # k + 1 /\ m # n
    <3>1. m \in 1..k BY <2>4
    <3>2. u[m].items = t[m].items BY <1>3, <2>4, <3>1
    <3>3. t[m].items[i] \in 1..k /\ t[t[m].items[i]].parent = m BY <1>8, <3>1, <3>2
    <3> QED BY <1>3, <3>2, <3>3
  <2> QED BY <2>1, <2>2, <2>3, <2>4
<1>10. ASSUME NEW m \in 1..(k + 1), NEW i \in 1..Len(u[m].items),
              NEW j \in 1..Len(u[m].items), u[m].items[i] = u[m].items[j]
       PROVE  i = j
  <2>1. \A f \in 1..k : \A a, b \in 1..Len(t[f].items) :
            t[f].items[a] = t[f].items[b] => a = b
    BY <1>2 DEF Tree, ChildrenOnce
  <2>2. CASE m = k + 1 BY <1>3, <2>2
  <2>3. CASE m = n
    <3>1. \A a \in 1..l : t[n].items[a] # k + 1
      BY <1>2, <1>6, <1>8
    <3>2. i \in 1..(l + 1) /\ j \in 1..(l + 1) BY <1>7, <2>3
    <3>3. CASE i = l + 1 /\ j = l + 1 BY <3>3
    <3>4. CASE i = l + 1 /\ j # l + 1
      <4>1. j \in 1..l BY <3>2, <3>4
      <4> QED BY <1>7, <1>10, <2>3, <3>1, <3>4, <4>1
    <3>5. CASE i # l + 1 /\ j = l + 1
      <4>1. i \in 1..l BY <3>2, <3>5
      <4> QED BY <1>7, <1>10, <2>3, <3>1, <3>5, <4>1
    <3>6. CASE i # l + 1 /\ j # l + 1
      <4>1. i \in 1..l /\ j \in 1..l BY <3>2, <3>6
      <4>2. t[n].items[i] = t[n].items[j] BY <1>7, <1>10, <2>3, <4>1
      <4> QED BY <1>2, <1>6, <2>1, <4>1, <4>2
    <3> QED BY <3>3, <3>4, <3>5, <3>6
  <2>4. CASE m # k + 1 /\ m # n
    <3>1. m \in 1..k /\ u[m].items = t[m].items BY <1>3, <2>4
    <3> QED BY <1>10, <2>1, <3>1
  <2> QED BY <2>2, <2>3, <2>4
<1>11. ASSUME NEW m \in 1..(k + 1), u[m].parent # NoNode
       PROVE  \E i \in 1..Len(u[u[m].parent].items) : u[u[m].parent].items[i] = m
  <2>1. CASE m = k + 1
    <3>1. u[m].parent = n BY <1>3, <2>1
    <3>2. l + 1 \in 1..Len(u[n].items) /\ u[n].items[l + 1] = m BY <1>7, <2>1
    <3> QED BY <3>1, <3>2
  <2>2. CASE m # k + 1
    <3>1. m \in 1..k BY <2>2
    <3>2. PICK p : p = t[m].parent OBVIOUS
    <3>3. u[m].parent = p /\ p \in 1..k BY <1>3, <1>4, <1>11, <3>1, <3>2
    <3>4. PICK i \in 1..Len(t[p].items) : t[p].items[i] = m
      BY <1>2, <1>11, <3>1, <3>2, <3>3 DEF Tree, ParentsKnow
    <3>5. CASE p = n
      <4>1. i \in 1..l /\ i \in 1..(l + 1) BY <1>6, <3>4, <3>5
      <4> QED BY <1>7, <3>3, <3>4, <3>5, <4>1
    <3>6. CASE p # n
      <4>1. u[p].items = t[p].items BY <1>3, <3>3, <3>6
      <4> QED BY <3>3, <3>4, <4>1
    <3> QED BY <3>5, <3>6
  <2> QED BY <2>1, <2>2
<1>12. ASSUME NEW S \in SUBSET (1..(k + 1)), S # {}
       PROVE  \E m \in S : u[m].parent \notin S
  <2>1. CASE S \subseteq {k + 1}
    <3>1. S = {k + 1} BY <1>12, <2>1
    <3> QED BY <1>2, <1>3, <3>1
  <2>2. CASE ~(S \subseteq {k + 1})
    <3>1. S \ {k + 1} \in SUBSET (1..k) /\ S \ {k + 1} # {} BY <2>2
    <3>2. PICK m \in S \ {k + 1} : t[m].parent \notin S \ {k + 1}
      BY <1>2, <3>1 DEF Tree, NoCycle
    <3>3. m \in 1..k BY <3>1, <3>2
    <3>4. u[m].parent = t[m].parent /\ t[m].parent # k + 1
      BY <1>2, <1>3, <1>4, <3>3
    <3> QED BY <3>2, <3>4
  <2> QED BY <2>1, <2>2
<1>13. ParentsInside(u) BY <1>3, <1>5 DEF ParentsInside
<1>14. ChildrenKnow(u) BY <1>3, <1>9 DEF ChildrenKnow
<1>15. ChildrenOnce(u) BY <1>3, <1>10 DEF ChildrenOnce
<1>16. ParentsKnow(u) BY <1>3, <1>11 DEF ParentsKnow
<1>17. NoCycle(u) BY <1>3, <1>12 DEF NoCycle
<1>18. Len(u) \in Nat \ {0} BY <1>3
<1> QED BY <1>1, <1>3, <1>13, <1>14, <1>15, <1>16, <1>17, <1>18 DEF Tree

LEMMA NewTree ==
    ASSUME NEW t, Tree(t), NEW tok
    PROVE  Tree(NewTreeNode(t, tok))
<1>1. PICK u : u = NewTreeNode(t, tok) OBVIOUS
<1>2. PICK k \in Nat \ {0} : k = Len(t) BY DEF Tree
<1>3. /\ NodeSeq(u) /\ Len(u) = k + 1
      /\ \A m \in 1..k : u[m] = t[m]
      /\ u[k + 1].parent = NoNode /\ u[k + 1].items = <<>>
  <2>1. NodeSeq(t) BY DEF Tree
  <2>2. /\ NodeSeq(u) /\ Len(u) = Len(t) + 1
        /\ \A m \in 1..Len(t) : u[m] = t[m]
        /\ u[Len(t) + 1] = [tok |-> tok, parent |-> NoNode, items |-> <<>>]
    BY <1>1, <2>1, NewNodes
  <2>3. u[k + 1].parent = NoNode /\ u[k + 1].items = <<>> BY <1>2, <2>2
  <2> QED BY <1>2, <2>2, <2>3
<1>4. /\ \A m \in 1..k : t[m].parent \in (1..k) \cup {NoNode} /\ t[m].items \in Seq(Nat)
      /\ NoNode \notin Nat
  BY <1>2, FilterAssumption DEF Tree, ParentsInside
<1>5. \A m \in 1..(k + 1) : m = k + 1 \/ m \in 1..k OBVIOUS
<1>6. ParentsInside(u)
  <2>1. <<>> \in Seq(Nat) OBVIOUS
  <2>2. ASSUME NEW m \in 1..k
        PROVE  u[m].parent \in (1..(k + 1)) \cup {NoNode} /\ u[m].items \in Seq(Nat)
    <3>1. u[m] = t[m] BY <1>3
    <3>2. t[m].parent \in (1..k) \cup {NoNode} /\ t[m].items \in Seq(Nat) BY <1>4
    <3> QED BY <3>1, <3>2
  <2> QED BY <1>3, <1>5, <2>1, <2>2 DEF ParentsInside
<1>7. \A m \in 1..k : \A i \in 1..Len(t[m].items) :
          t[m].items[i] \in 1..k /\ t[t[m].items[i]].parent = m
  BY <1>2 DEF Tree, ChildrenKnow
<1>8. ASSUME NEW m \in 1..(k + 1), NEW i \in 1..Len(u[m].items)
      PROVE  u[m].items[i] \in 1..(k + 1) /\ u[u[m].items[i]].parent = m
  <2>1. CASE m = k + 1 BY <1>3, <2>1
  <2>2. CASE m \in 1..k BY <1>3, <1>7, <2>2
  <2> QED BY <1>5, <2>1, <2>2
<1>9. ChildrenKnow(u) BY <1>3, <1>8 DEF ChildrenKnow
<1>10. ASSUME NEW m \in 1..(k + 1), NEW i \in 1..Len(u[m].items),
              NEW j \in 1..Len(u[m].items), u[m].items[i] = u[m].items[j]
       PROVE  i = j
  <2>1. CASE m = k + 1 BY <1>3, <2>1
  <2>2. CASE m \in 1..k BY <1>2, <1>3, <1>10, <2>2 DEF Tree, ChildrenOnce
  <2> QED BY <1>5, <2>1, <2>2
<1>11. ChildrenOnce(u) BY <1>3, <1>10 DEF ChildrenOnce
<1>12. ASSUME NEW m \in 1..(k + 1), u[m].parent # NoNode
       PROVE  \E i \in 1..Len(u[u[m].parent].items) : u[u[m].parent].items[i] = m
  <2>1. m \in 1..k /\ u[m] = t[m] BY <1>3, <1>5, <1>12
  <2>2. PICK p \in 1..k : p = t[m].parent BY <1>4, <1>12, <2>1
  <2>3. u[p] = t[p] BY <1>3
  <2>4. PICK i \in 1..Len(t[p].items) : t[p].items[i] = m
    BY <1>2, <1>12, <2>1, <2>2 DEF Tree, ParentsKnow
  <2> QED BY <2>1, <2>2, <2>3, <2>4
<1>13. ParentsKnow(u) BY <1>3, <1>12 DEF ParentsKnow
<1>14. ASSUME NEW S \in SUBSET (1..(k + 1)), S # {}
       PROVE  \E m \in S : u[m].parent \notin S
  <2>1. CASE k + 1 \in S
    <3>1. S \subseteq Nat OBVIOUS
    <3>2. NoNode \notin S BY <1>4, <3>1
    <3> QED BY <1>3, <2>1, <3>2
  <2>2. CASE k + 1 \notin S
    <3>1. S \in SUBSET (1..k) BY <2>2
    <3>2. PICK m \in S : t[m].parent \notin S BY <1>2, <1>14, <3>1 DEF Tree, NoCycle
    <3> QED BY <1>3, <3>1, <3>2
  <2> QED BY <2>1, <2>2
<1>15. NoCycle(u) BY <1>3, <1>14 DEF NoCycle
<1>16. Len(u) \in Nat \ {0} BY <1>3
<1> QED BY <1>1, <1>3, <1>6, <1>9, <1>11, <1>13, <1>15, <1>16 DEF Tree

\* A node that is pushed down takes its place under the new one, which takes
\* its place in the list of its parent.
LEMMA PushTree ==
    ASSUME NEW t, Tree(t), NEW n \in 1..Len(t), NEW tok, t[n].parent # NoNode
    PROVE  Tree(Push(t, n, tok))
<1>1. PICK u : u = Push(t, n, tok) OBVIOUS
<1>2. PICK k \in Nat \ {0} : k = Len(t) BY DEF Tree
<1>3. /\ \A m \in 1..k : t[m].parent \in (1..k) \cup {NoNode} /\ t[m].items \in Seq(Nat)
      /\ NoNode \notin Nat /\ n \in 1..k
  BY <1>2, FilterAssumption DEF Tree, ParentsInside
<1>4. PICK p \in 1..k : p = t[n].parent BY <1>3
<1>5. p # n BY <1>2, <1>4, NotOwnParent DEF Tree
<1>6. PICK l \in Nat : l = Len(t[p].items) /\ DOMAIN t[p].items = 1..l BY <1>3
<1>7. /\ NodeSeq(u) /\ Len(u) = k + 1
      /\ \A m \in 1..k : u[m].parent = IF m = n THEN k + 1 ELSE t[m].parent
      /\ \A m \in 1..k : m # p => u[m].items = t[m].items
      /\ u[p].items = [i \in 1..l |-> IF t[p].items[i] = n THEN k + 1 ELSE t[p].items[i]]
      /\ u[k + 1].parent = p /\ u[k + 1].items = <<n>>
  <2>1. NodeSeq(t) /\ t[n].parent \in 1..Len(t) /\ t[n].parent # n
    BY <1>2, <1>4, <1>5 DEF Tree
  <2>2. /\ NodeSeq(u) /\ Len(u) = Len(t) + 1
        /\ \A m \in 1..Len(t) :
             /\ u[m].parent = IF m = n THEN Len(t) + 1 ELSE t[m].parent
             /\ u[m].items = IF m = t[n].parent
                             THEN [i \in DOMAIN t[m].items |->
                                     IF t[m].items[i] = n THEN Len(t) + 1 ELSE t[m].items[i]]
                             ELSE t[m].items
        /\ u[Len(t) + 1] = [tok |-> tok, parent |-> t[n].parent, items |-> <<n>>]
    BY <1>1, <2>1, PushNodes
  <2>3. u[k + 1].parent = p /\ u[k + 1].items = <<n>> BY <1>2, <1>4, <2>2
  <2>4. u[p].items = [i \in 1..l |-> IF t[p].items[i] = n THEN k + 1 ELSE t[p].items[i]]
    BY <1>2, <1>4, <1>6, <2>2
  <2>5. \A m \in 1..k : /\ u[m].parent = IF m = n THEN k + 1 ELSE t[m].parent
                        /\ m # p => u[m].items = t[m].items
    BY <1>2, <1>4, <2>2
  <2> QED BY <1>2, <2>2, <2>3, <2>4, <2>5
<1>a. \A m \in 1..k : u[m].parent = IF m = n THEN k + 1 ELSE t[m].parent BY <1>7
<1>b. \A m \in 1..k : m # p => u[m].items = t[m].items BY <1>7
<1>c. u[p].items = [i \in 1..l |-> IF t[p].items[i] = n THEN k + 1 ELSE t[p].items[i]] BY <1>7
<1>d. NodeSeq(u) /\ Len(u) = k + 1 /\ u[k + 1].parent = p /\ u[k + 1].items = <<n>> BY <1>7
<1>8. /\ u[p].items \in Seq(Nat) /\ Len(u[p].items) = l
      /\ \A i \in 1..l : u[p].items[i] = IF t[p].items[i] = n THEN k + 1 ELSE t[p].items[i]
  <2>0. PICK v \in Seq(Nat) : v = t[p].items BY <1>3
  <2>1. \A i \in 1..l : t[p].items[i] \in Nat
    <3>1. \A i \in 1..Len(v) : v[i] \in Nat OBVIOUS
    <3> QED BY <1>6, <2>0, <3>1
  <2>2. PICK q : q = u[p].items OBVIOUS
  <2>3. q \in [1..l -> Nat] BY <1>c, <2>1, <2>2
  <2>4. q \in Seq(Nat) /\ Len(q) = l BY <2>3
  <2> QED BY <1>c, <2>2, <2>4
<1>9. Len(u[k + 1].items) = 1 /\ u[k + 1].items[1] = n /\ u[k + 1].items \in Seq(Nat)
  BY <1>3, <1>d
<1>10. \A m \in 1..(k + 1) : m = k + 1 \/ m \in 1..k OBVIOUS
<1>11. ASSUME NEW m \in 1..(k + 1)
       PROVE  u[m].parent \in (1..(k + 1)) \cup {NoNode} /\ u[m].items \in Seq(Nat)
  <2>1. CASE m = k + 1
    <3>1. p \in 1..(k + 1) OBVIOUS
    <3> QED BY <1>9, <1>d, <2>1, <3>1
  <2>2. CASE m \in 1..k
    <3>1. u[m].items \in Seq(Nat) BY <1>3, <1>8, <1>b, <2>2
    <3>2. u[m].parent = k + 1 \/ u[m].parent = t[m].parent BY <1>a, <2>2
    <3> QED BY <1>3, <2>2, <3>1, <3>2
  <2> QED BY <1>10, <2>1, <2>2
<1>12. ParentsInside(u) BY <1>11, <1>d DEF ParentsInside
<1>13. \A m \in 1..k : \A i \in 1..Len(t[m].items) :
          t[m].items[i] \in 1..k /\ t[t[m].items[i]].parent = m
  BY <1>2 DEF Tree, ChildrenKnow
<1>14. ASSUME NEW m \in 1..(k + 1), NEW i \in 1..Len(u[m].items)
       PROVE  u[m].items[i] \in 1..(k + 1) /\ u[u[m].items[i]].parent = m
  <2>1. CASE m = k + 1
    <3>0. Len(u[m].items) = 1 /\ u[m].items[1] = n BY <1>9, <2>1
    <3>1. i = 1 BY <3>0
    <3>2. u[m].items[i] = n BY <3>0, <3>1
    <3> QED BY <1>3, <1>a, <2>1, <3>2
  <2>2. CASE m = p
    <3>1. i \in 1..l BY <1>8, <2>2
    <3>2. PICK c \in 1..k : c = t[p].items[i] /\ t[c].parent = p BY <1>6, <1>13, <3>1
    <3>3. CASE c = n
      <4>1. u[m].items[i] = k + 1 BY <1>8, <2>2, <3>1, <3>2, <3>3
      <4> QED BY <1>d, <2>2, <4>1
    <3>4. CASE c # n
      <4>1. u[m].items[i] = c BY <1>8, <2>2, <3>1, <3>2, <3>4
      <4>2. u[c].parent = p BY <1>a, <3>2, <3>4
      <4> QED BY <2>2, <4>1, <4>2
    <3> QED BY <3>3, <3>4
  <2>3. CASE m \in 1..k /\ m # p
    <3>1. u[m].items = t[m].items BY <1>b, <2>3
    <3>2. PICK c \in 1..k : c = t[m].items[i] /\ t[c].parent = m BY <1>13, <2>3, <3>1
    <3>3. c # n BY <1>4, <2>3, <3>2
    <3>4. u[c].parent = m BY <1>a, <3>2, <3>3
    <3> QED BY <3>1, <3>2, <3>4
  <2> QED BY <1>10, <2>1, <2>2, <2>3
<1>15. ChildrenKnow(u) BY <1>14, <1>d DEF ChildrenKnow
<1>16. ASSUME NEW m \in 1..(k + 1), NEW i \in 1..Len(u[m].items),
              NEW j \in 1..Len(u[m].items), u[m].items[i] = u[m].items[j]
       PROVE  i = j
  <2>1. \A f \in 1..k : \A a, b \in 1..Len(t[f].items) :
            t[f].items[a] = t[f].items[b] => a = b
    BY <1>2 DEF Tree, ChildrenOnce
  <2>2. CASE m = k + 1
    <3>1. i \in 1..1 /\ j \in 1..1 BY <1>9, <2>2
    <3> QED BY <3>1
  <2>3. CASE m = p
    <3>1. i \in 1..l /\ j \in 1..l BY <1>8, <2>3
    <3>2. t[p].items[i] \in 1..k /\ t[p].items[j] \in 1..k BY <1>6, <1>13, <3>1
    <3>a. PICK a \in 1..k, b \in 1..k : a = t[p].items[i] /\ b = t[p].items[j] BY <3>2
    <3>b. (IF a = n THEN k + 1 ELSE a) = (IF b = n THEN k + 1 ELSE b)
      BY <1>8, <1>16, <2>3, <3>1, <3>a
    <3>3. t[p].items[i] = t[p].items[j] BY <3>a, <3>b
    <3> QED BY <1>6, <2>1, <3>1, <3>3
  <2>4. CASE m \in 1..k /\ m # p
    <3>1. u[m].items = t[m].items BY <1>b, <2>4
    <3> QED BY <1>16, <2>1, <2>4, <3>1
  <2> QED BY <1>10, <2>2, <2>3, <2>4
<1>17. ChildrenOnce(u) BY <1>16, <1>d DEF ChildrenOnce
<1>18. ASSUME NEW m \in 1..(k + 1), u[m].parent # NoNode
       PROVE  \E i \in 1..Len(u[u[m].parent].items) : u[u[m].parent].items[i] = m
  <2>1. \A c \in 1..k : t[c].parent # NoNode =>
            \E i \in 1..Len(t[t[c].parent].items) : t[t[c].parent].items[i] = c
    BY <1>2 DEF Tree, ParentsKnow
  <2>2. CASE m = k + 1
    <3>1. PICK i \in 1..l : t[p].items[i] = n BY <1>3, <1>4, <1>6, <2>1
    <3>2. u[p].items[i] = k + 1 BY <1>8, <3>1
    <3> QED BY <1>8, <1>d, <2>2, <3>2
  <2>3. CASE m = n
    <3>1. u[m].parent = k + 1 BY <1>3, <1>a, <2>3
    <3> QED BY <1>9, <2>3, <3>1
  <2>4. CASE m \in 1..k /\ m # n
    <3>1. u[m].parent = t[m].parent BY <1>a, <2>4
    <3>2. PICK f \in 1..k : f = t[m].parent BY <1>3, <1>18, <2>4, <3>1
    <3>3. PICK i \in 1..Len(t[f].items) : t[f].items[i] = m BY <1>18, <2>1, <2>4, <3>1, <3>2
    <3>4. CASE f = p
      <4>1. u[p].items[i] = m /\ i \in 1..Len(u[p].items) BY <1>6, <1>8, <2>4, <3>3, <3>4
      <4> QED BY <3>1, <3>2, <3>4, <4>1
    <3>5. CASE f # p
      <4>1. u[f].items = t[f].items BY <1>b, <3>5
      <4> QED BY <3>1, <3>2, <3>3, <4>1
    <3> QED BY <3>4, <3>5
  <2> QED BY <1>10, <2>2, <2>3, <2>4
<1>19. ParentsKnow(u) BY <1>18, <1>d DEF ParentsKnow
<1>20. ASSUME NEW S \in SUBSET (1..(k + 1)), S # {}
       PROVE  \E m \in S : u[m].parent \notin S
  <2>1. CASE k + 1 \notin S
    <3>1. S \in SUBSET (1..k) BY <2>1
    <3>2. PICK m \in S : t[m].parent \notin S BY <1>2, <1>20, <3>1 DEF Tree, NoCycle
    <3>3. m \in 1..k BY <3>1
    <3>4. u[m].parent = k + 1 \/ u[m].parent = t[m].parent BY <1>a, <3>3
    <3> QED BY <2>1, <3>2, <3>4
  <2>2. CASE k + 1 \in S /\ p \notin S
    BY <1>d, <2>2
  <2>3. CASE k + 1 \in S /\ p \in S
    <3>1. PICK Q : Q = S \ {k + 1} OBVIOUS
    <3>2. Q \in SUBSET (1..k) /\ p \in Q BY <2>3, <3>1
    <3>3. PICK m \in Q : t[m].parent \notin Q BY <1>2, <3>2 DEF Tree, NoCycle
    <3>4. m \in 1..k /\ m \in S BY <3>1, <3>2, <3>3
    <3>5. m # n BY <1>4, <3>2, <3>3
    <3>6. u[m].parent = t[m].parent /\ t[m].parent # k + 1 BY <1>3, <1>a, <3>4, <3>5
    <3> QED BY <3>1, <3>3, <3>4, <3>6
  <2> QED BY <2>1, <2>2, <2>3
<1>21. NoCycle(u) BY <1>20, <1>d DEF NoCycle
<1>22. Len(u) \in Nat \ {0} BY <1>d
<1> QED BY <1>1, <1>d, <1>12, <1>15, <1>17, <1>19, <1>21, <1>22 DEF Tree

\* Steps that stay in a set lead to a member of it.
LEMMA ClimbStays ==
    ASSUME NEW S, NEW up \in [S -> S], NEW n \in S, NEW k \in Nat
    PROVE  Climb(up, n, k) \in S
<1> DEFINE Path(h, g) == /\ g \in [0..h -> S] /\ g[0] = n
                         /\ \A i \in 1..h : g[i] = up[g[i - 1]]
           T == {h \in Nat : \E g : Path(h, g)}
<1>1. 0 \in T
  <2>1. PICK g : g = [i \in 0..0 |-> n] OBVIOUS
  <2>2. Path(0, g) BY <2>1
  <2> QED BY <2>2
<1>2. ASSUME NEW h \in T PROVE h + 1 \in T
  <2>1. h \in Nat OBVIOUS
  <2>2. PICK g : Path(h, g) OBVIOUS
  <2>3. PICK f : f = [i \in 0..(h + 1) |-> IF i = h + 1 THEN up[g[h]] ELSE g[i]] OBVIOUS
  <2>4. \A i \in 0..(h + 1) : f[i] \in S
    <3>1. g[h] \in S /\ up[g[h]] \in S BY <2>1, <2>2
    <3> QED BY <2>1, <2>2, <2>3, <3>1
  <2>5. f \in [0..(h + 1) -> S] BY <2>3, <2>4
  <2>6. f[0] = n BY <2>1, <2>2, <2>3
  <2>7. ASSUME NEW i \in 1..(h + 1) PROVE f[i] = up[f[i - 1]]
    <3>1. i - 1 \in 0..h /\ i - 1 \in 0..(h + 1) /\ i - 1 # h + 1 BY <2>1
    <3>2. f[i - 1] = g[i - 1] BY <2>3, <3>1
    <3>3. CASE i = h + 1
      <4>1. f[i] = up[g[h]] /\ i - 1 = h BY <2>1, <2>3, <3>3
      <4> QED BY <3>2, <4>1
    <3>4. CASE i # h + 1
      <4>1. i \in 1..h BY <2>1, <3>4
      <4>2. f[i] = g[i] BY <2>3, <3>4
      <4> QED BY <2>2, <3>2, <4>1, <4>2
    <3> QED BY <3>3, <3>4
  <2>8. Path(h + 1, f) BY <2>5, <2>6, <2>7
  <2> QED BY <2>1, <2>8
<1>3. T = Nat
  <2>1. T \in SUBSET Nat OBVIOUS
  <2> HIDE DEF T
  <2> QED BY <1>1, <1>2, <2>1, Induction
<1>4. PICK g : Path(k, g) BY <1>3
<1>5. g = [i \in 0..k |-> IF i = 0 THEN n ELSE up[g[i - 1]]]
  <2>1. \A i \in 0..k : g[i] = IF i = 0 THEN n ELSE up[g[i - 1]] BY <1>4
  <2> QED BY <1>4, <2>1
<1>6. PICK a : a = CHOOSE f : f = [i \in 0..k |-> IF i = 0 THEN n ELSE up[f[i - 1]]]
  OBVIOUS
<1>7. a = [i \in 0..k |-> IF i = 0 THEN n ELSE up[a[i - 1]]] BY <1>5, <1>6
<1>8. Climb(up, n, k) = a[k] BY <1>6 DEF Climb
<1>9. a[k] \in S
  <2> DEFINE U == {h \in Nat : h <= k => a[h] \in S}
  <2>1. 0 \in U BY <1>7
  <2>2. ASSUME NEW h \in U PROVE h + 1 \in U
    <3>1. h \in Nat OBVIOUS
    <3>2. ASSUME h + 1 <= k PROVE a[h + 1] \in S
      <4>1. a[h] \in S BY <3>1, <3>2
      <4>2. h + 1 \in 0..k /\ h + 1 # 0 /\ (h + 1) - 1 = h BY <3>1, <3>2
      <4>3. a[h + 1] = up[a[h]] BY <1>7, <4>2
      <4> QED BY <4>1, <4>3
    <3> QED BY <3>1, <3>2
  <2>3. U = Nat
    <3>1. U \in SUBSET Nat OBVIOUS
    <3> HIDE DEF U
    <3> QED BY <2>1, <2>2, <3>1, Induction
  <2> QED BY <2>3
<1> QED BY <1>8, <1>9

\* The root is the empty node; what has no parent beside it begins an argument.
Roots(t) ==
    /\ t[1].tok = Empty /\ t[1].parent = NoNode
    /\ \A m \in 1..Len(t) : t[m].parent = NoNode => m = 1 \/ t[m].tok = Group("")

\* The calls whose arguments are being read are function nodes.
CallsAre(t, c) ==
    /\ c \in Seq(Nat)
    /\ \A i \in 1..Len(c) : c[i] \in 1..Len(t) /\ t[c[i]].tok.kind = "func"

Shape(t, c) == Tree(t) /\ Roots(t) /\ CallsAre(t, c)

\* A node that is neither empty nor a group has a parent.
LEMMA HasParent ==
    ASSUME NEW t, Roots(t), NEW n \in 1..Len(t), t[n].tok.kind \notin {"empty", "group"}
    PROVE  t[n].parent # NoNode
<1>1. Empty.kind = "empty" /\ Group("").kind = "group" BY DEF Empty, Group
<1>2. t[n].tok # Empty /\ t[n].tok # Group("") BY <1>1
<1> QED BY <1>2 DEF Roots

LEMMA AddShape ==
    ASSUME NEW t, NEW c, Shape(t, c), NEW n \in 1..Len(t), NEW tok
    PROVE  /\ Shape(Add(t, n, tok), c)
           /\ Len(Add(t, n, tok)) = Len(t) + 1
           /\ Add(t, n, tok)[n].items # <<>>
           /\ Add(t, n, tok)[Len(t) + 1].tok = tok
<1>1. PICK u : u = Add(t, n, tok) OBVIOUS
<1>2. PICK k \in Nat \ {0} : k = Len(t) BY DEF Shape, Tree
<1>3. Tree(u) BY <1>1, AddTree DEF Shape
<1>4. /\ Len(u) = k + 1
      /\ \A m \in 1..k : u[m].tok = t[m].tok /\ u[m].parent = t[m].parent
      /\ u[n].items = Append(t[n].items, k + 1)
      /\ u[k + 1] = [tok |-> tok, parent |-> n, items |-> <<>>]
  <2>1. NodeSeq(t) BY DEF Shape, Tree
  <2>2. /\ Len(u) = Len(t) + 1
        /\ \A m \in 1..Len(t) :
             /\ u[m].tok = t[m].tok /\ u[m].parent = t[m].parent
             /\ u[m].items = IF m = n THEN Append(t[m].items, Len(t) + 1) ELSE t[m].items
        /\ u[Len(t) + 1] = [tok |-> tok, parent |-> n, items |-> <<>>]
    BY <1>1, <2>1, AddNodes
  <2> QED BY <1>2, <2>2
<1>5. u[k + 1].tok = tok /\ u[k + 1].parent = n BY <1>4
<1>6. n # NoNode BY <1>2, FilterAssumption
<1>7. Roots(u)
  <2>1. 1 \in 1..k BY <1>2
  <2>2. \A m \in 1..(k + 1) : m \in 1..k \/ m = k + 1 BY <1>2
  <2>3. /\ t[1].tok = Empty /\ t[1].parent = NoNode
        /\ \A m \in 1..k : t[m].parent = NoNode => m = 1 \/ t[m].tok = Group("")
    BY <1>2 DEF Shape, Roots
  <2>4. u[1].tok = Empty /\ u[1].parent = NoNode BY <1>4, <2>1, <2>3
  <2>5. \A m \in 1..(k + 1) : u[m].parent = NoNode => m = 1 \/ u[m].tok = Group("")
    BY <1>4, <1>5, <1>6, <2>2, <2>3
  <2> QED BY <1>4, <2>4, <2>5 DEF Roots
<1>8. CallsAre(u, c)
  <2>1. \A m \in 1..k : m \in 1..(k + 1) OBVIOUS
  <2> QED BY <1>2, <1>4, <2>1 DEF Shape, CallsAre
<1>9. u[n].items # <<>>
  <2>1. t[n].items \in Seq(Nat) BY DEF Shape, Tree, ParentsInside
  <2>2. PICK q : q = Append(t[n].items, k + 1) OBVIOUS
  <2>3. Len(q) # 0 BY <2>1, <2>2
  <2>4. q # <<>> BY <2>3
  <2> QED BY <1>4, <2>2, <2>4
<1> QED BY <1>1, <1>2, <1>3, <1>4, <1>5, <1>7, <1>8, <1>9 DEF Shape

LEMMA NewShape ==
    ASSUME NEW t, NEW c, Shape(t, c)
    PROVE  /\ Shape(NewTreeNode(t, Group("")), c)
           /\ Len(NewTreeNode(t, Group(""))) = Len(t) + 1
           /\ \A m \in 1..Len(t) : NewTreeNode(t, Group(""))[m] = t[m]
<1>0. PICK g : g = Group("") OBVIOUS
<1>1. PICK u : u = NewTreeNode(t, g) OBVIOUS
<1>2. PICK k \in Nat \ {0} : k = Len(t) BY DEF Shape, Tree
<1>3. Tree(u) BY <1>1, NewTree DEF Shape
<1>4. /\ Len(u) = k + 1
      /\ \A m \in 1..k : u[m] = t[m]
      /\ u[k + 1] = [tok |-> g, parent |-> NoNode, items |-> <<>>]
  BY <1>1, <1>2, NewNodes DEF Shape, Tree
<1>5. u[k + 1].tok = Group("")
  <2>1. PICK x : x = u[k + 1] OBVIOUS
  <2>2. x = [tok |-> g, parent |-> NoNode, items |-> <<>>] BY <1>4, <2>1
  <2>3. x.tok = g BY <2>2
  <2> QED BY <1>0, <2>1, <2>3
<1>6. Roots(u)
  <2>1. 1 \in 1..k BY <1>2
  <2>2. \A m \in 1..(k + 1) : m \in 1..k \/ m = k + 1 BY <1>2
  <2> QED BY <1>2, <1>4, <1>5, <2>1, <2>2 DEF Shape, Roots
<1>7. CallsAre(u, c)
  <2>1. \A m \in 1..k : m \in 1..(k + 1) OBVIOUS
  <2> QED BY <1>2, <1>4, <2>1 DEF Shape, CallsAre
<1> QED BY <1>0, <1>1, <1>2, <1>3, <1>4, <1>6, <1>7 DEF Shape

LEMMA PushShape ==
    ASSUME NEW t, NEW c, Shape(t, c), NEW n \in 1..Len(t), NEW tok, t[n].parent # NoNode
    PROVE  /\ Shape(Push(t, n, tok), c)
           /\ Len(Push(t, n, tok)) = Len(t) + 1
<1>1. PICK u : u = Push(t, n, tok) OBVIOUS
<1>2. PICK k \in Nat \ {0} : k = Len(t) BY DEF Shape, Tree
<1>3. Tree(u) BY <1>1, PushTree DEF Shape
<1>4. PICK p \in 1..k : p = t[n].parent BY <1>2 DEF Shape, Tree, ParentsInside
<1>5. p # n BY <1>4, NotOwnParent DEF Shape, Tree
<1>6. /\ Len(u) = k + 1
      /\ \A m \in 1..k : /\ u[m].tok = t[m].tok
                         /\ u[m].parent = IF m = n THEN k + 1 ELSE t[m].parent
      /\ u[k + 1] = [tok |-> tok, parent |-> p, items |-> <<n>>]
  <2>1. NodeSeq(t) /\ t[n].parent \in 1..Len(t) /\ t[n].parent # n
    BY <1>2, <1>4, <1>5 DEF Shape, Tree
  <2>2. /\ Len(u) = Len(t) + 1
        /\ \A m \in 1..Len(t) :
             /\ u[m].tok = t[m].tok
             /\ u[m].parent = IF m = n THEN Len(t) + 1 ELSE t[m].parent
             /\ u[m].items = IF m = t[n].parent
                             THEN [i \in DOMAIN t[m].items |->
                                     IF t[m].items[i] = n THEN Len(t) + 1 ELSE t[m].items[i]]
                             ELSE t[m].items
        /\ u[Len(t) + 1] = [tok |-> tok, parent |-> t[n].parent, items |-> <<n>>]
    BY <1>1, <2>1, PushNodes
  <2> QED BY <1>2, <1>4, <2>2
<1>7. u[k + 1].parent = p BY <1>6
<1>8. p # NoNode /\ k + 1 # NoNode BY <1>2, <1>4, FilterAssumption
<1>9. Roots(u)
  <2>0. t[1].parent = NoNode BY DEF Shape, Roots
  <2>1. 1 \in 1..k /\ 1 # n BY <1>2, <2>0
  <2>2. \A m \in 1..(k + 1) : m \in 1..k \/ m = k + 1 BY <1>2
  <2> QED BY <1>2, <1>6, <1>7, <1>8, <2>1, <2>2 DEF Shape, Roots
<1>10. CallsAre(u, c)
  <2>1. \A m \in 1..k : m \in 1..(k + 1) OBVIOUS
  <2> QED BY <1>2, <1>6, <2>1 DEF Shape, CallsAre
<1> QED BY <1>1, <1>2, <1>3, <1>6, <1>9, <1>10 DEF Shape

\* The last element of a node is one of its children.
LEMMA LastIsChild ==
    ASSUME NEW t, Tree(t), NEW n \in 1..Len(t), t[n].items # <<>>
    PROVE  LastElement(t, n) \in 1..Len(t) /\ t[LastElement(t, n)].parent # NoNode
<1>1. t[n].items \in Seq(Nat) BY DEF Tree, ParentsInside
<1>2. PICK l \in Nat \ {0} : l = Len(t[n].items) BY <1>1
<1>3. LastElement(t, n) = t[n].items[l] BY <1>2 DEF LastElement, Last
<1>4. t[n].items[l] \in 1..Len(t) /\ t[t[n].items[l]].parent = n
  BY <1>2 DEF Tree, ChildrenKnow
<1>5. n # NoNode BY FilterAssumption DEF Tree
<1> QED BY <1>3, <1>4, <1>5

\* From an operator one climbs to an operator.
LEMMA TopIsOperator ==
    ASSUME NEW t, Tree(t), NEW n \in 1..Len(t), t[n].tok.kind = "op"
    PROVE  TopOperator(t, n) \in 1..Len(t) /\ t[TopOperator(t, n)].tok.kind = "op"
<1>1. Len(t) \in Nat /\ DOMAIN t = 1..Len(t) BY DEF Tree, NodeSeq
<1>2. PICK ops : ops = {m \in DOMAIN t : t[m].tok.kind = "op"} OBVIOUS
<1>3. PICK up : up = [m \in ops |-> IF t[m].parent \in ops THEN t[m].parent ELSE m] OBVIOUS
<1>4. up \in [ops -> ops] BY <1>3
<1>5. n \in ops BY <1>1, <1>2
<1>6. Climb(up, n, Len(t)) \in ops BY <1>1, <1>4, <1>5, ClimbStays
<1>7. TopOperator(t, n) = Climb(up, n, Len(t)) BY <1>2, <1>3 DEF TopOperator
<1> QED BY <1>1, <1>2, <1>6, <1>7

\* From a node one climbs to a node, or off the tree.
LEMMA GroupIsNode ==
    ASSUME NEW t, Tree(t), NEW n \in 1..Len(t)
    PROVE  GroupAbove(t, n) \in (1..Len(t)) \cup {NoNode}
<1>1. Len(t) \in Nat /\ DOMAIN t = 1..Len(t) BY DEF Tree, NodeSeq
<1>2. PICK nodes : nodes = DOMAIN t \cup {NoNode} OBVIOUS
<1> DEFINE Stops(m) == IF m = NoNode THEN TRUE ELSE t[m].tok.kind = "group"
<1>3. PICK up : up = [m \in nodes |-> IF Stops(m) THEN m ELSE t[m].parent] OBVIOUS
<1>4. \A m \in nodes : ~Stops(m) => t[m].parent \in nodes
  BY <1>1, <1>2 DEF Tree, ParentsInside
<1>5. up \in [nodes -> nodes] BY <1>3, <1>4
<1>6. Climb(up, n, Len(t)) \in nodes BY <1>1, <1>2, <1>5, ClimbStays
<1>7. GroupAbove(t, n) = Climb(up, n, Len(t)) BY <1>2, <1>3 DEF GroupAbove
<1> QED BY <1>1, <1>2, <1>6, <1>7

\* Wherever parseOperator puts an operator, it pushes down a node that has a
\* parent.
LEMMA ParseOperatorShape ==
    ASSUME NEW t, NEW c, Shape(t, c), NEW n \in 1..Len(t), t[n].items # <<>>, NEW op
    PROVE  /\ Shape(ParseOperator(t, n, op).t, c)
           /\ ParseOperator(t, n, op).n \in 1..Len(ParseOperator(t, n, op).t)
<1>1. PICK r : r = ParseOperator(t, n, op) OBVIOUS
<1>2. PICK last : last = LastElement(t, n) OBVIOUS
<1>3. PICK top : top = TopOperator(t, n) OBVIOUS
<1>4. PICK o : o = Op(op) OBVIOUS
<1> DEFINE PushOn(m) == [t |-> Push(t, m, o), n |-> Fresh(t)]
<1>5. \/ r = [t |-> t, n |-> n]
      \/ r = PushOn(last)
      \/ t[n].tok.kind = "op" /\ r = PushOn(n)
      \/ t[n].tok.kind = "op" /\ r = PushOn(top)
  BY <1>1, <1>2, <1>3, <1>4 DEF ParseOperator
<1>6. ASSUME NEW m \in 1..Len(t), t[m].parent # NoNode, r = PushOn(m)
      PROVE  Shape(r.t, c) /\ r.n \in 1..Len(r.t)
  <2>1. PICK u : u = Push(t, m, o) OBVIOUS
  <2>2. Shape(u, c) /\ Len(u) = Len(t) + 1 BY <1>6, <2>1, PushShape
  <2>3. r.t = u /\ r.n = Len(t) + 1 BY <1>6, <2>1 DEF Fresh
  <2>4. Len(t) + 1 \in 1..(Len(t) + 1) BY DEF Shape, Tree
  <2> QED BY <2>2, <2>3, <2>4
<1>7. CASE r = [t |-> t, n |-> n] BY <1>1, <1>7
<1>8. CASE r = PushOn(last)
  <2>1. last \in 1..Len(t) /\ t[last].parent # NoNode BY <1>2, LastIsChild DEF Shape
  <2> QED BY <1>1, <1>6, <1>8, <2>1
<1>9. CASE t[n].tok.kind = "op" /\ r = PushOn(n)
  <2>1. t[n].parent # NoNode BY <1>9, HasParent DEF Shape
  <2> QED BY <1>1, <1>6, <1>9, <2>1
<1>10. CASE t[n].tok.kind = "op" /\ r = PushOn(top)
  <2>1. top \in 1..Len(t) /\ t[top].tok.kind = "op" BY <1>3, <1>10, TopIsOperator DEF Shape
  <2>2. t[top].parent # NoNode BY <2>1, HasParent DEF Shape
  <2> QED BY <1>1, <1>6, <1>10, <2>1, <2>2
<1> QED BY <1>5, <1>7, <1>8, <1>9, <1>10

ParserInv == Shape(tree, calls) /\ CurrentValid

LEMMA ParserInit == FilterInit => ParserInv
<1> SUFFICES ASSUME FilterInit PROVE ParserInv OBVIOUS
<1>1. PICK e : e = Empty OBVIOUS
<1>2. PICK x : x = [tok |-> e, parent |-> NoNode, items |-> <<>>] OBVIOUS
<1>3. tree = <<x>> /\ curr = 1 /\ calls = <<>> /\ state = "value"
  BY <1>1, <1>2 DEF FilterInit, Root0
<1>4. x.tok = e /\ x.parent = NoNode /\ x.items = <<>> BY <1>2
<1>5. Len(tree) = 1 /\ tree[1] = x /\ DOMAIN tree = 1..1 BY <1>3
<1>6. NodeSeq(tree)
  <2>1. <<>> \in Seq(Nat) OBVIOUS
  <2>2. x \in NodeOver({e}) BY <1>2, <2>1 DEF NodeOver
  <2>3. <<x>> \in Seq(NodeOver({e})) BY <2>2
  <2> QED BY <1>3, <2>3 DEF NodeSeq
<1>7. \A m \in 1..Len(tree) : m = 1 BY <1>5
<1>8. ParentsInside(tree)
  <2>1. <<>> \in Seq(Nat) OBVIOUS
  <2> QED BY <1>4, <1>5, <1>7, <2>1 DEF ParentsInside
<1>9. ChildrenKnow(tree) /\ ChildrenOnce(tree)
  <2>1. Len(tree[1].items) = 0 BY <1>4, <1>5
  <2> QED BY <1>7, <2>1 DEF ChildrenKnow, ChildrenOnce
<1>10. ParentsKnow(tree) BY <1>4, <1>5, <1>7 DEF ParentsKnow
<1>11. NoCycle(tree)
  <2> SUFFICES ASSUME NEW S \in SUBSET (1..Len(tree)), S # {}
               PROVE  \E m \in S : tree[m].parent \notin S
    BY DEF NoCycle
  <2>0. \A m \in S : m = 1 BY <1>7
  <2>1. S = {1} BY <2>0
  <2>2. NoNode # 1 BY FilterAssumption
  <2> QED BY <1>4, <1>5, <2>1, <2>2
<1>12. Tree(tree) BY <1>5, <1>6, <1>8, <1>9, <1>10, <1>11 DEF Tree
<1>13. Roots(tree) BY <1>1, <1>4, <1>5, <1>7 DEF Roots
<1>14. CallsAre(tree, calls)
  <2>1. <<>> \in Seq(Nat) /\ Len(<<>>) = 0 OBVIOUS
  <2> QED BY <1>3, <2>1 DEF CallsAre
<1>15. CurrentValid BY <1>3, <1>5 DEF CurrentValid
<1> QED BY <1>12, <1>13, <1>14, <1>15 DEF ParserInv, Shape

\* Steps that only read.
LEMMA ReadInv ==
    ASSUME ParserInv, UNCHANGED <<tree, curr, calls>>, state' \in {state, "nil", "error", "tree"}
    PROVE  ParserInv'
<1>1. Shape(tree', calls') BY DEF ParserInv
<1>2. CurrentValid' BY DEF ParserInv, CurrentValid
<1> QED BY <1>1, <1>2 DEF ParserInv

\* A value or a bracket becomes a child of the current node.
LEMMA ValueInv == ParserInv /\ ValuePart => ParserInv'
<1> SUFFICES ASSUME ParserInv, ValuePart PROVE ParserInv' OBVIOUS
<1>1. PICK k \in Nat \ {0} : k = Len(tree) /\ DOMAIN tree = 1..k /\ curr \in 1..k
  BY DEF ParserInv, Shape, Tree, NodeSeq, CurrentValid
<1>2. ASSUME NEW x, tree' = Add(tree, curr, Value(x)), state' = "operator",
             UNCHANGED <<curr, calls>>
      PROVE  ParserInv'
  <2>1. /\ Shape(tree', calls) /\ Len(tree') = k + 1 /\ tree'[curr].items # <<>>
    BY <1>1, <1>2, AddShape DEF ParserInv
  <2>2. DOMAIN tree' = 1..(k + 1) BY <2>1 DEF Shape, Tree, NodeSeq
  <2> QED BY <1>1, <1>2, <2>1, <2>2 DEF ParserInv, CurrentValid
<1>3. ASSUME tree' = Add(tree, curr, Group("()")), curr' = Fresh(tree),
             UNCHANGED <<calls, state>>, state = "value"
      PROVE  ParserInv'
  <2>1. Shape(tree', calls) /\ Len(tree') = k + 1
    BY <1>1, <1>3, AddShape DEF ParserInv
  <2>2. DOMAIN tree' = 1..(k + 1) BY <2>1 DEF Shape, Tree, NodeSeq
  <2>3. curr' \in DOMAIN tree' BY <1>1, <1>3, <2>2 DEF Fresh
  <2> QED BY <1>3, <2>1, <2>3 DEF ParserInv, CurrentValid
<1>4. CASE UNCHANGED <<tree, curr, calls>> /\ state' \in {"nil", "error"}
  BY <1>4, ReadInv
<1> QED BY <1>2, <1>3, <1>4 DEF ValuePart, Panic

\* A call becomes a child, and its first argument a node of its own.
LEMMA CallInv == ParserInv /\ CallPart => ParserInv'
<1> SUFFICES ASSUME ParserInv, CallPart PROVE ParserInv' OBVIOUS
<1>1. PICK k \in Nat \ {0} : k = Len(tree) /\ curr \in 1..k
  BY DEF ParserInv, Shape, Tree, NodeSeq, CurrentValid
<1>2. PICK f : f = Func(Peek) OBVIOUS
<1>3. PICK u : u = Add(tree, curr, f) OBVIOUS
<1>4. Shape(u, calls) /\ Len(u) = k + 1 /\ u[k + 1].tok = f
  BY <1>1, <1>3, AddShape DEF ParserInv
<1>5. tree' = NewTreeNode(u, Group("")) /\ curr' = k + 2 /\ calls' = Append(calls, k + 1)
      /\ state' = "value"
  BY <1>1, <1>2, <1>3 DEF CallPart
<1>6. Shape(tree', calls) /\ Len(tree') = k + 2 /\ tree'[k + 1] = u[k + 1]
  <2>1. /\ Shape(tree', calls) /\ Len(tree') = Len(u) + 1
        /\ \A m \in 1..Len(u) : tree'[m] = u[m]
    BY <1>4, <1>5, NewShape
  <2>2. k + 1 \in 1..Len(u) BY <1>4
  <2> QED BY <1>4, <2>1, <2>2
<1>7. tree'[k + 1].tok.kind = "func" BY <1>2, <1>4, <1>6 DEF Func
<1>8. CallsAre(tree', calls')
  <2>1. calls \in Seq(Nat) BY <1>6 DEF Shape, CallsAre
  <2>2. PICK l \in Nat : l = Len(calls) BY <2>1
  <2>3. /\ calls' \in Seq(Nat) /\ Len(calls') = l + 1 /\ calls'[l + 1] = k + 1
        /\ \A i \in 1..l : calls'[i] = calls[i]
    <3>1. PICK d \in Nat : d = k + 1 OBVIOUS
    <3>2. PICK c : c = Append(calls, d) OBVIOUS
    <3>3. /\ c \in Seq(Nat) /\ Len(c) = l + 1 /\ c[l + 1] = d
          /\ \A i \in 1..l : c[i] = calls[i]
      BY <2>1, <2>2, <3>2
    <3> QED BY <1>5, <3>1, <3>2, <3>3
  <2>4. \A i \in 1..l : calls[i] \in 1..Len(tree') /\ tree'[calls[i]].tok.kind = "func"
    BY <1>6, <2>2 DEF Shape, CallsAre
  <2>5. k + 1 \in 1..Len(tree') BY <1>6
  <2>6. \A i \in 1..(l + 1) : i \in 1..l \/ i = l + 1 BY <2>2
  <2> QED BY <1>7, <2>3, <2>4, <2>5, <2>6 DEF CallsAre
<1>9. curr' \in DOMAIN tree'
  <2>1. DOMAIN tree' = 1..Len(tree') BY <1>6 DEF Shape, Tree, NodeSeq
  <2>2. k + 2 \in 1..(k + 2) BY <1>1
  <2> QED BY <1>5, <1>6, <2>1, <2>2
<1> QED BY <1>5, <1>6, <1>8, <1>9 DEF ParserInv, Shape, CurrentValid

\* An operator is put where it belongs; a closing bracket goes back to a node
\* that has the bracket among its children.
LEMMA OperatorInv == ParserInv /\ OperatorPart => ParserInv'
<1> SUFFICES ASSUME ParserInv, OperatorPart PROVE ParserInv' OBVIOUS
<1>1. PICK k \in Nat \ {0} : k = Len(tree) /\ DOMAIN tree = 1..k /\ curr \in 1..k
  BY DEF ParserInv, Shape, Tree, NodeSeq, CurrentValid
<1>2. state = "operator" /\ tree[curr].items # <<>>
  BY DEF OperatorPart, ParserInv, CurrentValid
<1>3. ASSUME NEW op, tree' = ParseOperator(tree, curr, op).t,
             curr' = ParseOperator(tree, curr, op).n, state' = "value", UNCHANGED calls
      PROVE  ParserInv'
  <2>1. Shape(tree', calls) /\ curr' \in 1..Len(tree')
    BY <1>1, <1>2, <1>3, ParseOperatorShape DEF ParserInv
  <2>2. DOMAIN tree' = 1..Len(tree') BY <2>1 DEF Shape, Tree, NodeSeq
  <2> QED BY <1>3, <2>1, <2>2 DEF ParserInv, CurrentValid
<1>4. PICK g : g = GroupAbove(tree, curr) OBVIOUS
<1>5. g \in (1..k) \cup {NoNode} BY <1>1, <1>4, GroupIsNode DEF ParserInv, Shape
<1>6. ASSUME g # NoNode, tree[g].tok.name = "()", curr' = tree[g].parent,
             UNCHANGED <<tree, calls, state>>
      PROVE  ParserInv'
  <2>1. g \in 1..k BY <1>5, <1>6
  <2>2. Empty.name = "" /\ Group("").name = "" BY DEF Empty, Group
  <2>3. tree[g].tok # Empty /\ tree[g].tok # Group("") BY <1>6, <2>2
  <2>4. tree[g].parent # NoNode
    BY <1>1, <2>1, <2>3 DEF ParserInv, Shape, Roots
  <2>5. PICK p \in 1..k : p = tree[g].parent
    BY <1>1, <2>1, <2>4 DEF ParserInv, Shape, Tree, ParentsInside
  <2>6. PICK i \in 1..Len(tree[p].items) : tree[p].items[i] = g
    BY <1>1, <2>1, <2>4, <2>5 DEF ParserInv, Shape, Tree, ParentsKnow
  <2>7. tree[p].items # <<>> BY <2>6
  <2>8. Shape(tree', calls') BY <1>6 DEF ParserInv
  <2> QED BY <1>1, <1>6, <2>5, <2>7, <2>8 DEF ParserInv, CurrentValid
<1>7. ASSUME g # NoNode, state' = "nil", curr' = g, UNCHANGED <<tree, calls>>
      PROVE  ParserInv'
  <2>1. g \in 1..k BY <1>5, <1>7
  <2>2. Shape(tree', calls') BY <1>7 DEF ParserInv
  <2> QED BY <1>1, <1>7, <2>1, <2>2 DEF ParserInv, CurrentValid
<1>8. CASE UNCHANGED <<tree, curr, calls>> /\ state' \in {"nil", "error"}
  BY <1>8, ReadInv
<1> QED BY <1>3, <1>4, <1>6, <1>7, <1>8 DEF OperatorPart, Panic, Take

\* The end of an argument: the next one, or back to the node of the call.
LEMMA ArgumentInv == ParserInv /\ Argument => ParserInv'
<1> SUFFICES ASSUME ParserInv, Argument PROVE ParserInv' OBVIOUS
<1>1. PICK k \in Nat \ {0} : k = Len(tree) /\ DOMAIN tree = 1..k /\ curr \in 1..k
  BY DEF ParserInv, Shape, Tree, NodeSeq, CurrentValid
<1>2. CASE tree' = NewTreeNode(tree, Group("")) /\ curr' = Fresh(tree)
           /\ state' = "value" /\ UNCHANGED calls
  <2>1. Shape(tree', calls) /\ Len(tree') = k + 1 BY <1>1, <1>2, NewShape DEF ParserInv
  <2>2. DOMAIN tree' = 1..(k + 1) BY <2>1 DEF Shape, Tree, NodeSeq
  <2>0. curr' = Fresh(tree) BY <1>2
  <2>3. curr' = k + 1 /\ k + 1 \in 1..(k + 1) BY <1>1, <2>0 DEF Fresh
  <2> QED BY <1>2, <2>1, <2>2, <2>3 DEF ParserInv, CurrentValid
<1>3. CASE curr' = tree[Last(calls)].parent /\ calls' = Front(calls)
           /\ state' = "operator" /\ UNCHANGED tree
  <2>1. calls # <<>> /\ calls \in Seq(Nat)
    BY DEF Argument, ParserInv, Shape, CallsAre
  <2>2. PICK l \in Nat \ {0} : l = Len(calls) BY <2>1
  <2>3. PICK c \in 1..k : c = Last(calls) /\ tree[c].tok.kind = "func"
    BY <1>1, <2>2 DEF Last, ParserInv, Shape, CallsAre
  <2>4. tree[c].parent # NoNode BY <1>1, <2>3, HasParent DEF ParserInv, Shape
  <2>5. PICK p \in 1..k : p = tree[c].parent
    BY <1>1, <2>3, <2>4 DEF ParserInv, Shape, Tree, ParentsInside
  <2>6. PICK i \in 1..Len(tree[p].items) : tree[p].items[i] = c
    BY <1>1, <2>3, <2>4, <2>5 DEF ParserInv, Shape, Tree, ParentsKnow
  <2>7. tree[p].items # <<>> BY <2>6
  <2>8. /\ calls' \in Seq(Nat) /\ Len(calls') = l - 1
        /\ \A j \in 1..(l - 1) : calls'[j] = calls[j]
    BY <1>3, <2>1, <2>2 DEF Front
  <2>9. CallsAre(tree', calls')
    <3>1. \A j \in 1..(l - 1) : j \in 1..l BY <2>2
    <3> QED BY <1>3, <2>2, <2>8, <3>1 DEF ParserInv, Shape, CallsAre
  <2>10. Tree(tree') /\ Roots(tree') BY <1>3 DEF ParserInv, Shape
  <2> QED BY <1>1, <1>3, <2>3, <2>5, <2>7, <2>9, <2>10 DEF ParserInv, Shape, CurrentValid
<1>4. CASE UNCHANGED <<tree, curr, calls>> /\ state' = "error"
  BY <1>4, ReadInv
<1> QED BY <1>2, <1>3, <1>4 DEF Argument

LEMMA ParserNext == ParserInv /\ [FilterNext]_fvars => ParserInv'
<1> SUFFICES ASSUME ParserInv, [FilterNext]_fvars PROVE ParserInv' OBVIOUS
<1>1. CASE Pump BY <1>1, ReadInv DEF Pump
<1>2. CASE UNCHANGED fvars BY <1>2, ReadInv DEF fvars
<1> QED BY <1>1, <1>2, ValueInv, CallInv, OperatorInv, ArgumentInv DEF FilterNext

\* The inductive invariant says what TreeWellFormed says.
LEMMA ParserWellFormed == ParserInv => TreeWellFormed
<1> SUFFICES ASSUME ParserInv PROVE TreeWellFormed OBVIOUS
<1>1. PICK k \in Nat \ {0} : k = Len(tree) /\ DOMAIN tree = 1..k
  BY DEF ParserInv, Shape, Tree, NodeSeq
<1>2. \A m \in 1..k : DOMAIN tree[m].items = 1..Len(tree[m].items)
  BY <1>1 DEF ParserInv, Shape, Tree, ParentsInside
<1>3. ASSUME NEW n \in 1..k, tree[n].parent # NoNode
      PROVE  \E i \in DOMAIN tree[tree[n].parent].items :
                \A j \in DOMAIN tree[tree[n].parent].items :
                   tree[tree[n].parent].items[j] = n <=> j = i
  <2>1. PICK p \in 1..k : p = tree[n].parent
    BY <1>1, <1>3 DEF ParserInv, Shape, Tree, ParentsInside
  <2>2. PICK i \in 1..Len(tree[p].items) : tree[p].items[i] = n
    BY <1>1, <1>3, <2>1 DEF ParserInv, Shape, Tree, ParentsKnow
  <2>3. \A j \in 1..Len(tree[p].items) : tree[p].items[j] = n => j = i
    BY <1>1, <2>2 DEF ParserInv, Shape, Tree, ChildrenOnce
  <2> QED BY <1>2, <2>1, <2>2, <2>3
<1>4. \A n \in 1..k : \A i \in DOMAIN tree[n].items : tree[tree[n].items[i]].parent = n
  BY <1>1, <1>2 DEF ParserInv, Shape, Tree, ChildrenKnow
<1>5. ParentsAgree BY <1>1, <1>3, <1>4 DEF ParentsAgree
<1>6. Rooted BY <1>1 DEF ParserInv, Shape, Roots, Rooted
<1> QED BY <1>5, <1>6 DEF ParserInv, TreeWellFormed

\* For inputs of any length: the parser's tree is a tree with one root at every
\* step, arguments of functions aside, and the parser never looks for a parent
\* or for a last element that does not exist (parse.go:74-156).
THEOREM FilterTreesIntact == FilterInit /\ [][FilterNext]_fvars => []TreeWellFormed
<1> QED BY ParserInit, ParserNext, ParserWellFormed, PTL

\* For inputs of any length: no pointers of the tree go round in a circle, so
\* that the loops that climb it (parse.go:76, parse.go:134) end.
THEOREM FilterTreesEnd == FilterInit /\ [][FilterNext]_fvars => []NoCycle(tree)
<1>1. ParserInv => NoCycle(tree) BY DEF ParserInv, Shape, Tree
<1> QED BY <1>1, ParserInit, ParserNext, PTL

=============================================================================
