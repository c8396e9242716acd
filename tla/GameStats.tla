----------------------------- MODULE GameStats ------------------------------
(***************************************************************************)
(* GameStats, gamestats/main.go, auth.go, getpd.go, setpd.go: clients log  *)
(* in with the token they got from NAS and read and write public data.     *)
(*                                                                         *)
(* A command is two units of a TCP stream, its text and the terminator     *)
(* \final\; the k-th command of a connection is <<k, "text">>, <<k, "final">>.*)
(* A buffer that ends with a terminator is handled as a whole, command type *)
(* by command type, and its answers are sent together.  After a dropped    *)
(* fragment a message is the text it begins with; one without any has no   *)
(* command name and is not counted.  Every statement of                    *)
(* the database is a step of its own.  The frontend forwards the fragments *)
(* of a connection one after the other, and restarts the backend only when *)
(* no call is under way.                                                   *)
(***************************************************************************)
EXTENDS Integers, Sequences, FiniteSets

CONSTANTS
    GConn,          \* connections
    GBatching,      \* those whose client does not wait for its answers
    GMay,           \* GMay[c][k]: the commands c's client may send as its k-th
    GLimit,         \* 0x4000, in units
    GMaxSent        \* bound: commands per connection

ASSUME GameStatsAssumption ==
    /\ GBatching \subseteq GConn
    /\ GLimit \in Nat /\ GMaxSent \in Nat
    /\ GMay \in [GConn -> [1..GMaxSent -> SUBSET {"ka", "auth", "authp", "getpd", "setpd"}]]

VARIABLES
    gsent,          \* per connection, the commands its client sent
    gwire,          \* per connection, sent units the frontend has not read
    gs,             \* sessionsByConnIndex
    gopen,          \* the connections that are open
    grun,           \* per connection, the commands a call has still to handle,
                    \* a set: their order is First
    gcheck,         \* per connection, what setpd's SELECT found
    got,            \* per connection, the answers its client received
    pdata,          \* the public data of the one profile: who wrote it last
    gknown,         \* the connections that have a session
    gstuck          \* StartServer waits for rpcMutex, which is held until it ends

gvars == <<gsent, gwire, gs, gopen, grun, gcheck, got, pdata, gknown, gstuck>>

\* A session: whether gameInfo is set, Authenticated, ReadBuffer, WriteBuffer.
NewSession == [game |-> FALSE, auth |-> FALSE, read |-> <<>>, write |-> <<>>]
NoRow == <<>>

StatsInit ==
    /\ gsent = [c \in GConn |-> <<>>]
    /\ gwire = [c \in GConn |-> <<>>]
    /\ gs = [c \in GConn |-> NewSession]
    /\ gopen = GConn
    /\ grun = [c \in GConn |-> {}]
    /\ gcheck = [c \in GConn |-> "none"]
    /\ got = [c \in GConn |-> <<>>]
    /\ pdata = NoRow
    /\ gknown = GConn
    /\ gstuck = FALSE

\* A client sends a command; unless it batches, it waits for its answers.
Send(c, cmd) ==
    /\ c \in gopen /\ Len(gsent[c]) < GMaxSent
    /\ cmd \in GMay[c][Len(gsent[c]) + 1]
    /\ c \in GBatching \/ Len(got[c]) = Len(gsent[c])
    /\ gsent' = [gsent EXCEPT ![c] = Append(@, cmd)]
    /\ LET k == Len(gsent[c]) + 1 IN
       gwire' = [gwire EXCEPT ![c] = @ \o <<<<k, "text">>, <<k, "final">>>>]
    /\ UNCHANGED <<gs, gopen, grun, gcheck, got, pdata, gknown, gstuck>>

\* The messages of a buffer: what its terminators divide it into.
ParseGameStatsMessage(buf) ==
    {buf[i][1] : i \in {j \in DOMAIN buf : buf[j][2] = "text" /\ (j = 1 \/ buf[j - 1][2] = "final")}}

\* The calls of handleCommand, in their order.  Each takes the commands of one
\* name, in the order in which they came.
CommandOrder == [ka |-> 1, auth |-> 2, authp |-> 3, getpd |-> 4, setpd |-> 5]

First(c) ==
    {k \in grun[c] : \A j \in grun[c] :
        \/ CommandOrder[gsent[c][k]] < CommandOrder[gsent[c][j]]
        \/ gsent[c][k] = gsent[c][j] /\ k <= j}

\* A complete buffer is decrypted and emptied.
Decrypt(c, buf) == gs' = [gs EXCEPT ![c].read = <<>>]

\* HandlePacket up to the parsed commands.  A fragment that does not fit, or of a
\* connection without a session, is dropped; the buffer stays as it is.
ReadPacket(c) ==
    /\ c \in gopen /\ grun[c] = {} /\ ~gstuck
    /\ \E n \in 1..Len(gwire[c]) :
         LET buf == gs[c].read \o SubSeq(gwire[c], 1, n) IN
         /\ gwire' = [gwire EXCEPT ![c] = SubSeq(@, n + 1, Len(@))]
         /\ IF Len(buf) > GLimit \/ c \notin gknown THEN UNCHANGED <<gs, grun>>
            ELSE IF buf[Len(buf)][2] # "final"
            THEN gs' = [gs EXCEPT ![c].read = buf] /\ UNCHANGED grun
            ELSE Decrypt(c, buf) /\ grun' = [grun EXCEPT ![c] = ParseGameStatsMessage(buf)]
    /\ UNCHANGED <<gsent, gopen, gcheck, got, pdata, gknown, gstuck>>

\* The client gets what is sent while its socket is open.
Sent(c, w) == got' = IF c \in gopen THEN [got EXCEPT ![c] = @ \o w] ELSE got

\* Mutant: answers are written to the buffer and stay there.
AnswerKept(c, s, a) ==
    /\ grun' = [grun EXCEPT ![c] = @ \ {a[1]}]
    /\ gs' = [gs EXCEPT ![c] = [s EXCEPT !.write = Append(@, a)]]
    /\ UNCHANGED got

\* Mutant: the WriteBuffer is not emptied when it was sent.
AnswerRepeated(c, s, a) ==
    LET w == Append(s.write, a) IN
    /\ grun' = [grun EXCEPT ![c] = @ \ {a[1]}]
    /\ gs' = [gs EXCEPT ![c] = [s EXCEPT !.write = w]]
    /\ IF grun[c] = {a[1]} THEN Sent(c, w) ELSE UNCHANGED got

\* A command is done: its answer a = <<k, what>> goes to the WriteBuffer, which is
\* sent with the last one.
Answer(c, s, a) ==
    LET w == Append(s.write, a) IN
    /\ grun' = [grun EXCEPT ![c] = @ \ {a[1]}]
    /\ IF grun[c] = {a[1]}
       THEN gs' = [gs EXCEPT ![c] = [s EXCEPT !.write = <<>>]] /\ Sent(c, w)
       ELSE gs' = [gs EXCEPT ![c] = [s EXCEPT !.write = w]] /\ UNCHANGED got

\* The command that is handled now, if it is a cmd.
Doing(c, cmd) == {k \in First(c) : gsent[c][k] = cmd}
NoData(c) == UNCHANGED <<gsent, gwire, gcheck, pdata, gknown, gstuck>>

HandleKa(c) ==
    /\ \E k \in Doing(c, "ka") : Answer(c, gs[c], <<k, "ok">>)
    /\ NoData(c) /\ UNCHANGED gopen

\* replyError with a fatal error: the socket is closed, and the frontend's
\* CloseConnection follows when HandlePacket has returned.  The commands in left
\* are still handled.
Fatal(c, left) ==
    /\ gopen' = gopen \ {c}
    /\ grun' = [grun EXCEPT ![c] = left]
    /\ UNCHANGED <<gs, got>>

\* CloseConnection deletes the session.
CloseStats(c) ==
    /\ c \in gknown \ gopen /\ grun[c] = {} /\ ~gstuck
    /\ gknown' = gknown \ {c}
    /\ gs' = [gs EXCEPT ![c] = NewSession]
    /\ UNCHANGED <<gsent, gwire, gopen, grun, gcheck, got, pdata, gstuck>>

\* auth: the game is in the list, or the connection is closed, and the other
\* commands of the packet are handled.
HandleAuth(c, known) ==
    /\ \E k \in Doing(c, "auth") :
         IF known
         THEN Answer(c, [gs[c] EXCEPT !.game = TRUE], <<k, "ok">>) /\ UNCHANGED gopen
         ELSE Fatal(c, grun[c] \ {k})
    /\ NoData(c)

\* authp: the token is good, or it is refused.  Before auth, a good one panics
\* after Authenticated has been set; HandlePacket recovers and returns.
HandleAuthp(c, good) ==
    /\ \E k \in Doing(c, "authp") :
         IF ~good
         THEN Answer(c, gs[c], <<k, "refused">>)
         ELSE IF gs[c].game
         THEN Answer(c, [gs[c] EXCEPT !.auth = TRUE], <<k, "ok">>)
         ELSE /\ gs' = [gs EXCEPT ![c].auth = TRUE]
              /\ grun' = [grun EXCEPT ![c] = {}]
              /\ UNCHANGED got
    /\ NoData(c) /\ UNCHANGED gopen

\* The commands after authp need a login.
NotLoggedIn(c) ==
    /\ Doing(c, "getpd") # {} \/ Doing(c, "setpd") # {}
    /\ ~gs[c].auth
    /\ Fatal(c, {})
    /\ NoData(c)

HandleGetpd(c) ==
    /\ gs[c].auth
    /\ \E k \in Doing(c, "getpd") : Answer(c, gs[c], <<k, pdata>>)
    /\ NoData(c) /\ UNCHANGED gopen

\* setpd's SELECT decides between INSERT and UPDATE.
SetpdSelect(c) ==
    /\ Doing(c, "setpd") # {} /\ gs[c].auth /\ gcheck[c] = "none"
    /\ gcheck' = [gcheck EXCEPT ![c] = IF pdata = NoRow THEN "insert" ELSE "update"]
    /\ UNCHANGED <<gsent, gwire, gs, gopen, grun, got, pdata, gknown, gstuck>>

\* The INSERT fails when another connection of the profile inserted first
\* (one_pdata_constraint).
Store(c, k) ==
    IF gcheck[c] = "insert" /\ pdata # NoRow
    THEN Answer(c, gs[c], <<k, "refused">>) /\ UNCHANGED pdata
    ELSE Answer(c, gs[c], <<k, "ok">>) /\ pdata' = <<c, k>>

SetpdStore(c) ==
    /\ gcheck[c] # "none"
    /\ \E k \in Doing(c, "setpd") : Store(c, k)
    /\ gcheck' = [gcheck EXCEPT ![c] = "none"]
    /\ UNCHANGED <<gsent, gwire, gopen, gknown, gstuck>>

\* The backend restarts, in one of the three ways of ServerBrowser's StartServer.
\* With "load", StartServer closes the connection of a session without a game, one
\* that has not sent auth: the call waits for rpcMutex, which is held until all
\* servers have started, and nothing is forwarded any more.  With "empty" the
\* connections stay open, without their sessions.
StatsReload(state) ==
    /\ \A c \in GConn : grun[c] = {}
    /\ ~gstuck
    /\ \/ /\ state = "load"
          /\ gstuck' = (\E c \in gknown : ~gs[c].game)
          /\ UNCHANGED <<gs, gopen, gknown>>
       \/ /\ state \in {"reset", "empty"}
          /\ gknown' = {}
          /\ gs' = [c \in GConn |-> NewSession]
          /\ gopen' = IF state = "reset" THEN {} ELSE gopen
          /\ UNCHANGED gstuck
    /\ UNCHANGED <<gsent, gwire, grun, gcheck, got, pdata>>

StatsNext ==
    \/ \E c \in GConn :
         \/ \E cmd \in DOMAIN CommandOrder : Send(c, cmd)
         \/ ReadPacket(c) \/ HandleKa(c) \/ NotLoggedIn(c) \/ HandleGetpd(c)
         \/ \E b \in BOOLEAN : HandleAuth(c, b) \/ HandleAuthp(c, b)
         \/ SetpdSelect(c) \/ SetpdStore(c) \/ CloseStats(c)
    \/ \E state \in {"load", "reset", "empty"} : StatsReload(state)

\* Handlers run to their end; TCP delivers.
Handle(c) ==
    \/ ReadPacket(c) \/ HandleKa(c) \/ NotLoggedIn(c) \/ HandleGetpd(c)
    \/ SetpdSelect(c) \/ SetpdStore(c)
    \/ \E b \in BOOLEAN : HandleAuth(c, b) \/ HandleAuthp(c, b)

StatsFairness == \A c \in GConn : WF_gvars(Handle(c))

-----------------------------------------------------------------------------
(* Properties.                                                              *)

\* The answers a client receives are for different commands of its own, and if
\* the client waits for them they come in the order of the commands; one is
\* missing only if it was for an authp before auth (auth.go:88).
AnswersMatch ==
    \A c \in GConn :
        /\ \A i, j \in DOMAIN got[c] : i # j => got[c][i][1] # got[c][j][1]
        /\ c \notin GBatching => \A i \in DOMAIN got[c] : got[c][i][1] = i

\* The value in the database is one that some client wrote, and a client that
\* was told that its value is stored reads that one or a later one, never no
\* row, although SELECT and INSERT are two statements (setpd.go:82-103).
StoredIsStored ==
    \A c \in GConn :
        /\ \A i \in DOMAIN got[c] :
             gsent[c][got[c][i][1]] = "setpd" /\ got[c][i][2] = "ok" => pdata # NoRow
        /\ c \notin GBatching =>
             \A i, j \in DOMAIN got[c] :
                 i < j /\ gsent[c][i] = "setpd" /\ got[c][i][2] = "ok" /\ gsent[c][j] = "getpd"
                 => got[c][j][2] # NoRow

\* Every command of a client that waits for its answers is answered, whatever
\* the fragments and the restarts, or its connection is closed, or it was an
\* authp on a connection without a game.  Two restarts break this: one without a
\* saved state forgets the session of a connection that stays open, and one with
\* a session that has not sent auth does not end (gamestats/main.go:87-94).
CommandsAnswered ==
    \A c \in GConn \ GBatching :
        Len(got[c]) < Len(gsent[c]) ~>
            \/ Len(got[c]) = Len(gsent[c]) \/ c \notin gopen
            \/ gs[c].auth /\ ~gs[c].game
            \/ c \notin gknown \/ gstuck

\* Every answer is the one to its own command, in order, and a record that was
\* acknowledged is stored (main.go:175-298, setpd.go:73-114).
StatsInv == AnswersMatch /\ StoredIsStored

=============================================================================
