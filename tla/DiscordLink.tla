---------------------------- MODULE DiscordLink ----------------------------
(***************************************************************************)
(* Linking a profile with a Discord ID: HandleLink (api/link.go), with the *)
(* link stage in the profile's GPCM session (gpcm/profile.go), the friend  *)
(* request to the bot (gpcm/friend.go), and the ID in the table of users.  *)
(*                                                                         *)
(* One profile.  A request reads the session, the table, writes the session *)
(* and the table, each under its own lock, so that other requests, friend   *)
(* requests and logins come between.                                       *)
(***************************************************************************)
EXTENDS Naturals, FiniteSets

CONSTANTS
    LRequests,      \* requests that may be handled at a time
    LIDs,           \* Discord IDs
    NoDiscord       \* ""

ASSUME LinkAssumption == NoDiscord \notin LIDs

VARIABLES
    lsession,       \* the profile's session: LinkStage and DiscordID
    ldb,            \* DiscordID in the table
    lreq,           \* the requests
    lbot,           \* a friend request to the bot has seen a link that was started
    agreed,         \* history: the IDs on the session when the player's friend request moved its link on
    foreign,        \* history: the IDs that a check named while the session's link was of another ID
    forced,         \* history: the ID in the table comes from a forced link
    apart,          \* history: the last request, if no other one was running when it began
    disturbed       \* history: since session and table were last written by a request that
                    \* ran apart, requests overlapped, one failed half-way or was a reset

histories == <<agreed, foreign, forced, apart, disturbed>>
lvars == <<lsession, ldb, lreq, lbot, histories>>

NoSession == [on |-> FALSE, stage |-> "none", id |-> NoDiscord]
NoRequest == [pc |-> "idle", action |-> "none", id |-> NoDiscord]
Running == {q \in LRequests : lreq[q].pc # "idle"}

LinkInit ==
    /\ lsession = NoSession
    /\ ldb = NoDiscord
    /\ lreq = [q \in LRequests |-> NoRequest]
    /\ lbot = FALSE
    /\ agreed = {} /\ foreign = {} /\ forced = FALSE /\ apart = {} /\ disturbed = FALSE

\* A GPCM login, which reads the ID and not the stage, and the session's end.
\* A friend request that is being handled goes on with the session that ended.
SessionBegins ==
    /\ ~lsession.on
    /\ lsession' = [on |-> TRUE, stage |-> "none", id |-> ldb]
    /\ disturbed' = (disturbed /\ Running # {})
    /\ UNCHANGED <<ldb, lreq, lbot, agreed, foreign, forced, apart>>

SessionEnds ==
    /\ lsession.on
    /\ lsession' = NoSession
    /\ lbot' = FALSE
    /\ UNCHANGED <<ldb, lreq, histories>>

\* handleFriendBot, which reads the stage and writes it without the mutex.
FriendBot ==
    /\ lsession.on /\ lsession.stage = "started"
    /\ lbot' = TRUE
    /\ UNCHANGED <<lsession, ldb, lreq, histories>>

FriendBotAdvances ==
    /\ lbot
    /\ lbot' = FALSE
    /\ lsession' = [lsession EXCEPT !.stage = "friended"]
    /\ agreed' = agreed \cup {lsession.id}
    /\ UNCHANGED <<ldb, lreq, foreign, forced, apart, disturbed>>

Go(q, pc, action, id) == lreq' = [lreq EXCEPT ![q] = [pc |-> pc, action |-> action, id |-> id]]

\* GetSessionDiscordInfo, and what the action requires of the stage.
Request(q, action, id) ==
    /\ lreq[q].pc = "idle"
    /\ CASE action = "link"  -> lsession.on /\ lsession.stage = "none"
         [] action = "check" -> lsession.on /\ lsession.stage = "friended"
         [] action = "reset" -> lsession.on /\ lsession.stage # "none" /\ lsession.id = id
         [] OTHER -> TRUE
    /\ Go(q, IF action = "link" THEN "session" ELSE "read", action, id)
    /\ foreign' = IF action = "check" /\ lsession.id # id THEN foreign \cup {id} ELSE foreign
    /\ apart' = IF Running = {} THEN {q} ELSE {}
    /\ disturbed' = (disturbed \/ Running # {} \/ action = "reset")
    /\ UNCHANGED <<lsession, ldb, lbot, agreed, forced>>

\* GetProfile; an error ends the request with nothing done.
ReadProfile(q, ok) ==
    /\ lreq[q].pc = "read"
    /\ lreq' = [lreq EXCEPT ![q] =
           IF ~ok THEN NoRequest ELSE [@ EXCEPT !.pc = IF lreq[q].action = "reset" THEN "persist" ELSE "session"]]
    /\ UNCHANGED <<lsession, ldb, lbot, histories>>

\* Mutant: the session keeps the ID that the link was started with.
SetSessionStageOnly(q) ==
    /\ lreq[q].pc = "session" /\ lsession.on
    /\ lsession' = [lsession EXCEPT !.stage = IF lreq[q].action = "link" THEN "started" ELSE "finished",
                                    !.id = IF lreq[q].action = "link" THEN lreq[q].id ELSE @]
    /\ Go(q, IF lreq[q].action = "link" THEN "idle" ELSE "persist", lreq[q].action, lreq[q].id)
    /\ UNCHANGED <<ldb, lbot, histories>>

\* SetSessionDiscordInfo; without a session only a forced link goes on.
SetSession(q) ==
    LET r == lreq[q] IN
    /\ r.pc = "session"
    /\ lsession' = IF lsession.on
                   THEN [on |-> TRUE, stage |-> IF r.action = "link" THEN "started" ELSE "finished",
                         id |-> r.id]
                   ELSE lsession
    /\ lreq' = [lreq EXCEPT ![q] = IF r.action = "link" \/ (~lsession.on /\ r.action = "check")
                                   THEN NoRequest ELSE [@ EXCEPT !.pc = "persist"]]
    /\ UNCHANGED <<ldb, lbot, histories>>

\* UpdateDiscordID
Persist(q, ok) ==
    LET r == lreq[q] IN
    /\ r.pc = "persist"
    /\ ldb' = IF ~ok THEN ldb ELSE IF r.action = "reset" THEN NoDiscord ELSE r.id
    /\ forced' = IF ok THEN r.action = "force" ELSE forced
    /\ disturbed' = (~ok \/ (disturbed /\ ~(q \in apart /\ r.action # "reset")))
    /\ lreq' = [lreq EXCEPT ![q] = NoRequest]
    /\ UNCHANGED <<lsession, lbot, agreed, foreign, apart>>

LinkNext ==
    \/ SessionBegins \/ SessionEnds \/ FriendBot \/ FriendBotAdvances
    \/ \E q \in LRequests :
         \/ \E a \in {"link", "check", "reset", "force"}, d \in LIDs : Request(q, a, d)
         \/ SetSession(q)
         \/ \E ok \in BOOLEAN : ReadProfile(q, ok) \/ Persist(q, ok)

LinkSpec == LinkInit /\ [][LinkNext]_lvars

-----------------------------------------------------------------------------
(* Properties.                                                              *)

\* An ID gets into the table by force, or when it was on the session as the
\* player added the bot, through all logins, stale stages and overlapping
\* requests in between; or when a check named it during another ID's link,
\* which HandleLink does not compare (link.go:112-133, friend.go:66-74).
LinkConfirmed == ldb = NoDiscord \/ forced \/ ldb \in agreed \cup foreign

\* Once the requests have ended, a session whose link is finished has the ID
\* that is in the table, also when the check named another ID than the link did,
\* and again after requests overlapped or one failed half-way, as soon as one
\* that ran apart has written both or the session began anew.  A reset leaves
\* the session as it is (link.go:119-150).
FinishedAgrees ==
    (lsession.stage = "finished" /\ Running = {} /\ ~disturbed) => lsession.id = ldb

\* The ID in the table is the player's choice, a moderator's or a foreign
\* check's, and a session whose link is finished shows it (link.go:65-153).
LinkInv == LinkConfirmed /\ FinishedAgrees

\* A comment says that the ID is set on the session when a link is requested so
\* that "the in-progress link can't be impacted by anyone else" (link.go:109-111):
\* what is persisted without force is an ID that the player's friend request was
\* for.
LinkNotImpacted == ldb = NoDiscord \/ forced \/ ldb \in agreed

\* Two comments say that the stage is inferred to be LS_FINISHED when a profile
\* with a Discord ID is loaded (link.go:97-100, user.go:127-128): a session that
\* has an ID is not in the stage in which a link may be started.
StageInferred == lsession.on /\ lsession.id # NoDiscord => lsession.stage # "none"

=============================================================================
