------------------------------ MODULE QR2Group ------------------------------
(***************************************************************************)
(* The rooms ("groups") that the QR2 server tracks: package qr2, files     *)
(* group.go, message.go, heartbeat.go and the parts of session.go and      *)
(* logins.go that touch a group.                                           *)
(*                                                                         *)
(* Sess and Group are heap objects (the targets of *Session and *Group     *)
(* pointers), not map keys: an object that left its map lives on as long   *)
(* as somebody points to it.  Everything the code does under qr2's global  *)
(* mutex without letting go of it is one step, but for a report of gpcm,   *)
(* which keeps the mutex over several; what a handler reads, releases and  *)
(* uses later is kept in a thread variable between two steps.              *)
(*                                                                         *)
(* Session creation, login and removal are reduced to what a group can see *)
(* of them, a search ID is the object that owns it, and a group name is    *)
(* the group that owns it.  Left out: the "+conn_" fields of a session,    *)
(* race statistics, Mii data, and the reuse of a random ID.                *)
(***************************************************************************)
EXTENDS Integers, FiniteSets

CONSTANTS
    Sess,         \* session objects
    Group,        \* group objects
    Heartbeats,   \* goroutines running heartbeat()
    Messages,     \* goroutines running SendClientMessage()
    Payloads,     \* heartbeat payloads: a set of [host, mtype] records
    Restricted,   \* the sessions whose profile is restricted
    GroupLimit,   \* processResvOK's "global maximum group count" (100000)
    MaxJoin,      \* bound: join indices a group hands out
    NoSess,       \* the nil *Session
    NoGroup       \* the nil *Group

\* The values of dwc_mtype; "" when the field is absent.
MatchTypes == {"", "0", "1", "2", "3"}

NoPayload == [host |-> FALSE, mtype |-> ""]

ASSUME GroupAssumption ==
    /\ NoSess \notin Sess
    /\ NoGroup \notin Group
    /\ Payloads \subseteq [host : BOOLEAN, mtype : MatchTypes]
    /\ Restricted \subseteq Sess
    /\ MaxJoin \in Nat

VARIABLES
    status,     \* of a session object, see Statuses
    data,       \* Session.Data, the fields a group reads
    joinIndex,  \* Session.Data["+joinindex"], -1 when absent
    groupPtr,   \* Session.groupPointer
    groupName,  \* Session.GroupName
    resvID,     \* Session.ReservationID, NoSess for 0
    hasResv,    \* Session.Reservation.Reservation # nil
    groups,     \* the groups map
    players,    \* Group.players
    server,     \* Group.server
    lastJoin,   \* Group.LastJoinIndex
    matchType,  \* Group.MatchType
    beat,       \* the session copy a heartbeat() holds
    msg,        \* the pointers a SendClientMessage() holds
    gp          \* the report of gpcm whose handler has the mutex

sessVars  == <<status, data, joinIndex, groupPtr, groupName, resvID, hasResv>>
roomVars  == <<groups, players, server, lastJoin, matchType>>
vars      == <<sessVars, roomVars, beat, msg, gp>>

\* Whether a session is in the sessions map, and with dwc_pid set or login # nil:
\* "new" has neither, "orphan" a dwc_pid and "linked" both; outside of the map
\* these are "gone", "left" and "stray".
Statuses == {"new", "orphan", "linked", "gone", "left", "stray"}

Live == {s \in Sess : status[s] \in {"new", "orphan", "linked"}}

HasLogin(s) == status[s] \in {"linked", "stray"}

Pointers == [receiver : Sess \cup {NoSess}, found : Sess \cup {NoSess},
             sender   : Sess \cup {NoSess}]

NoMsg == [receiver |-> NoSess, found |-> NoSess, sender |-> NoSess]

\* Whose profile ID is set next, if any.
Reports == [from : Sess, to : Sess, next : {"to", "join"}]

NoReport == [from |-> NoSess, to |-> NoSess, next |-> "none"]

NoBeat == [sess |-> NoSess, group |-> NoGroup]

TypeOK ==
    /\ status    \in [Sess -> Statuses]
    /\ data      \in [Sess -> [host : BOOLEAN, mtype : MatchTypes]]
    /\ joinIndex \in [Sess -> -1 .. MaxJoin]
    /\ groupPtr  \in [Sess -> Group \cup {NoGroup}]
    /\ groupName \in [Sess -> Group \cup {NoGroup}]
    /\ resvID    \in [Sess -> Sess \cup {NoSess}]
    /\ hasResv   \in [Sess -> BOOLEAN]
    /\ groups    \subseteq Group
    /\ players   \in [Group -> SUBSET Sess]
    /\ server    \in [Group -> Sess \cup {NoSess}]
    /\ lastJoin  \in [Group -> 0 .. MaxJoin]
    /\ matchType \in [Group -> MatchTypes]
    /\ beat      \in [Heartbeats -> [sess  : Sess \cup {NoSess},
                                     group : Group \cup {NoGroup}]]
    /\ msg       \in [Messages -> Pointers]
    /\ gp        \in {NoReport} \cup Reports

Init ==
    /\ status    = [s \in Sess |-> "gone"]
    /\ data      = [s \in Sess |-> NoPayload]
    /\ joinIndex = [s \in Sess |-> -1]
    /\ groupPtr  = [s \in Sess |-> NoGroup]
    /\ groupName = [s \in Sess |-> NoGroup]
    /\ resvID    = [s \in Sess |-> NoSess]
    /\ hasResv   = [s \in Sess |-> FALSE]
    /\ groups    = {}
    /\ players   = [g \in Group |-> {}]
    /\ server    = [g \in Group |-> NoSess]
    /\ lastJoin  = [g \in Group |-> 0]
    /\ matchType = [g \in Group |-> ""]
    /\ beat      = [t \in Heartbeats |-> NoBeat]
    /\ msg       = [t \in Messages |-> NoMsg]
    /\ gp        = NoReport

\* The step is a whole critical section of qr2's mutex.
Locked == gp = NoReport /\ gp' = gp

-----------------------------------------------------------------------------
(* The host of a group. *)

\* Players that may become the server.
Hosts(P) == {s \in P : data[s].host /\ joinIndex[s] >= 0}

\* Mutant: findNewServer takes any hosting player.
AnyHostIsServer(srv, P) ==
    IF Hosts(P) = {} THEN srv = NoSess ELSE srv \in Hosts(P)

\* srv is what findNewServer leaves in g.server when P are the players.
IsNewServer(srv, P) ==
    \/ Hosts(P) = {} /\ srv = NoSess
    \/ /\ srv \in Hosts(P)
       /\ \A s \in Hosts(P) : joinIndex[srv] <= joinIndex[s]

\* updateMatchType: the match type of g once srv is its server.
UpdatedMatchType(g, srv) ==
    IF srv = NoSess \/ data[srv].mtype = "" THEN matchType[g]
                                           ELSE data[srv].mtype

findNewServer(g) ==
    \E srv \in players[g] \cup {NoSess} :
        /\ IsNewServer(srv, players[g])
        /\ server' = [server EXCEPT ![g] = srv]
        /\ matchType' = [matchType EXCEPT ![g] = UpdatedMatchType(g, srv)]

-----------------------------------------------------------------------------
(* Leaving a group. *)

\* Mutant: removeFromGroup elects nobody.
ServerStaysAfterLeave(h, s, srv) == srv = server[h]

\* The server of h after s left and srv was (possibly) elected.
ServerAfterLeave(h, s, srv) ==
    LET rest == players[h] \ {s}
    IN  IF rest # {} /\ server[h] = s THEN IsNewServer(srv, rest)
                                      ELSE srv = server[h]

MatchTypeAfterLeave(h, s, srv) ==
    IF players[h] \ {s} # {} /\ server[h] = s THEN UpdatedMatchType(h, srv)
                                              ELSE matchType[h]

\* Mutant: removeFromGroup does not delete the empty room.
GroupsAfterLeaveKept(h, s) == groups

\* delete(groups, ...) once nobody is left.
GroupsAfterLeave(h, s) ==
    IF players[h] \ {s} = {} THEN groups \ {h} ELSE groups

removeFromGroup(s) ==
    LET h == groupPtr[s]
    IN  IF h = NoGroup
        THEN UNCHANGED <<groupPtr, groupName, roomVars>>
        ELSE \E srv \in Sess \cup {NoSess} :
                /\ ServerAfterLeave(h, s, srv)
                /\ players'   = [players EXCEPT ![h] = @ \ {s}]
                /\ groups'    = GroupsAfterLeave(h, s)
                /\ server'    = [server EXCEPT ![h] = srv]
                /\ matchType' = [matchType EXCEPT ![h] =
                                    MatchTypeAfterLeave(h, s, srv)]
                /\ groupPtr'  = [groupPtr EXCEPT ![s] = NoGroup]
                /\ groupName' = [groupName EXCEPT ![s] = NoGroup]
                /\ UNCHANGED lastJoin

-----------------------------------------------------------------------------
(* Joining a group: processResvOK(sender, destination). *)

\* A group object nobody points to any more, or one not allocated yet.
FreeGroup(g) ==
    /\ g \notin groups
    /\ players[g] = {}
    /\ \A s \in Sess : groupPtr[s] # g /\ groupName[s] # g
    /\ \A t \in Heartbeats : beat[t].group # g

\* The sender has no group: it creates g and becomes its server.  The
\* destination d joins at once, leaving the group it is in.
ResvOKNewGroup(s, d, g) ==
    /\ groupPtr[s] = NoGroup
    /\ FreeGroup(g)
    /\ IF d = s
       THEN /\ players'   = [players EXCEPT ![g] = {s}]
            /\ lastJoin'  = [lastJoin EXCEPT ![g] = 0]
            /\ joinIndex' = [joinIndex EXCEPT ![s] = 0]
            /\ groups'    = groups \cup {g}
            /\ server'    = [server EXCEPT ![g] = s]
            /\ matchType' = [matchType EXCEPT ![g] = data[s].mtype]
       ELSE /\ MaxJoin >= 1
            /\ lastJoin'  = [lastJoin EXCEPT ![g] = 1]
            /\ joinIndex' = [joinIndex EXCEPT ![s] = 0, ![d] = 1]
            /\ LET h == groupPtr[d]
               IN  IF h = NoGroup
                   THEN /\ players'   = [players EXCEPT ![g] = {s, d}]
                        /\ groups'    = groups \cup {g}
                        /\ server'    = [server EXCEPT ![g] = s]
                        /\ matchType' = [matchType EXCEPT ![g] = data[s].mtype]
                   ELSE \E srv \in Sess \cup {NoSess} :
                        /\ ServerAfterLeave(h, d, srv)
                        /\ players'   = [players EXCEPT ![g] = {s, d},
                                                        ![h] = @ \ {d}]
                        /\ groups'    = GroupsAfterLeave(h, d) \cup {g}
                        /\ server'    = [server EXCEPT ![g] = s, ![h] = srv]
                        /\ matchType' = [matchType EXCEPT
                                            ![g] = data[s].mtype,
                                            ![h] = MatchTypeAfterLeave(h, d, srv)]
    /\ groupPtr'  = [groupPtr EXCEPT ![s] = g, ![d] = g]
    /\ groupName' = [groupName EXCEPT ![s] = g, ![d] = g]

\* Mutants of ResvOKJoin: d joins the room g with a join index taken from next,
\* LastJoinIndex becomes last, and d's old room is not left.
JoinWithout(s, d, next, last) ==
    LET g == groupPtr[s]
    IN  /\ g # NoGroup
        /\ last <= MaxJoin
        /\ lastJoin'  = [lastJoin EXCEPT ![g] = last]
        /\ joinIndex' = [joinIndex EXCEPT ![d] = next]
        /\ players'   = [players EXCEPT ![g] = @ \cup {d}]
        /\ groupPtr'  = [groupPtr EXCEPT ![d] = g]
        /\ groupName' = [groupName EXCEPT ![d] = g]
        /\ UNCHANGED <<groups, server, matchType>>

\* Mutant: a player that is in the room already joins it again.
ResvOKJoinAgain(s, d) ==
    LET last == lastJoin[groupPtr[s]]
    IN  groupPtr[s] # NoGroup /\ groupPtr[d] \in {NoGroup, groupPtr[s]}
           /\ JoinWithout(s, d, last + 1, last + 1)

\* Mutant: a player keeps the index that it has from another room.
ResvOKJoinStale(s, d) ==
    LET last == lastJoin[groupPtr[s]]
    IN  groupPtr[s] # NoGroup /\ groupPtr[d] = NoGroup
           /\ JoinWithout(s, d, IF joinIndex[d] >= 0 THEN joinIndex[d] ELSE last + 1, last + 1)

\* The sender has a group: the destination joins it unless it is in it.
ResvOKJoin(s, d) ==
    LET g == groupPtr[s]
        h == groupPtr[d]
    IN  /\ g # NoGroup
        /\ IF d \in players[g]
           THEN UNCHANGED <<joinIndex, groupPtr, groupName, roomVars>>
           ELSE /\ lastJoin[g] < MaxJoin
                /\ lastJoin'  = [lastJoin EXCEPT ![g] = @ + 1]
                /\ joinIndex' = [joinIndex EXCEPT ![d] = lastJoin[g] + 1]
                /\ IF h = NoGroup
                   THEN /\ players' = [players EXCEPT ![g] = @ \cup {d}]
                        /\ UNCHANGED <<groups, server, matchType>>
                   ELSE \E srv \in Sess \cup {NoSess} :
                        /\ ServerAfterLeave(h, d, srv)
                        /\ players'   = [players EXCEPT ![g] = @ \cup {d},
                                                        ![h] = @ \ {d}]
                        /\ groups'    = GroupsAfterLeave(h, d)
                        /\ server'    = [server EXCEPT ![h] = srv]
                        /\ matchType' = [matchType EXCEPT ![h] =
                                            MatchTypeAfterLeave(h, d, srv)]
                /\ groupPtr'  = [groupPtr EXCEPT ![d] = g]
                /\ groupName' = [groupName EXCEPT ![d] = g]

processResvOK(s, d) ==
    IF Cardinality(groups) >= GroupLimit
    THEN UNCHANGED <<joinIndex, groupPtr, groupName, roomVars>>
    ELSE \/ \E g \in Group : ResvOKNewGroup(s, d, g)
         \/ ResvOKJoin(s, d)

-----------------------------------------------------------------------------
(* Heartbeats.  heartbeat() calls setSessionData, may look its session up    *)
(* once more, and only then, under a third lock, touches the group of the    *)
(* session copy it kept.                                                     *)

\* No pointer to the object s is left that anybody will follow.
Unreferenced(s) ==
    /\ s \notin Live
    /\ gp.from # s /\ gp.to # s
    /\ \A g \in Group : s \notin players[g] /\ (g \in groups => server[g] # s)
    /\ \A t \in Messages : s \notin {msg[t].receiver, msg[t].found, msg[t].sender}
    /\ \A t \in Heartbeats : beat[t].sess # s

\* setSessionData, no session at this address: a new object is created.  A
\* search ID that belonged to nobody any more still matches nobody.
HeartbeatNew(t, s, p) ==
    /\ Locked
    /\ beat[t] = NoBeat
    /\ Unreferenced(s)
    /\ status'    = [status EXCEPT ![s] = "new"]
    /\ data'      = [data EXCEPT ![s] = p]
    /\ joinIndex' = [joinIndex EXCEPT ![s] = -1]
    /\ groupPtr'  = [groupPtr EXCEPT ![s] = NoGroup]
    /\ groupName' = [groupName EXCEPT ![s] = NoGroup]
    /\ resvID'    = [x \in Sess |-> IF x = s \/ resvID[x] = s THEN NoSess
                                                             ELSE resvID[x]]
    /\ hasResv'   = [hasResv EXCEPT ![s] = FALSE]
    /\ beat'      = [beat EXCEPT ![t] = [sess |-> s, group |-> NoGroup]]
    /\ UNCHANGED <<roomVars, msg>>

\* setSessionData, known session: the payload replaces every field that does
\* not start with '+'.
HeartbeatData(t, s, p) ==
    /\ Locked
    /\ beat[t] = NoBeat
    /\ s \in Live
    /\ data' = [data EXCEPT ![s] = p]
    /\ beat' = [beat EXCEPT ![t] = [sess |-> s, group |-> groupPtr[s]]]
    /\ UNCHANGED <<status, joinIndex, groupPtr, groupName, resvID, hasResv,
                   roomVars, msg>>

\* The payload has an "unknown" field: the session is copied again, once (only
\* the last copy counts, so that repeating the step changes nothing).  That
\* the code dereferences nil when it is gone is module QR2Session's matter.
HeartbeatUnknowns(t) ==
    /\ Locked
    /\ beat[t] # NoBeat
    /\ beat[t].sess \in Live
    /\ beat' = [beat EXCEPT ![t].group = groupPtr[beat[t].sess]]
    /\ UNCHANGED <<sessVars, roomVars, msg>>

\* Mutant: a heartbeat only updates the match type.
HeartbeatGroupNoElection(t) ==
    LET g == beat[t].group
    IN  /\ Locked
        /\ beat[t] # NoBeat
        /\ beat' = [beat EXCEPT ![t] = NoBeat]
        /\ IF g = NoGroup THEN UNCHANGED matchType
           ELSE matchType' = [matchType EXCEPT ![g] =
                                 UpdatedMatchType(g, server[g])]
        /\ UNCHANGED <<sessVars, groups, players, server, lastJoin, msg>>

\* The last critical section of heartbeat().
HeartbeatGroup(t) ==
    LET g == beat[t].group
    IN  /\ Locked
        /\ beat[t] # NoBeat
        /\ beat' = [beat EXCEPT ![t] = NoBeat]
        /\ \/ /\ g = NoGroup
              /\ UNCHANGED <<server, matchType>>
           \/ /\ g # NoGroup
              /\ server[g] = NoSess
              /\ findNewServer(g)
           \/ /\ g # NoGroup
              /\ server[g] # NoSess
              /\ matchType' = [matchType EXCEPT ![g] =
                                    UpdatedMatchType(g, server[g])]
              /\ UNCHANGED server
        /\ UNCHANGED <<sessVars, groups, players, lastJoin, msg>>

-----------------------------------------------------------------------------
(* The rest of a session's life, as far as a group sees it. *)

Removed(st) == IF st = "new" THEN "gone" ELSE "left"

\* setProfileID, for a session without profile ID, in the map or not, links it to
\* a login and removes the session at the address of the one that had the login
\* so far.  After an AckTimeout that one may be long gone, and the address belong
\* to any session now, s itself included.
setProfileID(s, old) ==
    LET linked == [status EXCEPT ![s] = IF @ = "new" THEN "linked" ELSE "stray"]
    IN  \/ /\ status[s] \notin {"new", "gone"} /\ old = NoSess
           /\ UNCHANGED <<status, groupPtr, groupName, roomVars>>
        \/ /\ status[s] \in {"new", "gone"} /\ old = NoSess
           /\ status' = linked
           /\ UNCHANGED <<groupPtr, groupName, roomVars>>
        \/ /\ status[s] \in {"new", "gone"} /\ old \in Live
           /\ status' = [linked EXCEPT ![old] = Removed(@)]
           /\ removeFromGroup(old)

\* A heartbeat, a status update or a reservation names the session's profile.
LinkSession(s, old) ==
    /\ Locked
    /\ status[s] = "new"
    /\ setProfileID(s, old)
    /\ UNCHANGED <<data, joinIndex, resvID, hasResv, beat, msg>>

\* Mutant: removeSession leaves the session in its room.
RemoveSessionOnly(s) ==
    /\ Locked
    /\ s \in Live
    /\ status' = [status EXCEPT ![s] = Removed(@)]
    /\ UNCHANGED <<data, joinIndex, groupPtr, groupName, resvID, hasResv,
                   roomVars, beat, msg>>

\* removeSession: statechanged=2, Logout, or an hour without keep alive.
RemoveSession(s) ==
    /\ Locked
    /\ s \in Live
    /\ status' = [status EXCEPT ![s] = Removed(@)]
    /\ removeFromGroup(s)
    /\ UNCHANGED <<data, joinIndex, resvID, hasResv, beat, msg>>

\* A SendClientMessage whose message went out to s gave up waiting for the ack.
AckTimeout(t, s) ==
    /\ msg[t] = NoMsg
    /\ HasLogin(s)
    /\ status' = [status EXCEPT ![s] = IF @ = "linked" THEN "orphan" ELSE "left"]
    /\ UNCHANGED <<data, joinIndex, groupPtr, groupName, resvID, hasResv,
                   roomVars, beat, msg, gp>>

\* ProcessGPStatusUpdate with a status that means "not in a match".
GPStatusUpdate(s) ==
    /\ Locked
    /\ s \in Live
    /\ groupPtr[s] # NoGroup
    /\ removeFromGroup(s)
    /\ UNCHANGED <<status, data, joinIndex, resvID, hasResv, beat, msg>>

\* ProcessGPResvOK and ProcessGPTellAddr keep the mutex over these steps.  Both
\* sessions are looked up and the first gets its profile ID,
GPResvFrom(s, d, old) ==
    /\ gp = NoReport
    /\ {s, d} \subseteq Live
    /\ setProfileID(s, old)
    /\ gp' = [from |-> s, to |-> d,
              next |-> IF status'[d] \in {"new", "gone"} THEN "to" ELSE "join"]
    /\ UNCHANGED <<data, joinIndex, resvID, hasResv, beat, msg>>

\* then the second, which may have lost its place in the map just now, unless it
\* has one;
GPResvTo(old) ==
    /\ gp.next = "to"
    /\ setProfileID(gp.to, old)
    /\ gp' = [gp EXCEPT !.next = "join"]
    /\ UNCHANGED <<data, joinIndex, resvID, hasResv, beat, msg>>

\* and the two are joined, whatever became of them.
GPResvOK ==
    /\ gp.next = "join"
    /\ processResvOK(gp.from, gp.to)
    /\ gp' = NoReport
    /\ UNCHANGED <<status, data, resvID, hasResv, beat, msg>>

\* A profile ID is refused, or it was a TELL_ADDR.
GPReportEnds ==
    /\ gp # NoReport
    /\ gp' = NoReport
    /\ UNCHANGED <<sessVars, roomVars, beat, msg>>

-----------------------------------------------------------------------------
(* SendClientMessage.  The receiver and the sender are looked up under two   *)
(* locks and used under a third.                                             *)

MsgReceiver(t, r) ==
    /\ Locked
    /\ msg[t] = NoMsg
    /\ status[r] = "linked"
    /\ msg' = [msg EXCEPT ![t].receiver = r]
    /\ UNCHANGED <<sessVars, roomVars, beat>>

MsgFind(t, s) ==
    /\ Locked
    /\ msg[t].receiver # NoSess /\ msg[t].found = NoSess /\ msg[t].sender = NoSess
    /\ s \in Live
    /\ msg' = [msg EXCEPT ![t].found = s]
    /\ UNCHANGED <<sessVars, roomVars, beat>>

\* The sender gets its profile ID, with the mutex released, and has to have a
\* login then.
MsgSender(t, old) ==
    LET s == msg[t].found
    IN  /\ s # NoSess
        /\ setProfileID(s, old)
        /\ msg' = [msg EXCEPT ![t] = IF status'[s] \in {"linked", "stray"}
                                     THEN [@ EXCEPT !.found = NoSess, !.sender = s]
                                     ELSE NoMsg]
        /\ UNCHANGED <<data, joinIndex, resvID, hasResv, beat, gp>>

\* friendJoin stands for the join types 2 and 3.
checkReservationAllowed(s, d, friendJoin) ==
    IF ~HasLogin(s) \/ ~HasLogin(d) THEN ""
    ELSE IF {s, d} \cap Restricted = {} THEN "ok"
    ELSE IF ~friendJoin THEN "restricted_join"
    ELSE IF groupPtr[d] = NoGroup
         THEN IF data[d].mtype \in {"2", "3"} THEN "ok" ELSE "restricted_join"
    ELSE IF matchType[groupPtr[d]] = "private" THEN "ok" ELSE "restricted_join"

MsgReady(t) == msg[t].receiver # NoSess /\ msg[t].sender # NoSess

\* processClientMessage, RESERVATION.
MsgReservation(t, friendJoin) ==
    LET s == msg[t].sender
        d == msg[t].receiver
    IN  /\ Locked /\ MsgReady(t)
        /\ msg' = [msg EXCEPT ![t] = NoMsg]
        /\ \/ /\ checkReservationAllowed(s, d, friendJoin) = "ok"
              /\ resvID'  = [resvID EXCEPT ![s] = d]
              /\ hasResv' = [hasResv EXCEPT ![s] = TRUE]
           \/ /\ checkReservationAllowed(s, d, friendJoin) # "ok"
              /\ UNCHANGED <<resvID, hasResv>>
        /\ UNCHANGED <<status, data, joinIndex, groupPtr, groupName, roomVars,
                       beat>>

\* Does a RESV_OK, RESV_DENY or RESV_WAIT from s to d go through?  Without any
\* reservation the versions never match.
ReservationHolds(s, d) ==
    /\ \/ resvID[d] = s /\ hasResv[d]
       \/ groupPtr[d] # NoGroup /\ groupPtr[d] = groupPtr[s]
    /\ hasResv[d]

\* processClientMessage, RESV_OK.
MsgResvOK(t) ==
    LET s == msg[t].sender
        d == msg[t].receiver
    IN  /\ Locked /\ MsgReady(t)
        /\ msg' = [msg EXCEPT ![t] = NoMsg]
        /\ \/ /\ ReservationHolds(s, d)
              /\ processResvOK(s, d)
           \/ /\ ~ReservationHolds(s, d)
              /\ UNCHANGED <<joinIndex, groupPtr, groupName, roomVars>>
        /\ UNCHANGED <<status, data, resvID, hasResv, beat>>

\* processClientMessage, RESV_DENY and RESV_WAIT.
MsgResvDeny(t) ==
    LET s == msg[t].sender
        d == msg[t].receiver
    IN  /\ Locked /\ MsgReady(t)
        /\ msg' = [msg EXCEPT ![t] = NoMsg]
        /\ resvID' = IF ReservationHolds(s, d) /\ resvID[d] = s
                     THEN [resvID EXCEPT ![d] = NoSess] ELSE resvID
        /\ UNCHANGED <<status, data, joinIndex, groupPtr, groupName, hasResv,
                       roomVars, beat>>

\* The message is refused, or it is one that leaves groups alone (a NATNEG
\* cookie, TELL_ADDR).
MsgDrop(t) ==
    /\ msg[t] # NoMsg
    /\ msg' = [msg EXCEPT ![t] = NoMsg]
    /\ UNCHANGED <<sessVars, roomVars, beat, gp>>

-----------------------------------------------------------------------------
(* Shutdown with saveSessions, saveLogins, saveGroups, and StartServer with  *)
(* the matching loads.  Shutdown waits for the UDP handlers; the goroutines  *)
(* of SendClientMessage die with the process.                                *)

\* loadLogins links the sessions that have a dwc_pid when somebody is logged in
\* with it.
LoadedStatus(s, loggedIn) ==
    IF s \notin Live THEN "gone"
    ELSE IF status[s] = "new" THEN "new"
    ELSE IF s \in loggedIn THEN "linked" ELSE "orphan"

\* loadGroups: the session's pointer is found again by its group's name.
LoadedGroup(s) ==
    IF s \in Live /\ groupName[s] \in groups THEN groupName[s] ELSE NoGroup

LoadedPlayers(g) == {s \in Sess : LoadedGroup(s) = g}

Reload ==
    /\ Locked
    /\ \A t \in Heartbeats : beat[t] = NoBeat
    /\ \E loggedIn \in SUBSET Live :
          status' = [s \in Sess |-> LoadedStatus(s, loggedIn)]
    /\ data'      = [s \in Sess |-> IF s \in Live THEN data[s] ELSE NoPayload]
    /\ joinIndex' = [s \in Sess |-> IF s \in Live THEN joinIndex[s] ELSE -1]
    /\ groupName' = [s \in Sess |-> IF s \in Live THEN groupName[s] ELSE NoGroup]
    /\ groupPtr'  = [s \in Sess |-> LoadedGroup(s)]
    /\ resvID'    = [s \in Sess |-> IF s \in Live THEN resvID[s] ELSE NoSess]
    /\ hasResv'   = [s \in Sess |-> s \in Live /\ hasResv[s]]
    /\ players'   = [g \in Group |-> LoadedPlayers(g)]
    /\ \E srv \in [Group -> Sess \cup {NoSess}] :
          /\ \A g \in Group : IF g \in groups
                              THEN IsNewServer(srv[g], LoadedPlayers(g))
                              ELSE srv[g] = NoSess
          /\ server'    = srv
          /\ matchType' = [g \in Group |-> UpdatedMatchType(g, srv[g])]
    /\ msg' = [t \in Messages |-> NoMsg]
    /\ UNCHANGED <<groups, lastJoin, beat>>

-----------------------------------------------------------------------------
\* The handler that has the mutex goes on.
GPReport ==
    \/ \E old \in Sess \cup {NoSess} : GPResvTo(old)
    \/ GPResvOK \/ GPReportEnds

Next ==
    \/ \E t \in Heartbeats, s \in Sess, p \in Payloads :
          HeartbeatNew(t, s, p) \/ HeartbeatData(t, s, p)
    \/ \E t \in Heartbeats : HeartbeatUnknowns(t) \/ HeartbeatGroup(t)
    \/ \E s \in Sess, old \in Sess \cup {NoSess} : LinkSession(s, old)
    \/ \E s \in Sess : RemoveSession(s) \/ GPStatusUpdate(s)
    \/ \E s, d \in Sess, old \in Sess \cup {NoSess} : GPResvFrom(s, d, old)
    \/ GPReport
    \/ \E t \in Messages, s \in Sess :
          MsgReceiver(t, s) \/ MsgFind(t, s) \/ AckTimeout(t, s)
    \/ \E t \in Messages, old \in Sess \cup {NoSess} : MsgSender(t, old)
    \/ \E t \in Messages, f \in BOOLEAN : MsgReservation(t, f)
    \/ \E t \in Messages : MsgResvOK(t) \/ MsgResvDeny(t) \/ MsgDrop(t)
    \/ Reload

\* The Go scheduler runs every goroutine that can go on, and a mutex is handed to
\* whoever has waited for it long enough.
Fairness ==
    /\ WF_vars(GPReport)
    /\ \A t \in Heartbeats : SF_vars(HeartbeatGroup(t))

Spec == Init /\ [][Next]_vars

FairSpec == Spec /\ Fairness

-----------------------------------------------------------------------------
(* Safety. *)

\* A session and its group point at each other: Session.groupPointer and
\* Session.GroupName name the one group whose players map holds the session.
\* Every handler that moves a player updates the three separately
\* (removeFromGroup, processResvOK), and loadGroups rebuilds two from the third.
PointersAgree ==
    \A s \in Sess :
        /\ groupName[s] = groupPtr[s]
        /\ \A g \in Group : s \in players[g] <=> groupPtr[s] = g

\* A group somebody plays in is in the groups map: removeFromGroup's delete
\* never unregisters a room under the feet of another player, so that a reload,
\* which only saves that map, loses no room.
OccupiedRegistered ==
    \A g \in Group : players[g] # {} => g \in groups

\* The join index identifies a player within its group, whatever joins, leaves
\* and reloads came before; "+conn_<index>" and getGroupsRaw's PlayersRaw map
\* are keyed by it.
JoinIndexUnique ==
    \A g \in Group : \A s \in players[g] :
        /\ joinIndex[s] \in 0 .. lastJoin[g]
        /\ \A d \in players[g] : joinIndex[s] = joinIndex[d] => s = d

\* A registered group's server plays in it: no path leaves Group.server
\* pointing at a session that left the room or was removed from the server.
ServerInGroup ==
    \A g \in groups : server[g] \in players[g] \cup {NoSess}

\* The four together are what every handler relies on and has to keep.
RoomsAgree ==
    PointersAgree /\ OccupiedRegistered /\ JoinIndexUnique /\ ServerInGroup

\* With the types, which say that no join index leaves its range and no pointer
\* is anything but nil or an object, this is what processResvOK,
\* removeFromGroup and loadGroups preserve by themselves.
RoomInv == TypeOK /\ RoomsAgree

\* A host changes only when it left the room, or there was none, or the server
\* was restarted (the pointer is not saved); whoever takes over is the hosting
\* player that joined first (findNewServer).
HostSuccession ==
    [][\A g \in groups \cap groups' :
          server'[g] # server[g] =>
             /\ \/ server[g] = NoSess
                \/ server[g] \notin players'[g]
                \/ Reload
             /\ server'[g] # NoSess =>
                   /\ data'[server'[g]].host
                   /\ \A s \in players'[g] :
                        data'[s].host => joinIndex'[server'[g]] <= joinIndex'[s]
      ]_vars

\* A session that is in a room and not in the sessions map any more (nobody will
\* ever remove it) got there by a handler that had looked it up before it was
\* removed: a client message, or a report of gpcm with the profile IDs it sets on
\* the way.  removeSession itself always takes the session out of its room.
GhostsOnlyFromHandlers ==
    [][\A s \in Sess :
          (s \notin Live' /\ groupPtr'[s] # NoGroup) =>
             \/ s \notin Live /\ groupPtr[s] = groupPtr'[s]
             \/ \E t \in Messages : s \in {msg[t].sender, msg[t].receiver}
                                  /\ msg'[t] = NoMsg
             \/ s \in {gp.from, gp.to} /\ gp.next = "join" /\ gp' = NoReport
      ]_vars

\* A player in a room never changes its join index while it stays there: the
\* clients' "+conn_" fields keep naming the player they were written for.
JoinIndexStable ==
    [][\A s \in Sess : (groupPtr[s] # NoGroup /\ groupPtr'[s] = groupPtr[s])
                       => joinIndex'[s] = joinIndex[s]]_vars

\* Every player of a room is online (has a session): GetGroups "returns a copy
\* of all online rooms".
PlayersOnline == \A g \in Group : players[g] \subseteq Live

\* A room stays registered without a single player only if the players it had
\* were all such leftovers when the server was restarted: on every other path
\* the last player to leave unregisters it.  (getGroupsRaw indexes the first
\* player of every registered room.)
EmptyRoomsOnlyFromGhosts ==
    [][\A g \in groups' :
          players'[g] = {} => players[g] \cap Live = {} /\ g \in groups]_vars

\* A restricted player's reservation is only turned down when the match is
\* public: processClientMessage reports every refusal as "Restricted player
\* attempted to join a public match".
RefusedOnlyPublic ==
    \A s, d \in Sess :
        checkReservationAllowed(s, d, TRUE) = "restricted_join" =>
            IF groupPtr[d] = NoGroup THEN data[d].mtype \notin {"2", "3"}
                                     ELSE matchType[groupPtr[d]] \notin {"2", "3"}

-----------------------------------------------------------------------------
(* The promise of module Rooms, read off qr2's sessions and groups. *)

\* The order in which the players of a room joined it is that of their indices.
JoinedBefore ==
    {p \in Sess \X Sess : /\ groupPtr[p[1]] # NoGroup
                          /\ groupPtr[p[1]] = groupPtr[p[2]]
                          /\ joinIndex[p[1]] < joinIndex[p[2]]}

CanHost == {s \in Sess : data[s].host}

HostOf == [g \in Group |-> IF g \in groups THEN server[g] ELSE NoSess]

R == INSTANCE Rooms WITH
        online <- Live, hosting <- CanHost, member <- groupPtr,
        before <- JoinedBefore, host <- HostOf, open <- groups

\* Package qr2 implements Rooms: whatever heartbeats, messages, reports, timeouts
\* and restarts do to join indices, pointers and the groups map, the players see
\* rooms that are joined at the end, left by whoever goes, closed by the last and
\* hosted by the first that can (removeFromGroup, findNewServer, processResvOK,
\* loadGroups).
ImplementsRooms == R!Spec

-----------------------------------------------------------------------------
(* Liveness. *)

\* A room without host does not stay so once a heartbeat of one of its players
\* has arrived: a host is elected unless no player can host or that player
\* leaves, however many joins, elections and other heartbeats come in between.
HostElected ==
    \A t \in Heartbeats, s \in Sess, g \in Group :
        (beat[t] = [sess |-> s, group |-> g] /\ groupPtr[s] = g
            /\ server[g] = NoSess)
        ~> (server[g] # NoSess \/ Hosts(players[g]) = {} \/ groupPtr[s] # g)
=============================================================================
