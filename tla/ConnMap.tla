------------------------------ MODULE ConnMap ------------------------------
(***************************************************************************)
(* The "+conn_<join index>" fields of QR2 sessions: which players of a room *)
(* are connected.  They are written by processResvOK ("1", connecting),    *)
(* processTellAddr and ProcessNATNEGReport ("2", connected, or "3", failed) *)
(* and deleted by removeFromGroup; GetGroups reads them by the join indices *)
(* the players have then.  A join index stays with a session that left its *)
(* room.  The rest of a room is in module QR2Group.                        *)
(***************************************************************************)
EXTENDS Integers

CONSTANTS
    CPlayers,       \* sessions
    CRooms,         \* groups, each created once
    NoRoom,
    MaxJoin         \* bound: the join indices of a room

ASSUME ConnAssumption == NoRoom \notin CRooms /\ MaxJoin \in Nat

VARIABLES
    roomOf,         \* Session.groupPointer
    ji,             \* Session.Data["+joinindex"], -1 when absent
    last,           \* Group.LastJoinIndex, -1 for a group not created yet
    conn,           \* conn[s][i]: "+conn_<i>" of the session, "0" when absent
    told            \* history: <<s, t, i>>, a report on s and t as number i, both still there

cvars == <<roomOf, ji, last, conn, told>>

Index == -1..MaxJoin
Blank == [i \in Index |-> "0"]
Members(g) == {s \in CPlayers : roomOf[s] = g}

ConnInit ==
    /\ roomOf = [s \in CPlayers |-> NoRoom]
    /\ ji   = [s \in CPlayers |-> -1]
    /\ last = [g \in CRooms |-> -1]
    /\ conn = [s \in CPlayers |-> Blank]
    /\ told = {}

Forget(T, s) == {x \in T : x[1] # s /\ x[2] # s}

\* Mutant: the leaving session keeps its own fields.
ClearedOthers(c, s, g, i) ==
    [t \in CPlayers |-> IF roomOf[t] = g /\ t # s THEN [c[t] EXCEPT ![i] = "0"] ELSE c[t]]

\* removeFromGroup: the others lose their field for index i, the session all.
Cleared(c, s, g, i) ==
    [t \in CPlayers |-> IF t = s THEN Blank
                        ELSE IF roomOf[t] = g THEN [c[t] EXCEPT ![i] = "0"] ELSE c[t]]

\* processResvOK: the fields are named after the indices before the destination
\* gets its new one, and it leaves its old room with the new one.
ResvOK(s, t, g) ==
    /\ s # t
    /\ IF roomOf[s] = NoRoom THEN last[g] = -1 ELSE g = roomOf[s]
    /\ LET new   == roomOf[s] = NoRoom
           is    == IF new THEN 0 ELSE ji[s]
           li    == IF new THEN 0 ELSE last[g]
           c     == [conn EXCEPT ![s][ji[t]] = "1", ![t][is] = "1"]
           moves == roomOf[t] # NoRoom /\ roomOf[t] # g
       IN  IF roomOf[t] = g /\ ~new
           THEN conn' = c /\ UNCHANGED <<roomOf, ji, last, told>>
           ELSE /\ li < MaxJoin
                /\ roomOf' = [roomOf EXCEPT ![s] = g, ![t] = g]
                /\ ji'     = [ji EXCEPT ![s] = is, ![t] = li + 1]
                /\ last'   = [last EXCEPT ![g] = li + 1]
                /\ conn'   = IF moves THEN Cleared(c, t, roomOf[t], li + 1) ELSE c
                /\ told'   = Forget(told, t)

\* removeFromGroup, of a removed session or one that left.
Leave(s) ==
    /\ roomOf[s] # NoRoom
    /\ conn'   = Cleared(conn, s, roomOf[s], ji[s])
    /\ roomOf' = [roomOf EXCEPT ![s] = NoRoom]
    /\ told'   = Forget(told, s)
    /\ UNCHANGED <<ji, last>>

Together(s, t) == s # t /\ roomOf[s] # NoRoom /\ roomOf[s] = roomOf[t]

Tell(s, t, value) ==
    /\ conn' = [conn EXCEPT ![s][ji[t]] = value, ![t][ji[s]] = value]
    /\ told' = told \cup {<<s, t, ji[t]>>, <<t, s, ji[s]>>}
    /\ UNCHANGED <<roomOf, ji, last>>

\* processTellAddr
TellAddr(s, t) == Together(s, t) /\ Tell(s, t, "2")

\* ProcessNATNEGReport; +conn_fail only counts.
NATNEGReport(s, t, ok) == Together(s, t) /\ Tell(s, t, IF ok THEN "2" ELSE "3")

ConnNext ==
    \E s, t \in CPlayers :
        \/ \E g \in CRooms : ResvOK(s, t, g)
        \/ TellAddr(s, t)
        \/ \E ok \in BOOLEAN : NATNEGReport(s, t, ok)
        \/ Leave(s)

-----------------------------------------------------------------------------
(* Properties.                                                              *)

\* A room's list shows two players as connected, or as failed to connect, only
\* if that was reported of these two while both were in this room: no field is
\* left from a player who had the number before, or from another room, however
\* players move (group.go:117-142, session.go:107-118, group_info.go:200-211).
\* (The reverse is not so: moving to another room deletes the field named after
\* the new index in the old room, and "1" is written to a field named after the
\* destination's old index, which may be another player's in this room.)
ConnTrue ==
    \A s, t \in CPlayers :
        (Together(s, t) /\ conn[s][ji[t]] \in {"2", "3"}) => <<s, t, ji[t]>> \in told
=============================================================================
