------------------------------ MODULE Accounts ------------------------------
(***************************************************************************)
(* The table of users: LoginUserToGPCM (database/login.go), CreateUser,    *)
(* UpdateProfileID, BanUser, UnbanUser and ClearProfile (database/user.go). *)
(*                                                                         *)
(* An account is a user ID with its gsbrcd; the primary key of the table is *)
(* the profile ID, and nothing makes an account unique.  Every statement is *)
(* a step: between two of them other logins and moderators go on, and each *)
(* statement may fail, which ends the login.  A login carries the profile  *)
(* ID its client knows (or none), and a device ID.  The lists of csnums are *)
(* not modelled: whether one is refused is a choice.                       *)
(***************************************************************************)
EXTENDS Integers, FiniteSets

CONSTANTS
    ALogins,        \* calls of LoginUserToGPCM that may run at a time
    AUsers,         \* accounts
    AKnownIDs,      \* profile IDs clients ask for, below 1000000000
    ASequence,      \* profile IDs of users_profile_id_seq
    ADevices,       \* device IDs
    NoID,           \* profile ID 0 and a missing row
    ASameIP         \* AllowMultipleDeviceIDs is "SameIPAddress"

ASSUME AccountsAssumption ==
    /\ AKnownIDs \cap ASequence = {} /\ NoID \notin AKnownIDs \cup ASequence \cup AUsers
    /\ ASameIP \in BOOLEAN

VARIABLES
    users,          \* the table, by profile ID
    calls,          \* the logins under way
    unused,         \* what is left of the sequence
    untouched       \* accounts with whose logins nothing has interfered

avars == <<users, calls, unused, untouched>>

AIDs == AKnownIDs \cup ASequence
NoUser == [user |-> NoID, devs |-> {}, ban |-> FALSE]
NoCall == [pc |-> "idle", acc |-> NoID, want |-> NoID, dev |-> NoID, id |-> NoID, devs |-> {}]

Exists(p) == users[p] # NoUser
RowsOf(a) == {p \in AIDs : Exists(p) /\ users[p].user = a}
Busy(a) == {l \in ALogins : calls[l].pc # "idle" /\ calls[l].acc = a}

AccountsInit ==
    /\ users = [p \in AIDs |-> NoUser]
    /\ calls = [l \in ALogins |-> NoCall]
    /\ unused = ASequence
    /\ untouched = AUsers

Goto(l, pc) == calls' = [calls EXCEPT ![l].pc = pc]

\* The call returns an error.
Fails(l) == calls' = [calls EXCEPT ![l] = NoCall]

\* DoesUserExist
StartLogin(l, a, want, dev) ==
    /\ calls[l].pc = "idle"
    /\ calls' = [calls EXCEPT ![l] =
           [pc |-> IF RowsOf(a) # {} THEN "read" ELSE IF want = NoID THEN "insert" ELSE "inuse",
            acc |-> a, want |-> want, dev |-> dev, id |-> want, devs |-> {dev}]]
    /\ untouched' = IF Busy(a) # {} THEN untouched \ {a} ELSE untouched
    /\ UNCHANGED <<users, unused>>

\* CreateUser: is the profile ID in use?
CreateCheck(l) ==
    /\ calls[l].pc = "inuse"
    /\ IF Exists(calls[l].want) THEN Fails(l) ELSE Goto(l, "insert")
    /\ UNCHANGED <<users, unused, untouched>>

\* Mutant: the row is written whether the ID is in use or not.
InsertOver(l) ==
    /\ calls[l].pc = "insert" /\ calls[l].want # NoID
    /\ users' = [users EXCEPT ![calls[l].want] =
                    [user |-> calls[l].acc, devs |-> calls[l].devs, ban |-> FALSE]]
    /\ Goto(l, "ban")
    /\ UNCHANGED <<unused, untouched>>

\* CreateUser: the INSERT, which the primary key may refuse.
Insert(l) ==
    /\ calls[l].pc = "insert"
    /\ IF calls[l].want # NoID /\ Exists(calls[l].want)
       THEN Fails(l) /\ UNCHANGED <<users, unused>>
       ELSE \E p \in IF calls[l].want = NoID THEN unused ELSE {calls[l].want} :
              /\ users' = [users EXCEPT ![p] =
                              [user |-> calls[l].acc, devs |-> calls[l].devs, ban |-> FALSE]]
              /\ unused' = unused \ {p}
              /\ calls' = [calls EXCEPT ![l].pc = "ban", ![l].id = p]
    /\ UNCHANGED untouched

\* GetUserProfileID: one of the rows of the account.
ReadUser(l) ==
    /\ calls[l].pc = "read"
    /\ IF RowsOf(calls[l].acc) = {} THEN Fails(l)
       ELSE \E p \in RowsOf(calls[l].acc) :
              calls' = [calls EXCEPT ![l].pc = "device", ![l].id = p, ![l].devs = users[p].devs]
    /\ UNCHANGED <<users, unused, untouched>>

\* Mutant: a new device is let in and not recorded.
DeviceForgotten(l, sameIP) ==
    /\ calls[l].pc = "device"
    /\ Goto(l, "csnum")
    /\ UNCHANGED <<users, unused, untouched>>

\* The device ID: known, refused, or written back with the list that was read,
\* to whoever has the profile ID by now.
Device(l, sameIP) ==
    LET c    == calls[l]
        list == c.devs \cup {c.dev}
    IN  /\ c.pc = "device"
        /\ IF c.dev \in c.devs THEN Goto(l, "csnum") /\ UNCHANGED users
           ELSE IF c.devs # {} /\ ASameIP /\ ~sameIP THEN Fails(l) /\ UNCHANGED users
           ELSE /\ calls' = [calls EXCEPT ![l].pc = "csnum", ![l].devs = list]
                /\ users' = IF Exists(c.id) THEN [users EXCEPT ![c.id].devs = list] ELSE users
        /\ untouched' = IF users[c.id].user # c.acc THEN untouched \ {users[c.id].user} ELSE untouched
        /\ UNCHANGED unused

\* handleCsnum, and whether the profile ID has to change.
Csnum(l, refused) ==
    LET c == calls[l] IN
    /\ c.pc = "csnum"
    /\ IF refused THEN Fails(l)
       ELSE Goto(l, IF c.want # NoID /\ c.want # c.id THEN "change" ELSE "ban")
    /\ UNCHANGED <<users, unused, untouched>>

\* UpdateProfileID: is the new one in use?  An error is not the login's.
ChangeCheck(l) ==
    /\ calls[l].pc = "change"
    /\ Goto(l, IF Exists(calls[l].want) THEN "ban" ELSE "update")
    /\ UNCHANGED <<users, unused, untouched>>

\* UpdateProfileID: the UPDATE changes all rows of the account, or, if the
\* primary key refuses, none.
Change(l) ==
    LET c    == calls[l]
        rows == RowsOf(c.acc)
    IN  /\ c.pc = "update"
        /\ IF Exists(c.want) \/ Cardinality(rows) > 1
           THEN Goto(l, "ban") /\ UNCHANGED users
           ELSE /\ calls' = [calls EXCEPT ![l].pc = "ban", ![l].id = c.want]
                /\ users' = [p \in AIDs |-> IF p \in rows THEN NoUser
                                 ELSE IF p = c.want /\ rows # {} THEN users[CHOOSE q \in rows : TRUE]
                                 ELSE users[p]]
        /\ UNCHANGED <<unused, untouched>>

\* SearchUserBan: the profile, or any device on the list, of a banned row.
SearchUserBan(l) ==
    LET c == calls[l] IN
    /\ c.pc = "ban"
    /\ IF \E p \in AIDs : users[p].ban /\ (p = c.id \/ users[p].devs \cap c.devs # {})
       THEN Fails(l) ELSE Goto(l, "done")
    /\ UNCHANGED <<users, unused, untouched>>

\* A statement fails, or the session that logged in ends.
EndLogin(l) ==
    /\ calls[l].pc # "idle"
    /\ Fails(l)
    /\ UNCHANGED <<users, unused, untouched>>

\* The moderators' statements: ban, unban, clear and partly clear a profile.
Interferes(p) == untouched' = IF Busy(users[p].user) # {} THEN untouched \ {users[p].user} ELSE untouched

SetBan(p, ban) ==
    /\ Exists(p) /\ users[p].ban # ban
    /\ users' = [users EXCEPT ![p].ban = ban]
    /\ UNCHANGED <<calls, unused, untouched>>

ClearProfile(p, full) ==
    /\ Exists(p)
    /\ users' = [users EXCEPT ![p] = IF full THEN NoUser ELSE [@ EXCEPT !.devs = {}]]
    /\ Interferes(p)
    /\ UNCHANGED <<calls, unused>>

AccountsNext ==
    \/ \E l \in ALogins :
         \/ \E a \in AUsers, want \in AKnownIDs \cup {NoID}, d \in ADevices : StartLogin(l, a, want, d)
         \/ CreateCheck(l) \/ Insert(l) \/ ReadUser(l) \/ ChangeCheck(l) \/ Change(l)
         \/ \E b \in BOOLEAN : Device(l, b) \/ Csnum(l, b)
         \/ SearchUserBan(l) \/ EndLogin(l)
    \/ \E p \in AIDs : ClearProfile(p, TRUE) \/ ClearProfile(p, FALSE)
                       \/ \E b \in BOOLEAN : SetBan(p, b)

-----------------------------------------------------------------------------
(* Properties.                                                              *)

\* As long as no two logins of an account overlap, no moderator clears it during
\* one, and it did not take the profile ID of an account that was cleared during
\* one (whose device list is then written over it), the account has one row, and a login that succeeded has its
\* profile ID and its device in that row, whatever the logins of others do with
\* the profile IDs it asks for (login.go:98-202, user.go:149-193).  Two first
\* logins that overlap do make two rows.
AccountIntact ==
    \A a \in untouched :
        /\ Cardinality(RowsOf(a)) <= 1
        /\ \A l \in Busy(a) : calls[l].pc = "done" =>
              /\ RowsOf(a) = {calls[l].id}
              /\ calls[l].dev \in users[calls[l].id].devs

\* A profile ID never passes from one account to another while its row exists:
\* the check and the INSERT or UPDATE are two statements, and the primary key
\* has to catch what happens in between (user.go:158-168, user.go:177-187).
ProfileKeepsOwner ==
    [][\A p \in AIDs : users[p] # NoUser /\ users'[p] # NoUser
                          => users'[p].user = users[p].user]_avars
=============================================================================
