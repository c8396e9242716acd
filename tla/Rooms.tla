------------------------------- MODULE Rooms --------------------------------
(***************************************************************************)
(* What package qr2 promises about rooms, without join indices, pointers   *)
(* and messages: a session is in one room at most; who joins a room comes  *)
(* after everybody in it; the last to leave closes it; and when its host   *)
(* leaves, the next one is whoever came first of those that can host.      *)
(*                                                                         *)
(* Being in a room does not imply being online: see QR2Group,              *)
(* GhostsOnlyFromHandlers.                                                 *)
(***************************************************************************)
CONSTANTS Sess, Group, NoSess, NoGroup

VARIABLES
    online,     \* the sessions that the server knows
    hosting,    \* those that said they can host
    member,     \* the room a session is in, or NoGroup
    before,     \* who came to their common room before whom
    host,       \* a room's host, or NoSess
    open        \* the rooms that the server knows

vars == <<online, hosting, member, before, host, open>>

Members(g) == {s \in Sess : member[s] = g}

\* What is left of the order of arrival without the sessions in S.
Without(S) == {p \in before : p[1] \notin S /\ p[2] \notin S}

Init ==
    /\ online  = {}
    /\ hosting = {}
    /\ member  = [s \in Sess |-> NoGroup]
    /\ before  = {}
    /\ host    = [g \in Group |-> NoSess]
    /\ open    = {}

-----------------------------------------------------------------------------
(* Hosts. *)

\* g is hosted by the first to come of its members that can, or by nobody.
FirstHosts(g) ==
    LET able == Members(g) \cap hosting
    IN  IF able = {} THEN host[g] = NoSess
        ELSE /\ host[g] \in able
             /\ \A s \in able \ {host[g]} : <<host[g], s>> \in before

\* A host stays as long as it is in the room; a room without one, which had
\* nobody to host it, stays so too.
Succeeds(g) ==
    IF host[g] \in Members(g)' \cup {NoSess} THEN host'[g] = host[g]
                                             ELSE FirstHosts(g)'

Succession(G) ==
    /\ host' \in [Group -> Sess \cup {NoSess}]
    /\ \A g \in G : Succeeds(g)

\* The rooms that the step leaves open.
Remaining == {g \in open : Members(g) # {} => Members(g)' # {}}

-----------------------------------------------------------------------------
Arrive(s) ==
    /\ s \notin online /\ member[s] = NoGroup
    /\ online' = online \cup {s}
    /\ hosting' \in {hosting \cup {s}, hosting \ {s}}
    /\ UNCHANGED <<member, before, host, open>>

ChangeMind(s) ==
    /\ s \in online
    /\ hosting' \in {hosting \cup {s}, hosting \ {s}}
    /\ UNCHANGED <<online, member, before, host, open>>

\* The room gets a host when one of its members has become able to.
Elect(g) ==
    /\ g \in open /\ host[g] = NoSess
    /\ \E s \in Sess \cup {NoSess} : host' = [host EXCEPT ![g] = s]
    /\ FirstHosts(g)'
    /\ UNCHANGED <<online, hosting, member, before, open>>

GoOut(s) ==
    /\ member' = [member EXCEPT ![s] = NoGroup]
    /\ before' = Without({s})
    /\ open'   = Remaining
    /\ Succession(Group)
    /\ UNCHANGED hosting

Leave(s)  == GoOut(s) /\ UNCHANGED online
Depart(s) == s \in online /\ GoOut(s) /\ online' = online \ {s}

\* s opens a room for itself, or for itself and d, who leaves its own for it.
Open(s, d, g) ==
    /\ member[s] = NoGroup /\ g \notin open /\ Members(g) = {}
    /\ member' = [member EXCEPT ![s] = g, ![d] = g]
    /\ before' = Without({s, d}) \cup ({s} \X ({d} \ {s}))
    /\ open'   = Remaining \cup {g}
    /\ host'[g] = s /\ Succession(Group \ {g})
    /\ UNCHANGED <<online, hosting>>

\* d comes to a room that has members, and leaves the one it is in.
Join(d, g) ==
    /\ member[d] # g /\ Members(g) # {}
    /\ member' = [member EXCEPT ![d] = g]
    /\ before' = Without({d}) \cup (Members(g) \X {d})
    /\ open'   = Remaining
    /\ Succession(Group)
    /\ UNCHANGED <<online, hosting>>

\* A restart keeps the rooms, their members that are online and the order in
\* which they came, and chooses every host anew.
Restart ==
    /\ member'  = [s \in Sess |-> IF s \in online THEN member[s] ELSE NoGroup]
    /\ before'  = Without(Sess \ online)
    /\ hosting' = hosting \cap online
    /\ host' \in [Group -> Sess \cup {NoSess}]
    /\ \A g \in Group : IF g \in open THEN FirstHosts(g)' ELSE host'[g] = NoSess
    /\ UNCHANGED <<online, open>>

Next ==
    \/ \E s \in Sess : Arrive(s) \/ ChangeMind(s) \/ Leave(s) \/ Depart(s)
    \/ \E s, d \in Sess, g \in Group : Open(s, d, g)
    \/ \E d \in Sess, g \in Group : Join(d, g)
    \/ \E g \in Group : Elect(g)
    \/ Restart

Spec == Init /\ [][Next]_vars

=============================================================================
