----------------------------- MODULE GPFriends -----------------------------
(***************************************************************************)
(* Friends and their statuses: gpcm/friend.go, the open-host switch of     *)
(* gpcm/profile.go and the delivery of messages in gpcm/message.go.        *)
(*                                                                         *)
(* A session is identified with its profile, since a profile has one       *)
(* session at a time (module GPCM).  All profiles play the same game.      *)
(* Every handler runs under gpcm's mutex and is one action, except where   *)
(* the code works outside of it: the write buffer, which is sent when the  *)
(* handler has returned; User.OpenHost, which is assigned after the mutex  *)
(* was released; and the gap in CloseConnection between the logout         *)
(* statuses and the removal from sessions.                                 *)
(***************************************************************************)
EXTENDS Naturals, Sequences, FiniteSets, SequencesExt

CONSTANTS
    Profile,
    Knows,      \* Knows[p]: whose friend codes p has
    MayOpen,    \* profiles that may switch open host on and off
    MaxAuth     \* bound on the length of an AuthFriendList

ASSUME FriendsAssumption ==
    /\ Knows \in [Profile -> SUBSET Profile]
    /\ \A p \in Profile : p \notin Knows[p]
    /\ MayOpen \subseteq Profile
    /\ IsFiniteSet(Profile)
    /\ MaxAuth \in Nat

VARIABLES
    on,         \* "on": logged in; "leaving": so, but its logout was announced
    friends,    \* FriendList, as a set: addFriend never adds a profile twice
    auth,       \* AuthFriendList
    statusSet,  \* StatusSet
    recv,       \* RecvStatusFromList
    buf,        \* whose statuses wait in WriteBuffer
    open,       \* User.OpenHost, see OpenStates
    shown,      \* client: the friends whose last status is not the logout
    got,        \* client: the friends some status of whom has arrived
    late,       \* history: shown by a status whose end will not be announced
    raced       \* history: <<p, q>> where p added q while q opened

clientVars == <<shown, got>>
vars == <<on, friends, auth, statusSet, recv, buf, open, clientVars, late, raced>>

\* "opening" and "closing": the lists have been changed, the flag has not.
OpenStates == {"no", "opening", "yes", "closing"}
OpenHost(p) == open[p] \in {"yes", "closing"}
Online(p)   == on[p] # "off"
InSeq(s)    == {s[i] : i \in DOMAIN s}
isFriendAuthorized(p, q) == q \in InSeq(auth[p])

FriendsTypeOK ==
    /\ on        \in [Profile -> {"off", "on", "leaving"}]
    /\ friends   \in [Profile -> SUBSET Profile]
    /\ auth      \in [Profile -> Seq(Profile)]
    /\ statusSet \in [Profile -> BOOLEAN]
    /\ recv      \in [Profile -> SUBSET Profile]
    /\ buf       \in [Profile -> SUBSET Profile]
    /\ open      \in [Profile -> OpenStates]
    /\ shown     \in [Profile -> SUBSET Profile]
    /\ got       \in [Profile -> SUBSET Profile]
    /\ late      \subseteq Profile \X Profile
    /\ raced     \subseteq Profile \X Profile

Nobody == [p \in Profile |-> {}]

Init ==
    /\ on        = [p \in Profile |-> "off"]
    /\ friends   = Nobody
    /\ auth      = [p \in Profile |-> <<>>]
    /\ statusSet = [p \in Profile |-> FALSE]
    /\ recv      = Nobody
    /\ buf       = Nobody
    /\ open      = [p \in Profile |-> "no"]
    /\ shown     = Nobody
    /\ got       = Nobody
    /\ late      = {}
    /\ raced     = {}

-----------------------------------------------------------------------------
(* Lists and messages. *)

\* removeFromUint32Array of the first occurrence: the last element takes its
\* place.
Removed(s, e) ==
    LET i == CHOOSE j \in DOMAIN s : s[j] = e /\ \A k \in 1..(j - 1) : s[k] # e
    IN  [j \in 1..(Len(s) - 1) |-> IF j = i THEN s[Len(s)] ELSE s[j]]

\* Names the bound on the lists, which the code has not ("TODO: Add a limit").
InBounds == \A p \in Profile : Len(auth'[p]) <= MaxAuth

\* The list a[p] without one q, if it is there and p is logged in.
Unauthorize(a, p, q) ==
    IF Online(p) /\ q \in InSeq(a[p]) THEN [a EXCEPT ![p] = Removed(@, q)] ELSE a

\* The lists after a loop over s, which takes p off the list of each and, if
\* both, each off p's list before.
Unlisted(p, s, both) ==
    LET a[i \in 0..Len(s)] ==
            IF i = 0 THEN auth
            ELSE Unauthorize(IF both THEN Unauthorize(a[i - 1], p, s[i]) ELSE a[i - 1], s[i], p)
    IN  a[Len(s)]

\* The end of p's session is not announced to q: that was done already, or the
\* authorizations of the two are not mutual.
Unannounced(p, q) ==
    on[p] # "on" \/ p \notin InSeq(auth'[q]) \/ q \notin InSeq(auth'[p])

\* Statuses S = {<<sender, receiver>>} and logouts L arrive at their clients.
\* recordStatusSent is called for the statuses only.
Deliver(S, L) ==
    /\ recv'  = [q \in Profile |-> recv[q] \cup {p \in Profile : <<p, q>> \in S}]
    /\ got'   = [q \in Profile |->
                   got[q] \cup {p \in Profile : <<p, q>> \in S \cup L}]
    /\ shown' = [q \in Profile |-> (shown[q] \cup {p \in Profile : <<p, q>> \in S})
                                     \ {p \in Profile : <<p, q>> \in L}]
    /\ late'  = (late \ (S \cup L)) \cup {s \in S : Unannounced(s[1], s[2])}

\* sendFriendStatus: the receivers among Q of a status of p.
StatusTo(a, f, p, Q) ==
    {<<p, q>> : q \in {r \in Q : /\ r \in InSeq(a[p])
                                 /\ Online(r)
                                 /\ p \in f[r]}}

-----------------------------------------------------------------------------
(* Coming and going. *)

\* login(): a new GameSpySession; a client that connects has an empty list.
Login(p) ==
    /\ on[p] = "off"
    /\ on'        = [on EXCEPT ![p] = "on"]
    /\ friends'   = [friends EXCEPT ![p] = {}]
    /\ auth'      = [auth EXCEPT ![p] = <<>>]
    /\ statusSet' = [statusSet EXCEPT ![p] = FALSE]
    /\ recv'      = [recv EXCEPT ![p] = {}]
    /\ shown'     = [shown EXCEPT ![p] = {}]
    /\ got'       = [got EXCEPT ![p] = {}]
    /\ late'      = {s \in late : s[2] # p}
    /\ raced'     = {s \in raced : s[1] # p}
    /\ UNCHANGED <<buf, open>>

\* No handler of p is under way.
Idle(p) == on[p] = "on" /\ buf[p] = {} /\ open[p] \in {"no", "yes"}

\* sendLogoutStatus.
Logout(p) ==
    /\ Idle(p)
    /\ on' = [on EXCEPT ![p] = "leaving"]
    /\ auth' = Unlisted(p, auth[p], FALSE)
    /\ LET told == {q \in InSeq(auth[p]) : Online(q) /\ isFriendAuthorized(q, p)}
       IN  Deliver({}, {<<p, q>> : q \in told})
    /\ UNCHANGED <<friends, statusSet, buf, open, raced>>

\* The last critical section of CloseConnection.
Gone(p) ==
    /\ on[p] = "leaving"
    /\ on' = [on EXCEPT ![p] = "off"]
    /\ UNCHANGED <<friends, auth, statusSet, recv, buf, open, clientVars, late,
                   raced>>

-----------------------------------------------------------------------------
(* Adding and removing friends. *)

\* Friends that are not mutual yet: n has added g, or takes everybody.
Accepts(n, g) == Online(n) /\ (OpenHost(n) \/ g \in friends[n])

\* addFriend.  A friend that is authorized already is ignored.
AddFriend(g, n) ==
    /\ Idle(g)
    /\ n \in Knows[g]
    /\ OpenHost(g) \/ ~isFriendAuthorized(g, n)
    /\ friends' = [friends EXCEPT ![g] = @ \cup {n}]
    /\ \/ /\ ~Accepts(n, g)
          /\ raced' = IF open[n] = "opening" THEN raced \cup {<<g, n>>} ELSE raced
          /\ UNCHANGED <<auth, recv, clientVars, late>>
       \/ /\ Accepts(n, g)
          /\ IF isFriendAuthorized(g, n)
             THEN UNCHANGED auth
             ELSE /\ auth' = [auth EXCEPT ![g] = Append(@, n), ![n] = Append(@, g)]
                  /\ InBounds
          /\ Deliver((IF g \in friends[n] /\ ~OpenHost(g)
                      THEN StatusTo(auth', friends', g, {n}) ELSE {})
                       \cup StatusTo(auth', friends', n, {g}), {})
          /\ UNCHANGED raced
    /\ UNCHANGED <<on, statusSet, buf, open>>

\* Mutant: removeFriend does not tell the former friend.
RemoveFriendSilently(g, d) ==
    /\ Idle(g)
    /\ d \in Knows[g]
    /\ friends' = [friends EXCEPT ![g] = @ \ {d}]
    /\ auth'  = IF OpenHost(g) THEN auth ELSE Unauthorize(auth, g, d)
    /\ shown' = [shown EXCEPT ![g] = @ \ {d}]
    /\ late'  = late \ {<<d, g>>}
    /\ UNCHANGED <<on, statusSet, recv, buf, open, got, raced>>

\* removeFriend: g forgets d; d is told, but keeps g among its own.  A client
\* forgets the status of a friend that it removes.
RemoveFriend(g, d) ==
    /\ Idle(g)
    /\ d \in Knows[g]
    /\ friends' = [friends EXCEPT ![g] = @ \ {d}]
    /\ auth' = IF OpenHost(g) THEN auth ELSE Unauthorize(auth, g, d)
    /\ LET told == ~OpenHost(g) /\ Online(d) /\ isFriendAuthorized(d, g)
       IN  /\ got'   = [got EXCEPT ![d] = IF told THEN @ \cup {g} ELSE @]
           /\ shown' = [shown EXCEPT ![g] = @ \ {d},
                                     ![d] = IF told THEN @ \ {g} ELSE @]
           /\ late'  = (late \ {<<d, g>>}) \ (IF told THEN {<<g, d>>} ELSE {})
    /\ UNCHANGED <<on, statusSet, recv, buf, open, raced>>

\* exchangeFriendStatus: the status of g is sent at once, the one for g goes
\* into its write buffer.
exchangeFriendStatus(g, f) ==
    LET out  == g \in friends[f] /\ isFriendAuthorized(f, g)
        back == f \in friends[g]
    IN  /\ recv'  = [q \in Profile |->
                       IF out /\ q = f THEN recv[q] \cup {g}
                       ELSE IF back /\ q = g THEN recv[q] \cup {f}
                       ELSE recv[q]]
        /\ buf'   = [buf EXCEPT ![g] = IF back THEN @ \cup {f} ELSE @]
        /\ got'   = [got EXCEPT ![f] = IF out THEN @ \cup {g} ELSE @]
        /\ shown' = [shown EXCEPT ![f] = IF out THEN @ \cup {g} ELSE @]
        /\ late'  = late \ (IF out THEN {<<g, f>>} ELSE {})

\* authAddFriend.
AuthAddFriend(g, f) ==
    /\ on[g] = "on" /\ open[g] \in {"no", "yes"}
    /\ f \in InSeq(auth[g])
    /\ Online(f)
    /\ exchangeFriendStatus(g, f)
    /\ UNCHANGED <<on, friends, auth, statusSet, open, raced>>

\* The end of HandlePacket: WriteBuffer is sent.  What it says of a friend may
\* be out of date.
Flush(g) ==
    /\ buf[g] # {}
    /\ buf'   = [buf EXCEPT ![g] = {}]
    /\ got'   = [got EXCEPT ![g] = @ \cup buf[g]]
    /\ shown' = [shown EXCEPT ![g] = @ \cup buf[g]]
    /\ UNCHANGED <<on, friends, auth, statusSet, recv, open, raced>>
    /\ late'  = late \cup {<<p, g>> : p \in {q \in buf[g] : Unannounced(q, g)}}

-----------------------------------------------------------------------------
(* Status and open host. *)

\* openHostEnabled: everybody who has added g is authorized, in the order of
\* the iteration over sessions.
Newly(g) == {q \in Profile : Online(q) /\ g \in friends[q] /\ ~isFriendAuthorized(q, g)}

Opened(g, order) ==
    [q \in Profile |-> IF q = g THEN auth[g] \o order
                       ELSE IF q \in Newly(g) THEN Append(auth[q], g)
                       ELSE auth[q]]

\* setStatus.  The first one carries out what OpenHost promises.
SetStatus(g) ==
    /\ Idle(g)
    /\ statusSet' = [statusSet EXCEPT ![g] = TRUE]
    /\ IF ~statusSet[g] /\ OpenHost(g)
       THEN \E order \in SetToSeqs(Newly(g)) : auth' = Opened(g, order) /\ InBounds
       ELSE UNCHANGED auth
    /\ Deliver(StatusTo(auth', friends, g, InSeq(auth'[g])), {})
    /\ UNCHANGED <<on, friends, buf, open, raced>>

\* updateProfile with wl:oh = 1: the part under the mutex.
OpenHostEnabled(g) ==
    /\ Idle(g) /\ g \in MayOpen
    /\ open[g] = "no"
    /\ open' = [open EXCEPT ![g] = "opening"]
    /\ \E order \in SetToSeqs(Newly(g)) : auth' = Opened(g, order) /\ InBounds
    /\ Deliver(UNION {StatusTo(auth', friends, q, {g}) : q \in Newly(g)}, {})
    /\ UNCHANGED <<on, friends, statusSet, buf, raced>>

\* The elements of AuthFriendList that openHostDisabled gets to: it returns at
\* the first that was added as a friend.
Strangers(g) ==
    LET added == {i \in DOMAIN auth[g] : auth[g][i] \in friends[g]}
    IN  IF added = {} THEN auth[g]
        ELSE SubSeq(auth[g], 1, (CHOOSE i \in added : \A j \in added : i <= j) - 1)

\* updateProfile with wl:oh = 0: the part under the mutex.
OpenHostDisabled(g) ==
    /\ Idle(g) /\ g \in MayOpen
    /\ open[g] = "yes"
    /\ open' = [open EXCEPT ![g] = "closing"]
    /\ auth' = Unlisted(g, Strangers(g), TRUE)
    /\ LET told == {q \in InSeq(Strangers(g)) : Online(q) /\ isFriendAuthorized(q, g)}
       IN  Deliver({}, {<<g, q>> : q \in told})
    /\ UNCHANGED <<on, friends, statusSet, buf, raced>>

\* User.UpdateProfile, after the mutex was released and qr2's own copy of the
\* flag, which nothing here reads, was set.
SetOpenHost(g) ==
    /\ open[g] \in {"opening", "closing"}
    /\ open' = [open EXCEPT ![g] = IF @ = "opening" THEN "yes" ELSE "no"]
    /\ UNCHANGED <<on, friends, auth, statusSet, recv, buf, clientVars, late, raced>>

-----------------------------------------------------------------------------
\* The end of bestieMessage: a message of g for t, preceded by a status without
\* content unless t is on record to have received one.
BestieMessage(g, t) ==
    /\ on[g] = "on" /\ open[g] \in {"no", "yes"}
    /\ t \in InSeq(auth[g])
    /\ Online(t)
    /\ g \notin recv[t]
    /\ recv' = [recv EXCEPT ![t] = @ \cup {g}]
    /\ got'  = [got EXCEPT ![t] = @ \cup {g}]
    /\ UNCHANGED <<on, friends, auth, statusSet, buf, open, shown, late, raced>>

-----------------------------------------------------------------------------
Next ==
    \E p \in Profile :
        \/ Login(p) \/ Logout(p) \/ Gone(p)
        \/ SetStatus(p) \/ Flush(p)
        \/ OpenHostEnabled(p) \/ OpenHostDisabled(p) \/ SetOpenHost(p)
        \/ \E q \in Profile :
            \/ AddFriend(p, q) \/ RemoveFriend(p, q)
            \/ AuthAddFriend(p, q) \/ BestieMessage(p, q)

Spec == Init /\ [][Next]_vars

-----------------------------------------------------------------------------
(* Properties. *)

\* What a client shows: a friend it shows as online is online, unless the
\* status came after the friend's logout had been announced (it was sent in the
\* gap of CloseConnection, or waited in a write buffer) or the receiver had
\* withdrawn its own authorization and added the friend again (main.go:150-164,
\* friend.go:333-361, main.go:282-298, friend.go:190-203).
ShownOnline ==
    \A q \in Profile : on[q] = "on" =>
        \A p \in shown[q] : on[p] = "on" \/ <<p, q>> \in late

\* RecvStatusFromList tells the truth: every sender on it has sent a status
\* that has arrived or is still in the receiver's write buffer, which is where
\* a message may overtake it (friend.go:363-371, message.go:335-342).
RecvTrue ==
    \A q \in Profile : Online(q) => recv[q] \subseteq got[q] \cup buf[q]

\* An open host that has announced itself has authorized everybody who added
\* it, but for those whose request came between openHostEnabled and the
\* assignment to User.OpenHost (friend.go:374-398, profile.go:88-102).
OpenHostComplete ==
    \A g, q \in Profile :
        /\ on[g] = "on" /\ open[g] = "yes" /\ statusSet[g]
        /\ on[q] = "on" /\ g \in friends[q]
        => isFriendAuthorized(q, g) \/ <<q, g>> \in raced

\* What the clients were told of their friends agrees with what the sessions
\* hold, through every interleaving of statuses, logouts, additions, removals
\* and open hosts (friend.go:89-411).
FriendsInv == FriendsTypeOK /\ ShownOnline /\ RecvTrue /\ OpenHostComplete

=============================================================================
