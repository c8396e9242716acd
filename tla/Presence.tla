------------------------------ MODULE Presence ------------------------------
(***************************************************************************)
(* What gpcm promises about a profile that is online, as the rest of the   *)
(* server relies on it: a profile belongs to one connection at a time, a   *)
(* connection to one profile; qr2 may use a profile from the moment its    *)
(* holder announces it until the holder withdraws it; and nobody else gets *)
(* the profile before its holder has gone.                                 *)
(*                                                                         *)
(* The promise ends when a session's profile ID is replaced under it, the  *)
(* one thing gpcm does that no step below allows: see GPCM, ExLogin.       *)
(***************************************************************************)
CONSTANTS Conn, Profile, NoConn

VARIABLES
    holder,     \* the connection a profile belongs to, or NoConn
    phase,      \* how far its holder is
    announced   \* the profiles qr2 knows as logged in

vars == <<holder, phase, announced>>

Phases == {"free", "entering", "present", "leaving", "unknown"}

Init ==
    /\ holder    = [p \in Profile |-> NoConn]
    /\ phase     = [p \in Profile |-> "free"]
    /\ announced = {}

\* A connection that holds no profile gets one that nobody holds.
Enter(p, c) ==
    /\ phase[p] = "free"
    /\ \A q \in Profile : holder[q] # c
    /\ holder' = [holder EXCEPT ![p] = c]
    /\ phase'  = [phase EXCEPT ![p] = "entering"]
    /\ UNCHANGED announced

Announce(p) ==
    /\ phase[p] = "entering"
    /\ phase'     = [phase EXCEPT ![p] = "present"]
    /\ announced' = announced \cup {p}
    /\ UNCHANGED holder

Withdraw(p) ==
    /\ phase[p] = "present"
    /\ phase'     = [phase EXCEPT ![p] = "leaving"]
    /\ announced' = announced \ {p}
    /\ UNCHANGED holder

Free(p) ==
    /\ phase[p] = "leaving"
    /\ holder' = [holder EXCEPT ![p] = NoConn]
    /\ phase'  = [phase EXCEPT ![p] = "free"]
    /\ UNCHANGED announced

\* The end of the promise.
Disorder ==
    /\ holder'    = [p \in Profile |-> NoConn]
    /\ phase'     = [p \in Profile |-> "unknown"]
    /\ announced' = {}

Next ==
    \/ \E p \in Profile :
        \/ \E c \in Conn : Enter(p, c)
        \/ Announce(p) \/ Withdraw(p) \/ Free(p)
    \/ Disorder

Spec == Init /\ [][Next]_vars

=============================================================================
