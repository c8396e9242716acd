---------------------------- MODULE MCQR2Session ----------------------------
(***************************************************************************)
(* Model values for QR2Session, with more objects than addresses and       *)
(* profiles, and for ConnMap, whose players are the same objects.  The two *)
(* share no state, so each behaviour is of one of them.  To bound what can *)
(* happen around a setProfileID without the mutex, the behaviours that     *)
(* have one have a single message and a single challenge at a time, no     *)
(* client that falls silent, no message that times out and no heartbeat    *)
(* with unknown keys.                                                      *)
(***************************************************************************)
EXTENDS QR2Session, ConnMap, TLC

CONSTANTS a1, a2, s1, s2, s3, l1, l2, p1, p2

VARIABLE part       \* what this behaviour is of

MCAddr    == {a1, a2}
MCSess    == {s1, s2, s3}
MCLogin   == {l1, l2}
MCProfile == {p1, p2}

MCInit ==
    /\ part \in {"tables", "race", "conn"}
    /\ Init /\ ConnInit

AroundRace ==
    /\ Cardinality(held') <= 1
    /\ silent' = {}
    /\ tainted' = {}
    /\ \A a \in Addr : beat'[a] # "unknown"
    /\ Cardinality({a \in Addr : beat'[a] # "none"}) <= 1

MCNext ==
    /\ UNCHANGED part
    /\ \/ part = "tables" /\ ~crashed /\ Next /\ UNCHANGED <<races, cvars>>
       \/ part = "race" /\ ~crashed /\ Next /\ AroundRace /\ UNCHANGED cvars
       \/ part = "conn" /\ ConnNext /\ UNCHANGED vars

MCSpec == MCInit /\ [][MCNext]_<<part, vars, cvars>>

Symmetry == Permutations(MCAddr) \cup Permutations(MCSess)
              \cup Permutations(MCLogin) \cup Permutations(MCProfile)

\* What can still be read of a process that did not end: the flags of a session
\* that is in the table, and the other fields of one that the table, a login or a
\* message points to.
Reachable(s) == \/ Live(s) \/ s \in held \/ race[s].at # "none"
                \/ \E l \in Login : sessOf[l] = s

View ==
    LET live == {s \in Sess : Live(s)}
    IN  IF crashed THEN <<part>> ELSE
        <<part, cvars, table, search, loginOf, sessOf, logins, beat, held, raceVars,
          tainted, chal \cap live, authd \cap live, silent \cap live,
          [s \in Sess |-> IF addrOf[s] = None THEN "new"
                         ELSE IF Reachable(s) THEN <<addrOf[s], pidOf[s]>> ELSE "gone"]>>

=============================================================================
