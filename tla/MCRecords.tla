----------------------------- MODULE MCRecords ------------------------------
(***************************************************************************)
(* What the server keeps of accounts and of the races in a room, one at a  *)
(* time: they share no state.                                              *)
(***************************************************************************)
EXTENDS Accounts, RaceStats, TLC

CONSTANTS x1, x2, y1, y2, z1, z2

VARIABLE part       \* what this behaviour is of

recordVars == <<part, avars, raceVars>>

MCInit ==
    /\ part \in {"accounts", "race"}
    /\ AccountsInit /\ RaceInit

MCNext ==
    /\ UNCHANGED part
    /\ \/ part = "accounts" /\ AccountsNext /\ UNCHANGED raceVars
       \/ part = "race" /\ RaceNext /\ UNCHANGED avars

MCSpec == MCInit /\ [][MCNext]_recordVars

\* Each set has two members that its part treats alike; the parts share them, so
\* that there are few permutations.
MCSymmetry == Permutations({x1, x2}) \cup Permutations({y1, y2}) \cup Permutations({z1, z2})
=============================================================================
