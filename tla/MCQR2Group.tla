----------------------------- MODULE MCQR2Group -----------------------------
(***************************************************************************)
(* Values for the constants of QR2Group.                                   *)
(***************************************************************************)
EXTENDS QR2Group, TLC

\* A player of public matches that hosts and one that does not.
HostOrGuest == [host : BOOLEAN, mtype : {"0"}]

\* A player in public matchmaking and one in a friend room.
PublicOrPrivate == {[host |-> TRUE, mtype |-> "0"], [host |-> TRUE, mtype |-> "3"]}

Hosting == {[host |-> TRUE, mtype |-> "0"]}

\* Only client messages ask for a login.
SeenStatus(s) ==
    CASE Messages # {} -> status[s]
      [] status[s] \in {"linked", "orphan"} -> "linked"
      [] status[s] \in {"stray", "left"} -> "left"
      [] OTHER -> status[s]

\* What can still be reached: the fields of an object nobody points to (garbage
\* in the Go heap) and the join index of a session in no room are overwritten
\* before they are read again, and a search ID that belongs to nobody compares
\* equal to none.
Reachable ==
    <<groups, beat, msg, gp,
      [s \in Sess |-> IF Unreferenced(s) THEN <<>> ELSE
          <<SeenStatus(s), data[s], groupPtr[s], groupName[s], hasResv[s],
            IF groupPtr[s] = NoGroup THEN -1 ELSE joinIndex[s],
            IF resvID[s] # NoSess /\ Unreferenced(resvID[s]) THEN NoSess
                                                            ELSE resvID[s]>>],
      [g \in Group |-> IF FreeGroup(g) THEN <<>> ELSE
          <<players[g], server[g], lastJoin[g], matchType[g]>>]>>

Symmetry == Permutations(Sess) \cup Permutations(Group)
=============================================================================
