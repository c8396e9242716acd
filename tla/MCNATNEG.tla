------------------------------ MODULE MCNATNEG ------------------------------
(***************************************************************************)
(* NATNEG with interchangeable clients, handlers and session objects.  What *)
(* is left in an object that nobody refers to is not looked at.            *)
(***************************************************************************)
EXTENDS NATNEG, TLC

Symmetry == Permutations(Client) \cup Permutations(Sess) \cup Permutations(Handlers)

\* The fields of s while anybody may use them.
Fields(s) ==
    IF Free(s)
    THEN <<>>
    ELSE <<open[s], timer[s], clients[s], neg[s], srv[s], peer[s], ack[s],
           tried[s], busy[s], hub[s]>>

View == <<current, [s \in Sess |-> Fields(s)], loops, ptr, reloads>>
=============================================================================
