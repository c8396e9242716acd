----------------------------- MODULE MCFrontend -----------------------------
(***************************************************************************)
(* Frontend with interchangeable connections.                              *)
(***************************************************************************)
EXTENDS Frontend, TLC

Symmetry == Permutations(Conn)
=============================================================================
