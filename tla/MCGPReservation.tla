-------------------------- MODULE MCGPReservation ---------------------------
(***************************************************************************)
(* Match messages between two friends.                                     *)
(***************************************************************************)
EXTENDS GPReservation

ReservationSpec == ReservationInit /\ [][ReservationNext]_rvars
=============================================================================
