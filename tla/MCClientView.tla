---------------------------- MODULE MCClientView ----------------------------
(* Values for checking ClientView with TLC. *)
EXTENDS ClientView

CONSTANTS me, bob, carol, team
=============================================================================
