----------------------------- MODULE MCJsonFile -----------------------------
(* Values for checking JsonFile with TLC. *)
EXTENDS JsonFile

CONSTANTS q1, q2, q3, a, b
=============================================================================
