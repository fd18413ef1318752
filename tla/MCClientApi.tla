---------------------------- MODULE MCClientApi ----------------------------
(* Values for checking ClientApi with TLC. *)
EXTENDS ClientApi, TLC

CONSTANTS main, worker, reader

TwoAndOne == main :> 2 @@ worker :> 1
One == main :> 1
============================================================================
