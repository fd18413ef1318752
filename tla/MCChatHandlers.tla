--------------------------- MODULE MCChatHandlers ---------------------------
(* Values for checking ChatHandlers with TLC. *)
EXTENDS ChatHandlers, TLC

CONSTANTS q1, q2, alice, bob, x, y, team, club

NoChats == <<>>
OneUser == <<[login |-> alice, pass |-> x]>>

\* the children are interchangeable
Symmetry == Permutations(Procs)
=============================================================================
