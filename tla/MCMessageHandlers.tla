------------------------- MODULE MCMessageHandlers -------------------------
(* Values for checking MessageHandlers with TLC. *)
EXTENDS MessageHandlers, TLC

CONSTANTS q1, q2, alice, bob, x, y, team

OneUser == <<[login |-> alice, pass |-> x]>>
OneChat == <<[name |-> team, creator |-> alice, users |-> <<alice>>]>>

\* posts and reads in the chat and in the dialog of the two
ChatAndDialog ==
  [kind : {"post", "read"}, chat : {TRUE}, to : {team}, by : {alice, bob}]
  \cup [kind : {"post"}, chat : {FALSE}, to : {bob}, by : {alice, bob}]
  \cup [kind : {"read"}, chat : {FALSE}, to : {alice}, by : {bob}]

\* the children are interchangeable
Symmetry == Permutations(Procs)
=============================================================================
