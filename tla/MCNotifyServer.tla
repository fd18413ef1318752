--------------------------- MODULE MCNotifyServer ---------------------------
(* Values for checking NotifyServer with TLC. *)
EXTENDS NotifyServer, TLC

CONSTANTS c1, c2, p1, p2, alice, bob

\* a private message goes to its addressee and then to its sender
Private == {<<>>, <<bob, alice>>}
\* a private message to oneself: two notifications for one connection
ToOneself == {<<bob, bob>>}

OneTarget == {<<>>, <<bob>>}

\* connections are interchangeable, and so are pids
Symmetry == Permutations(Conns) \cup Permutations(Pids)
=============================================================================
