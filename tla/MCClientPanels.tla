--------------------------- MODULE MCClientPanels ---------------------------
(* Values for checking ClientPanels with TLC. *)
EXTENDS ClientPanels, TLC

CONSTANTS me, bob, carol, team, club

\* the user's own login comes first in the file
Users == <<me, bob, carol>>
SomeMembers == {<<me>>, <<me, bob>>}

\* the chats are interchangeable
Symmetry == Permutations(ChatNames)
=============================================================================
