------------------------------ MODULE MCNames ------------------------------
(* Values for checking Names with TLC. *)
EXTENDS Names

\* plain, with each separator, and one that does not fit
SomeUsers == {<<4>>, <<5>>, <<4, 5>>, <<4, Dash>>, <<Dash, 4>>, <<4, Colon>>,
              <<Colon, 5>>, <<4, Slash, 5>>, <<4, 4, 5>>, <<4, 4, 4, 4>>}
\* of every length around the limits, with slashes, and words of the routes
SomeChats == {[i \in 1..n |-> 4] : n \in 1..9}
               \cup {<<4, Slash>>, <<Slash, 4>>, <<4, Slash, 5>>, <<Slash>>,
                     <<4, Slash>> \o UsersWord, UsersWord, <<13>>}
PlainChats == {[i \in 1..n |-> 4] : n \in 1..9}
PlainUsers == {<<4>>}
=============================================================================
