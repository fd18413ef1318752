----------------------------- MODULE NotifyBus ------------------------------
(***************************************************************************)
(* What the notification path promises, without the table, the mutex, the  *)
(* pipes and the processes: NotifyServer implements it as long as the      *)
(* kernel gives no pid out twice.                                          *)
(*                                                                         *)
(* A connection posts notifications, each addressed to a login.  They are  *)
(* taken in the order they were posted; each goes to one connection that   *)
(* presented a valid token for the addressee, or is lost.                  *)
(***************************************************************************)
EXTENDS Naturals, Sequences

CONSTANTS Conns, Logins

Note == [from : Conns, n : Nat, to : Logins]

VARIABLES
  pending,   \* posted by each connection and neither delivered nor lost
  posted,    \* how many each connection posted; numbers them
  authed,    \* logins each connection presented a valid token for
  inbox      \* notifications delivered to each connection, in order

busVars == <<pending, posted, authed, inbox>>

Init ==
  /\ pending = [c \in Conns |-> <<>>]
  /\ posted = [c \in Conns |-> 0]
  /\ authed = [c \in Conns |-> {}]
  /\ inbox = [c \in Conns |-> <<>>]

Authenticate(d, l) ==
  /\ authed' = [authed EXCEPT ![d] = @ \cup {l}]
  /\ UNCHANGED <<pending, posted, inbox>>

Post(c, l) ==
  /\ posted' = [posted EXCEPT ![c] = @ + 1]
  /\ pending' = [pending EXCEPT ![c] =
       Append(@, [from |-> c, n |-> posted[c] + 1, to |-> l])]
  /\ UNCHANGED <<authed, inbox>>

Deliver(c, d) ==
  /\ pending[c] # <<>> /\ Head(pending[c]).to \in authed[d]
  /\ inbox' = [inbox EXCEPT ![d] = Append(@, Head(pending[c]))]
  /\ pending' = [pending EXCEPT ![c] = Tail(@)]
  /\ UNCHANGED <<posted, authed>>

\* the addressee is away or left, or the poster's pipe was closed with
\* everything in it
Lose(c, k) ==
  /\ k <= Len(pending[c])
  /\ pending' = [pending EXCEPT ![c] = SubSeq(@, k + 1, Len(@))]
  /\ UNCHANGED <<posted, authed, inbox>>

Next ==
  \E c \in Conns :
     \/ \E l \in Logins : Authenticate(c, l) \/ Post(c, l)
     \/ \E d \in Conns : Deliver(c, d)
     \/ \E k \in 1..Len(pending[c]) : Lose(c, k)

Spec == Init /\ [][Next]_busVars
-----------------------------------------------------------------------------
(***************************************************************************)
(* A client receives another connection's notifications in the order they  *)
(* were posted, none twice: pipe, dispatch loop and table never reorder or *)
(* repeat.                                                                 *)
(***************************************************************************)
InOrder ==
  \A d \in Conns : \A i, j \in 1..Len(inbox[d]) :
     i < j /\ inbox[d][i].from = inbox[d][j].from => inbox[d][i].n < inbox[d][j].n

(***************************************************************************)
(* A notification reaches one connection at most, even when several have   *)
(* presented a token of the addressee.                                     *)
(***************************************************************************)
OneRecipient ==
  \A d, e \in Conns : \A i \in 1..Len(inbox[d]), j \in 1..Len(inbox[e]) :
     inbox[d][i].from = inbox[e][j].from /\ inbox[d][i].n = inbox[e][j].n => d = e
=============================================================================
