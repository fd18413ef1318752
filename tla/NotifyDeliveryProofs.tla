------------------------ MODULE NotifyDeliveryProofs ------------------------
(***************************************************************************)
(* Proofs about the notification path of NotifyServer: its pipes stay      *)
(* framed, what clients receive is in order and unique, and the server     *)
(* implements NotifyBus.  For any number of connections, logins, requests  *)
(* and entries, any room in the pipes, any faults.                         *)
(***************************************************************************)
EXTENDS NotifyServerProofs

\* the notifications of c whose body is in its pipe
Pairs(c) == (Len(pipe[c]) + Ahead(c)) \div 2

(***************************************************************************)
(* What a pipe q of connection c holds when o headers were taken from it   *)
(* without their body (h is the notification of that one) and its child    *)
(* counts s notifications written: headers and bodies in turn, each header *)
(* followed by its body, and the last body has number s.                   *)
(***************************************************************************)
InStep(c, q, o, h, s) ==
  /\ \A k \in 1..Len(q) :
       /\ q[k].part = IF (k + o) % 2 = 1 THEN "header" ELSE "body"
       /\ q[k].note.from = c
       /\ q[k].note.n + ((Len(q) + o) \div 2) = s + ((k + o + 1) \div 2)
  /\ \A k \in 1..(Len(q) - 1) : q[k].part = "header" => q[k + 1].note = q[k].note
  /\ o = 1 => /\ h.from = c /\ h.n + ((Len(q) + 1) \div 2) = s + 1
              /\ q # <<>> => q[1].note = h
PipesInStep == \A c \in Conns : InStep(c, pipe[c], Ahead(c), hand, sent[c])

\* the notification the last part written to c's pipe belongs to
LastNote(c) == IF pipe[c] = <<>> THEN hand ELSE pipe[c][Len(pipe[c])].note

\* a child that runs stands where its pipe says: between a header and its
\* body, or between two notifications
WriterInStep(c) ==
  /\ child[c] = "none" => pipe[c] = <<>>
  /\ child[c] = "body" => /\ (Len(pipe[c]) + Ahead(c)) % 2 = 1
                          /\ LastNote(c) = NextNote(c)
  /\ Alive(c) /\ child[c] # "body" => (Len(pipe[c]) + Ahead(c)) % 2 = 0
WritersInStep == \A c \in Conns : WriterInStep(c)

\* m is older than whatever is in the pipe it came through
Behind(m) == m.n + Pairs(m.from) <= sent[m.from]
Received == UNION {{inbox[d][i] : i \in 1..Len(inbox[d])} : d \in Conns}

\* what was received is older than the notification being written to a
\* client, which is older than what is in the pipe
DeliveredBehind ==
  /\ main = "send" => Behind(hand)
  /\ \A m \in Received :
       Behind(m) /\ (main = "send" /\ hand.from = m.from => m.n < hand.n)

\* the inductive invariant of the notification path
Delivery == /\ IInv /\ PipesInStep /\ WritersInStep
            /\ DeliveredBehind /\ DeliveredInOrder /\ DeliveredOnce
-----------------------------------------------------------------------------
\* An empty pipe, and no header taken.
LEMMA InStepEmpty ==
  ASSUME NEW c \in Conns, NEW h, NEW s \in Nat
  PROVE  InStep(c, <<>>, 0, h, s)
BY DEF InStep

\* Without a header taken, what the dispatcher holds does not matter.
LEMMA InStepNoHand ==
  ASSUME NEW c \in Conns, NEW q, NEW h, NEW g, NEW s, InStep(c, q, 0, h, s)
  PROVE  InStep(c, q, 0, g, s)
BY DEF InStep

\* A part of a pipe has the number of a notification.
LEMMA NumberOfPart ==
  ASSUME NEW q \in Seq(Item), NEW k \in 1..Len(q)
  PROVE  q[k] \in Item /\ q[k].note \in Note /\ q[k].note.n \in Nat
<1>1. q[k] \in Item
  BY ElementOfSeq
<1>2. q[k].note \in Note
  BY <1>1 DEF Item
<1> QED
  BY <1>1, <1>2 DEF Note

\* The last part of a pipe is the last one of what is left of it.
LEMMA LastOfTail ==
  ASSUME NEW q \in Seq(Item), q # <<>>
  PROVE  IF Tail(q) = <<>> THEN q[Len(q)] = Head(q)
                           ELSE Tail(q)[Len(Tail(q))] = q[Len(q)]
<1> DEFINE r == Tail(q)
<1>1. /\ Len(q) \in Nat \ {0} /\ Len(r) = Len(q) - 1
      /\ \A k \in 1..Len(r) : r[k] = q[k + 1]
  BY HeadTailProperties, EmptySeq
<1>2. Head(q) = q[1] /\ r \in Seq(Item)
  BY HeadTailProperties
<1> HIDE DEF r
<1>3. r = <<>> <=> Len(r) = 0
  BY <1>2, EmptySeq
<1>4. r # <<>> => Len(r) \in 1..Len(r) /\ Len(r) + 1 = Len(q)
  BY <1>1, <1>3
<1>5. r # <<>> => r[Len(r)] = q[Len(q)]
  BY <1>1, <1>4
<1>6. r = <<>> => Len(q) = 1
  BY <1>1, <1>3
<1>7. r = <<>> => q[Len(q)] = Head(q)
  BY <1>2, <1>6
<1> QED
  BY <1>5, <1>7 DEF r

\* Writing the header of the next notification keeps a pipe in step.
LEMMA InStepHeader ==
  ASSUME NEW c \in Conns, NEW q \in Seq(Item), NEW o \in {0, 1}, NEW h, NEW s \in Nat,
         InStep(c, q, o, h, s), (Len(q) + o) % 2 = 0,
         NEW m \in Note, m.from = c, m.n = s + 1
  PROVE  InStep(c, Append(q, [part |-> "header", note |-> m]), o, h, s)
<1> DEFINE e == [part |-> "header", note |-> m]
           r == Append(q, e)
<1>1. e \in Item /\ e.part = "header" /\ e.note = m
  BY DEF Item
<1> HIDE DEF e
<1>2. /\ Len(q) \in Nat /\ Len(r) = Len(q) + 1 /\ r[Len(q) + 1] = e
      /\ \A k \in 1..Len(q) : r[k] = q[k]
  BY <1>1, AppendProperties
<1> HIDE DEF r
<1>3. (Len(q) + o + 1) \div 2 = (Len(q) + o) \div 2 /\ (Len(q) + 1 + o) % 2 = 1
      /\ (Len(q) + o + 2) \div 2 = 1 + ((Len(q) + o) \div 2)
  BY <1>2
<1>4. q = <<>> => Len(q) = 0
  BY EmptySeq
<1>5. ASSUME NEW k \in 1..Len(q) PROVE q[k].note.n \in Nat
  BY <1>2, <1>5, NumberOfPart
<1>6. ASSUME NEW k \in 1..Len(r)
      PROVE  /\ r[k].part = IF (k + o) % 2 = 1 THEN "header" ELSE "body"
             /\ r[k].note.from = c
             /\ r[k].note.n + ((Len(r) + o) \div 2) = s + ((k + o + 1) \div 2)
  <2>1. CASE k \in 1..Len(q)
    <3>1. /\ q[k].part = IF (k + o) % 2 = 1 THEN "header" ELSE "body"
          /\ q[k].note.from = c
          /\ q[k].note.n + ((Len(q) + o) \div 2) = s + ((k + o + 1) \div 2)
      BY <2>1 DEF InStep
    <3>2. (Len(r) + o) \div 2 = (Len(q) + o) \div 2
      BY <1>2
    <3> QED
      BY <1>2, <2>1, <3>1, <3>2
  <2>2. CASE k = Len(q) + 1
    <3>1. (k + o) % 2 = 1
      BY <1>2, <2>2
    <3>2. s + 1 + ((k + o) \div 2) = s + ((k + o + 1) \div 2)
      BY <1>2, <2>2
    <3> QED
      BY <1>1, <1>2, <2>2, <3>1, <3>2
  <2> QED
    BY <1>2, <2>1, <2>2
<1>7. ASSUME NEW k \in 1..(Len(r) - 1), r[k].part = "header" PROVE r[k + 1].note = r[k].note
  <2>1. CASE k < Len(q)
    <3>1. k \in 1..(Len(q) - 1) /\ k \in 1..Len(q) /\ k + 1 \in 1..Len(q)
      BY <1>2, <2>1
    <3> QED
      BY <1>2, <1>7, <3>1 DEF InStep
  <2>2. CASE k = Len(q)
    <3>1. q[k].part = "body"
      BY <1>2, <2>2 DEF InStep
    <3> QED
      BY <1>2, <1>7, <2>2, <3>1
  <2> QED
    BY <1>2, <2>1, <2>2
<1>8. o = 1 => /\ h.from = c /\ h.n + ((Len(r) + 1) \div 2) = s + 1
               /\ r # <<>> => r[1].note = h
  BY <1>2, <1>3, <1>4 DEF InStep
<1>9. InStep(c, r, o, h, s)
  BY <1>6, <1>7, <1>8 DEF InStep
<1> QED
  BY <1>9 DEF r, e

\* Writing its body does, and the child counts one more.
LEMMA InStepBody ==
  ASSUME NEW c \in Conns, NEW q \in Seq(Item), NEW o \in {0, 1}, NEW h, NEW s \in Nat,
         InStep(c, q, o, h, s), (Len(q) + o) % 2 = 1,
         NEW m \in Note, m.from = c, m.n = s + 1,
         m = IF q = <<>> THEN h ELSE q[Len(q)].note
  PROVE  InStep(c, Append(q, [part |-> "body", note |-> m]), o, h, s + 1)
<1> DEFINE e == [part |-> "body", note |-> m]
           r == Append(q, e)
<1>1. e \in Item /\ e.part = "body" /\ e.note = m
  BY DEF Item
<1> HIDE DEF e
<1>2. /\ Len(q) \in Nat /\ Len(r) = Len(q) + 1 /\ r[Len(q) + 1] = e
      /\ \A k \in 1..Len(q) : r[k] = q[k]
  BY <1>1, AppendProperties
<1> HIDE DEF r
<1>4. (q = <<>> => Len(q) = 0) /\ (q # <<>> => Len(q) # 0)
  BY EmptySeq
<1>5. ASSUME NEW k \in 1..Len(q) PROVE q[k].note.n \in Nat
  BY <1>2, <1>5, NumberOfPart
<1>6. ASSUME NEW k \in 1..Len(r)
      PROVE  /\ r[k].part = IF (k + o) % 2 = 1 THEN "header" ELSE "body"
             /\ r[k].note.from = c
             /\ r[k].note.n + ((Len(r) + o) \div 2) = s + 1 + ((k + o + 1) \div 2)
  <2>1. CASE k \in 1..Len(q)
    <3>1. /\ q[k].part = IF (k + o) % 2 = 1 THEN "header" ELSE "body"
          /\ q[k].note.from = c
          /\ q[k].note.n + ((Len(q) + o) \div 2) = s + ((k + o + 1) \div 2)
      BY <2>1 DEF InStep
    <3>2. (Len(r) + o) \div 2 = 1 + ((Len(q) + o) \div 2)
      BY <1>2, SMTT(30)
    <3>3. (Len(q) + o) \div 2 \in Nat /\ (k + o + 1) \div 2 \in Nat /\ q[k].note.n \in Nat
      BY <1>2, <1>5, <2>1
    <3>4. q[k].note.n + ((Len(r) + o) \div 2) = s + 1 + ((k + o + 1) \div 2)
      BY <1>2, <2>1, <3>1, <3>2, <3>3, SMTT(30)
    <3> QED
      BY <1>2, <2>1, <3>1, <3>4
  <2>2. CASE k = Len(q) + 1
    <3>1. (k + o) % 2 # 1
      BY <1>2, <2>2
    <3>2. s + 1 + ((k + o) \div 2) = s + 1 + ((k + o + 1) \div 2)
      BY <1>2, <2>2
    <3> QED
      BY <1>1, <1>2, <2>2, <3>1, <3>2
  <2> QED
    BY <1>2, <2>1, <2>2
<1>7. ASSUME NEW k \in 1..(Len(r) - 1), r[k].part = "header" PROVE r[k + 1].note = r[k].note
  <2>1. CASE k < Len(q)
    <3>1. k \in 1..(Len(q) - 1) /\ k \in 1..Len(q) /\ k + 1 \in 1..Len(q)
      BY <1>2, <2>1
    <3> QED
      BY <1>2, <1>7, <3>1 DEF InStep
  <2>2. CASE k = Len(q)
    BY <1>1, <1>2, <1>4, <2>2
  <2> QED
    BY <1>2, <2>1, <2>2
<1>8. o = 1 => /\ h.from = c /\ h.n + ((Len(r) + 1) \div 2) = s + 1 + 1
               /\ r # <<>> => r[1].note = h
  <2>1. o = 1 => h.from = c /\ h.n + ((Len(q) + 1) \div 2) = s + 1
                 /\ (q # <<>> => q[1].note = h)
    BY DEF InStep
  <2>2. o = 1 => (Len(r) + 1) \div 2 = 1 + ((Len(q) + 1) \div 2)
    BY <1>2
  <2>3. q = <<>> => (o = 1 /\ h = m /\ r[1] = e)
    BY <1>2, <1>4
  <2>6. CASE q = <<>>
    <3>1. Len(r) = 1 /\ (Len(r) + 1) \div 2 = 1 /\ h.n = s + 1
      BY <1>2, <1>4, <2>3, <2>6
    <3> QED
      BY <1>1, <2>3, <2>6, <3>1
  <2>7. CASE q # <<>>
    <3>1. 1 \in 1..Len(q) /\ q[1].note.n \in Nat /\ r[1] = q[1]
      BY <1>2, <1>4, <1>5, <2>7
    <3>2. (Len(q) + 1) \div 2 \in Nat
      BY <1>2
    <3> QED
      BY <2>1, <2>2, <2>7, <3>1, <3>2
  <2> QED
    BY <2>6, <2>7
<1>9. InStep(c, r, o, h, s + 1)
  BY <1>6, <1>7, <1>8 DEF InStep
<1> QED
  BY <1>9 DEF r, e

\* Taking a header puts the dispatcher one part ahead.
LEMMA InStepTakeHeader ==
  ASSUME NEW c \in Conns, NEW q \in Seq(Item), q # <<>>, NEW h, NEW s \in Nat,
         InStep(c, q, 0, h, s)
  PROVE  InStep(c, Tail(q), 1, Head(q).note, s)
<1> DEFINE r == Tail(q)
<1>1. /\ Len(q) \in Nat \ {0} /\ Len(r) = Len(q) - 1 /\ \A k \in 1..Len(r) : r[k] = q[k + 1]
      /\ Head(q) = q[1]
  BY HeadTailProperties, EmptySeq
<1>2. r # <<>> => Len(r) # 0
  BY HeadTailProperties, EmptySeq
<1> HIDE DEF r
<1>3. ASSUME NEW k \in 1..Len(r)
      PROVE  /\ r[k].part = IF (k + 1) % 2 = 1 THEN "header" ELSE "body"
             /\ r[k].note.from = c
             /\ r[k].note.n + ((Len(r) + 1) \div 2) = s + ((k + 1 + 1) \div 2)
  <2>1. k + 1 \in 1..Len(q)
    BY <1>1
  <2>2. /\ q[k + 1].part = IF (k + 1 + 0) % 2 = 1 THEN "header" ELSE "body"
        /\ q[k + 1].note.from = c
        /\ q[k + 1].note.n + ((Len(q) + 0) \div 2) = s + ((k + 1 + 0 + 1) \div 2)
    BY <2>1 DEF InStep
  <2> QED
    BY <1>1, <2>2
<1>4. ASSUME NEW k \in 1..(Len(r) - 1), r[k].part = "header" PROVE r[k + 1].note = r[k].note
  <2>1. k + 1 \in 1..(Len(q) - 1)
    BY <1>1
  <2>2. r[k] = q[k + 1] /\ r[k + 1] = q[k + 1 + 1]
    BY <1>1
  <2> QED
    BY <1>4, <2>1, <2>2 DEF InStep
<1>5. /\ q[1].part = IF (1 + 0) % 2 = 1 THEN "header" ELSE "body"
      /\ q[1].note.from = c
      /\ q[1].note.n + ((Len(q) + 0) \div 2) = s + ((1 + 0 + 1) \div 2)
  BY <1>1 DEF InStep
<1>6. r # <<>> => r[1].note = q[1].note
  <2>1. r # <<>> => 1 \in 1..(Len(q) - 1) /\ r[1] = q[1 + 1]
    BY <1>1, <1>2
  <2> QED
    BY <1>5, <2>1 DEF InStep
<1>7. InStep(c, r, 1, Head(q).note, s)
  BY <1>1, <1>3, <1>4, <1>5, <1>6 DEF InStep
<1> QED
  BY <1>7 DEF r

\* Taking the body ends that.
LEMMA InStepTakeBody ==
  ASSUME NEW c \in Conns, NEW q \in Seq(Item), q # <<>>, NEW h, NEW g, NEW s \in Nat,
         InStep(c, q, 1, h, s)
  PROVE  InStep(c, Tail(q), 0, g, s)
<1> DEFINE r == Tail(q)
<1>1. /\ Len(q) \in Nat \ {0} /\ Len(r) = Len(q) - 1 /\ \A k \in 1..Len(r) : r[k] = q[k + 1]
  BY HeadTailProperties, EmptySeq
<1> HIDE DEF r
<1>2. ASSUME NEW k \in 1..Len(r) PROVE r[k].note.n \in Nat
  <2>1. k + 1 \in 1..Len(q)
    BY <1>1
  <2> QED
    BY <1>1, <2>1, NumberOfPart
<1>3. ASSUME NEW k \in 1..Len(r)
      PROVE  /\ r[k].part = IF (k + 0) % 2 = 1 THEN "header" ELSE "body"
             /\ r[k].note.from = c
             /\ r[k].note.n + ((Len(r) + 0) \div 2) = s + ((k + 0 + 1) \div 2)
  <2>1. k + 1 \in 1..Len(q)
    BY <1>1
  <2>2. /\ q[k + 1].part = IF (k + 1 + 1) % 2 = 1 THEN "header" ELSE "body"
        /\ q[k + 1].note.from = c
        /\ q[k + 1].note.n + ((Len(q) + 1) \div 2) = s + ((k + 1 + 1 + 1) \div 2)
    BY <2>1 DEF InStep
  <2>3. (k + 1 + 1) % 2 = (k + 0) % 2 /\ (k + 1 + 1 + 1) \div 2 = 1 + ((k + 0 + 1) \div 2)
        /\ (Len(q) + 1) \div 2 = 1 + ((Len(r) + 0) \div 2)
    BY <1>1
  <2>4. (k + 0 + 1) \div 2 \in Nat /\ (Len(r) + 0) \div 2 \in Nat /\ r[k].note.n \in Nat
        /\ r[k] = q[k + 1]
    BY <1>1, <1>2
  <2>5. r[k].note.n + ((Len(r) + 0) \div 2) = s + ((k + 0 + 1) \div 2)
    BY <2>2, <2>3, <2>4, SMTT(30)
  <2> QED
    BY <2>2, <2>3, <2>4, <2>5
<1>4. ASSUME NEW k \in 1..(Len(r) - 1), r[k].part = "header" PROVE r[k + 1].note = r[k].note
  <2>1. k + 1 \in 1..(Len(q) - 1)
    BY <1>1
  <2>2. r[k] = q[k + 1] /\ r[k + 1] = q[k + 1 + 1]
    BY <1>1
  <2> QED
    BY <1>4, <2>1, <2>2 DEF InStep
<1>5. InStep(c, r, 0, g, s)
  BY <1>3, <1>4 DEF InStep
<1> QED
  BY <1>5 DEF r
-----------------------------------------------------------------------------
\* a step that leaves the notification path alone
Steady ==
  /\ UNCHANGED <<pipe, sent, inbox>>
  /\ \/ main \notin {"readbody", "send"} /\ main' \notin {"readbody", "send"}
     \/ UNCHANGED <<main, entries, idx, hand, dest>>
  /\ \A d \in Conns :
       \/ child'[d] = child[d] /\ outbox'[d] = outbox[d]
       \/ child[d] \notin Gone \cup {"body"} /\ child'[d] \notin {"none", "body"}
       \/ child'[d] \in {"zombie", "gone"}

\* one that does not
Moving == \/ ReadHeader \/ ReadBody \/ Send \/ Remove
          \/ \E c \in Conns : WriteHeader(c) \/ WriteBody(c) \/ \E p \in Pids : Accept(c, p)

\* A step is one of seven, or leaves the notification path alone.
LEMMA SteadyOrMoving == TypeInv /\ [Next]_vars => Steady \/ Moving
<1> SUFFICES ASSUME TypeInv, [Next]_vars PROVE Steady \/ Moving
  OBVIOUS
<1> USE DEF TypeInv, TypeOK, ChildrenType, Steady, Running, Gone
<1>1. CASE DispatchLock
  BY <1>1 DEF DispatchLock, Die, shared, loop, sighand, children, ghosts
<1>2. CASE BuildFdSet
  BY <1>2 DEF BuildFdSet, Die, shared, loop, sighand, children, ghosts
<1>3. CASE SelectPipes
  BY <1>3 DEF SelectPipes, Die, shared, loop, sighand, children, ghosts
<1>4. CASE DeliverLock
  BY <1>4 DEF DeliverLock, Die, shared, loop, sighand, children, ghosts
<1>5. CASE DeliverEnd
  BY <1>5 DEF DeliverEnd, Die, shared, loop, sighand, children, ghosts
<1>6. CASE DeliverSkip
  BY <1>6 DEF DeliverSkip, Die, shared, loop, sighand, children, ghosts
<1>7. CASE NoConnection
  BY <1>7 DEF NoConnection, Die, shared, loop, sighand, children, ghosts
<1>8. CASE AcceptExits
  BY <1>8 DEF AcceptExits, Die, shared, loop, sighand, children, ghosts
<1>9. CASE AddLock
  BY <1>9 DEF AddLock, Die, shared, loop, sighand, children, ghosts
<1>10. CASE AddClient
  BY <1>10 DEF AddClient, Die, shared, loop, sighand, children, ghosts
<1>11. CASE SigChld
  BY <1>11 DEF SigChld, Die, shared, loop, sighand, children, ghosts
<1>12. CASE ReapNone
  BY <1>12 DEF ReapNone, Die, shared, loop, sighand, children, ghosts
<1>13. CASE HandlerLock
  BY <1>13 DEF HandlerLock, Die, shared, loop, sighand, children, ghosts
<1>14. ASSUME NEW c \in Conns, AcceptFails(c) PROVE Steady
  BY <1>14 DEF AcceptFails, shared, loop, sighand, children, ghosts
<1>15. ASSUME NEW c \in Conns, Reap(c) PROVE Steady
  BY <1>15 DEF Reap, NextRequest, Goto, Exit, shared, loop, sighand, children,
     ghosts
<1>16. ASSUME NEW c \in Conns, BadRequest(c) PROVE Steady
  BY <1>16 DEF BadRequest, NextRequest, Goto, Exit, shared, loop, sighand,
     children, ghosts
<1>17. ASSUME NEW c \in Conns, AnonymousRequest(c) PROVE Steady
  BY <1>17 DEF AnonymousRequest, NextRequest, Goto, Exit, shared, loop, sighand,
     children, ghosts
<1>18. ASSUME NEW c \in Conns, RegisterLock(c) PROVE Steady
  BY <1>18 DEF RegisterLock, NextRequest, Goto, Exit, shared, loop, sighand,
     children, ghosts
<1>19. ASSUME NEW c \in Conns, Handle(c) PROVE Steady
  BY <1>19 DEF Handle, NextRequest, Goto, Exit, shared, loop, sighand, children,
     ghosts
<1>20. ASSUME NEW c \in Conns, BrokenPipe(c) PROVE Steady
  BY <1>20 DEF BrokenPipe, NextRequest, Goto, Exit, shared, loop, sighand,
     children, ghosts
<1>21. ASSUME NEW c \in Conns, Respond(c) PROVE Steady
  BY <1>21 DEF Respond, NextRequest, Goto, Exit, shared, loop, sighand, children,
     ghosts
<1>22. ASSUME NEW c \in Conns, ChildExit(c) PROVE Steady
  BY <1>22 DEF ChildExit, NextRequest, Goto, Exit, shared, loop, sighand, children,
     ghosts
<1>23. ASSUME NEW c \in Conns, ClientClose(c) PROVE Steady
  BY <1>23 DEF ClientClose, NextRequest, Goto, Exit, shared, loop, sighand,
     children, ghosts
<1>24. ASSUME NEW c \in Conns, NEW l \in Logins, TokenRequest(c, l) PROVE Steady
  BY <1>24 DEF TokenRequest, NextRequest, Goto, shared, loop, sighand, children,
     ghosts
<1>25. ASSUME NEW c \in Conns, Register(c) PROVE Steady
  <2>1. main \notin {"readbody", "send"}
    BY <1>25, ConstantsAssumption DEF Register, LockDiscipline, MainHolds
  <2> QED
    BY <1>25, <2>1 DEF Register, Goto, shared, loop, sighand, children, ghosts
<1>26. CASE UNCHANGED vars
  BY <1>26 DEF vars
<1> HIDE DEF Steady
<1> QED
  BY <1>1, <1>2, <1>3, <1>4, <1>5, <1>6, <1>7, <1>8, <1>9, <1>10,
     <1>11, <1>12, <1>13, <1>14, <1>15, <1>16, <1>17, <1>18, <1>19, <1>20, <1>21,
     <1>22, <1>23, <1>24, <1>25, <1>26
     DEF Next, Dispatch, AddNew, Listen, Handler, Serve, Client, Moving
-----------------------------------------------------------------------------
\* The types of a pipe and its counters.
LEMMA AheadTypes ==
  ASSUME TypeInv, NEW c \in Conns
  PROVE  /\ Ahead(c) \in {0, 1} /\ pipe[c] \in Seq(Item) /\ Len(pipe[c]) \in Nat
         /\ sent[c] \in Nat
BY DEF Ahead, TypeInv, TypeOK, ChannelType, ChildrenType

\* Outside dispatch_pipe no header is in hand.
LEMMA NotAhead ==
  ASSUME NEW c \in Conns, main # "readbody"
  PROVE  Ahead(c) = 0
BY DEF Ahead

\* Steps beside the path keep the pipes in step.
LEMMA SteadyPipes ==
  ASSUME TypeInv, PipesInStep, Steady
  PROVE  PipesInStep' /\ \A c \in Conns : Ahead(c)' = Ahead(c)
<1>1. CASE main \notin {"readbody", "send"} /\ main' \notin {"readbody", "send"}
  <2>1. \A c \in Conns : Ahead(c) = 0 /\ Ahead(c)' = 0
    BY <1>1 DEF Ahead
  <2>2. \A c \in Conns : InStep(c, pipe[c], 0, hand', sent[c])
    BY <2>1, InStepNoHand DEF PipesInStep
  <2> QED
    BY <2>1, <2>2 DEF PipesInStep, Steady
<1>2. CASE UNCHANGED <<main, entries, idx, hand, dest>>
  <2>1. \A c \in Conns : Ahead(c)' = Ahead(c)
    BY <1>2 DEF Ahead
  <2> QED
    BY <1>2, <2>1 DEF PipesInStep, Steady
<1> QED
  BY <1>1, <1>2 DEF Steady

\* They keep their writers in step.
LEMMA SteadyWriters ==
  ASSUME TypeInv, PipesInStep, WritersInStep, Steady
  PROVE  WritersInStep'
<1> SUFFICES ASSUME NEW c \in Conns
             PROVE  /\ child'[c] = "none" => pipe'[c] = <<>>
                    /\ child'[c] = "body" => /\ (Len(pipe'[c]) + Ahead(c)') % 2 = 1
                                             /\ LastNote(c)' = NextNote(c)'
                    /\ Alive(c)' /\ child'[c] # "body" => (Len(pipe'[c]) + Ahead(c)') % 2 = 0
  BY DEF WritersInStep, WriterInStep
<1>1. pipe' = pipe /\ sent' = sent /\ Ahead(c)' = Ahead(c)
  BY SteadyPipes DEF Steady
<1>2. CASE child'[c] = child[c] /\ outbox'[c] = outbox[c]
  <2>1. child[c] = "body" => LastNote(c)' = NextNote(c)'
    <3>1. ASSUME child[c] = "body" PROVE LastNote(c)' = LastNote(c)
      <4>1. CASE pipe[c] = <<>>
        <5>1. (Len(pipe[c]) + Ahead(c)) % 2 = 1
          BY <3>1 DEF WritersInStep, WriterInStep
        <5>2. main = "readbody"
          BY <4>1, <5>1, EmptySeq DEF Ahead
        <5> QED
          BY <1>1, <4>1, <5>2 DEF Steady, LastNote
      <4>2. CASE pipe[c] # <<>>
        BY <1>1, <4>2 DEF LastNote
      <4> QED
        BY <4>1, <4>2
    <3> QED
      BY <1>1, <1>2, <3>1 DEF WritersInStep, WriterInStep, NextNote
  <2> QED
    BY <1>1, <1>2, <2>1 DEF WritersInStep, WriterInStep, Alive
<1>3. CASE child[c] \notin Gone \cup {"body"} /\ child'[c] \notin {"none", "body"}
  BY <1>1, <1>3 DEF WritersInStep, WriterInStep, Alive
<1>4. CASE child'[c] \in {"zombie", "gone"}
  BY <1>4 DEF Alive, Gone
<1> QED
  BY <1>2, <1>3, <1>4 DEF Steady

\* dispatch_pipe reads a header.
LEMMA ReadHeaderInStep ==
  ASSUME IInv, PipesInStep, WritersInStep, ReadHeader
  PROVE  /\ PipesInStep' /\ WritersInStep' /\ \A c \in Conns : Pairs(c)' = Pairs(c)
<1> DEFINE d == entries[idx].conn
<1>1. d \in Conns
  BY UsedEntry DEF ReadHeader, Running, IInv, TypeInv, LoopSound, TypeOK,
     TableType, ParentType, Used
<1>2. /\ main = "deliver" /\ main' = "readbody" /\ UNCHANGED <<entries, idx, sent, child, outbox>>
      /\ pipe[d] # <<>> /\ pipe' = [pipe EXCEPT ![d] = Tail(@)] /\ hand' = Head(pipe[d]).note
  BY DEF ReadHeader, Running, TakeFromPipe, shared, children
<1>3. \A c \in Conns : Ahead(c) = 0 /\ Ahead(c)' = IF c = d THEN 1 ELSE 0
  BY <1>2 DEF Ahead
<1>4. \A c \in Conns : c # d => pipe'[c] = pipe[c]
  BY <1>1, <1>2
<1>5. pipe'[d] = Tail(pipe[d]) /\ pipe[d] \in Seq(Item) /\ sent[d] \in Nat
      /\ Len(pipe[d]) \in Nat \ {0} /\ Len(Tail(pipe[d])) = Len(pipe[d]) - 1
  <2>1. pipe \in [Conns -> Seq(Item)] /\ sent[d] \in Nat
    BY <1>1 DEF IInv, TypeInv, TypeOK, ChannelType, ChildrenType
  <2> QED
    BY <1>1, <1>2, <2>1, HeadTailProperties, EmptySeq
<1>6. InStep(d, pipe'[d], 1, hand', sent[d])
  BY <1>1, <1>2, <1>3, <1>5, InStepTakeHeader DEF PipesInStep
<1>7. PipesInStep'
  <2>1. ASSUME NEW c \in Conns, c # d PROVE InStep(c, pipe'[c], 0, hand', sent[c])
    BY <1>3, <1>4, <2>1, InStepNoHand DEF PipesInStep
  <2> QED
    BY <1>2, <1>3, <1>6, <2>1 DEF PipesInStep
<1>8. ASSUME NEW c \in Conns
      PROVE  Len(pipe'[c]) + Ahead(c)' = Len(pipe[c]) + Ahead(c)
  <2>1. CASE c = d
    <3>1. Ahead(c) = 0 /\ Ahead(c)' = 1 /\ Len(pipe'[c]) = Len(pipe[c]) - 1
      BY <1>3, <1>5, <2>1
    <3> QED
      BY <1>5, <2>1, <3>1
  <2>2. CASE c # d
    BY <1>3, <1>4, <2>2
  <2> QED
    BY <2>1, <2>2
<1>9. ASSUME NEW c \in Conns, child[c] = "body" PROVE LastNote(c)' = LastNote(c)
  <2>1. CASE c = d
    <3>1. pipe'[c] = Tail(pipe[c]) /\ pipe[c] # <<>> /\ hand' = Head(pipe[c]).note
      BY <1>2, <1>5, <2>1
    <3>2. IF pipe'[c] = <<>> THEN pipe[c][Len(pipe[c])] = Head(pipe[c])
                            ELSE pipe'[c][Len(pipe'[c])] = pipe[c][Len(pipe[c])]
      BY <1>5, <2>1, <3>1, LastOfTail
    <3> QED
      BY <3>1, <3>2 DEF LastNote
  <2>2. CASE c # d
    <3>1. pipe[c] # <<>>
      BY <1>3, <1>9, AheadTypes, EmptySeq DEF WritersInStep, WriterInStep, IInv
    <3> QED
      BY <1>4, <2>2, <3>1 DEF LastNote
  <2> QED
    BY <2>1, <2>2
<1>10. \A c \in Conns : child[c] # "none" \/ c # d
  BY <1>2 DEF WritersInStep, WriterInStep
<1>11. WritersInStep'
  BY <1>2, <1>4, <1>8, <1>9, <1>10 DEF WritersInStep, WriterInStep, NextNote, Alive
<1> QED
  BY <1>7, <1>8, <1>11 DEF Pairs

\* A step that leaves a pipe, its child and the header taken from it alone.
LEMMA OtherInStep ==
  ASSUME IInv, PipesInStep, WritersInStep, NEW c \in Conns,
         pipe'[c] = pipe[c], sent'[c] = sent[c], child'[c] = child[c],
         outbox'[c] = outbox[c], Ahead(c)' = Ahead(c), Ahead(c) = 0 \/ hand' = hand
  PROVE  /\ InStep(c, pipe'[c], Ahead(c)', hand', sent'[c]) /\ WriterInStep(c)'
         /\ Pairs(c)' = Pairs(c)
<1>1. InStep(c, pipe'[c], Ahead(c)', hand', sent'[c])
  BY InStepNoHand DEF PipesInStep
<1>2. WriterInStep(c)
  BY DEF WritersInStep
<1>3. ASSUME child[c] = "body" PROVE LastNote(c)' = LastNote(c)
  <2>1. pipe[c] = <<>> => Ahead(c) # 0
    BY <1>2, <1>3, EmptySeq DEF WriterInStep
  <2> QED
    BY <2>1 DEF LastNote
<1>4. WriterInStep(c)'
  BY <1>2, <1>3 DEF WriterInStep, NextNote, Alive
<1> QED
  BY <1>1, <1>4 DEF Pairs

\* It reads the body, or the end of file in its place.
LEMMA ReadBodyInStep ==
  ASSUME IInv, PipesInStep, WritersInStep, ReadBody
  PROVE  PipesInStep' /\ WritersInStep' /\ \A c \in Conns : Pairs(c)' <= Pairs(c)
<1>1. PICK d \in Conns : d = entries[idx].conn
  BY UsedEntry DEF ReadBody, Running, IInv, TypeInv, LoopSound
<1>2. main = "readbody" /\ main' # "readbody" /\ UNCHANGED <<sent, child, outbox, entries>>
  BY DEF ReadBody, Running, Lookup, Found, NextEntry, shared, children
<1>3. \A c \in Conns : Ahead(c)' = 0 /\ Ahead(c) = IF c = d THEN 1 ELSE 0
  BY <1>1, <1>2 DEF Ahead
<1>4. \A c \in Conns : c # d => pipe'[c] = pipe[c]
  BY <1>1, AheadTypes DEF ReadBody, TakeFromPipe, IInv, TypeInv, TypeOK, ChannelType
<1>5. pipe[d] \in Seq(Item) /\ sent[d] \in Nat /\ pipe \in [Conns -> Seq(Item)]
      /\ InStep(d, pipe[d], 1, hand, sent[d]) /\ Len(pipe[d]) \in Nat
  BY <1>1, <1>3, AheadTypes DEF PipesInStep, IInv, TypeInv, TypeOK, ChannelType
<1>6. \/ pipe[d] # <<>> /\ pipe'[d] = Tail(pipe[d])
      \/ pipe[d] = <<>> /\ pipe'[d] = <<>> /\ child[d] \in Gone
  BY <1>1, <1>5 DEF ReadBody, TakeFromPipe, Alive
<1>7. InStep(d, pipe'[d], Ahead(d)', hand', sent'[d]) /\ WriterInStep(d)' /\ Pairs(d)' <= Pairs(d)
  <2> USE <1>2, <1>3
  <2>7. CASE pipe[d] # <<>> /\ pipe'[d] = Tail(pipe[d])
  <3>1. InStep(d, pipe'[d], 0, hand', sent[d])
    BY <1>5, <2>7, InStepTakeBody
  <3>2. Len(pipe[d]) # 0 /\ Len(pipe'[d]) = Len(pipe[d]) - 1
    BY <1>5, <2>7, HeadTailProperties, EmptySeq
  <3>3. (Len(pipe'[d]) + 0) % 2 = (Len(pipe[d]) + 1) % 2
        /\ (Len(pipe'[d]) + 0) \div 2 <= (Len(pipe[d]) + 1) \div 2
    BY <1>5, <3>2
  <3>4. WriterInStep(d)
    BY DEF WritersInStep
  <3>5. ASSUME child[d] = "body" PROVE LastNote(d)' = LastNote(d)
    <4>1. (Len(pipe[d]) + 1) % 2 = 1
      BY <3>4, <3>5 DEF WriterInStep
    <4>2. Len(pipe'[d]) # 0
      <5>1. ASSUME NEW k \in Nat, (k + 1) % 2 = 1 PROVE k # 1
        BY <5>1
      <5>2. Len(pipe[d]) # 1
        BY <1>5, <4>1, <5>1
      <5> QED
        BY <1>5, <3>2, <5>2
    <4>3. pipe'[d] # <<>>
      BY <4>2, EmptySeq
    <4>4. pipe'[d][Len(pipe'[d])] = pipe[d][Len(pipe[d])]
      BY <1>5, <2>7, <4>3, LastOfTail
    <4> QED
      BY <2>7, <4>3, <4>4 DEF LastNote
  <3>6. WriterInStep(d)'
    BY <2>7, <3>3, <3>4, <3>5 DEF WriterInStep, NextNote, Alive
  <3> QED
    BY <3>1, <3>3, <3>6 DEF Pairs
  <2>8. CASE pipe[d] = <<>> /\ pipe'[d] = <<>> /\ child[d] \in Gone
  <3>1. InStep(d, pipe'[d], 0, hand', sent[d])
    BY <1>5, <2>8, InStepEmpty
  <3>2. Pairs(d)' <= Pairs(d)
    BY <2>8, EmptySeq DEF Pairs
  <3> QED
    BY <2>8, <3>1, <3>2 DEF Gone, Alive, WriterInStep
  <2> QED
  BY <1>6, <2>7, <2>8
<1>8. ASSUME NEW c \in Conns, c # d
      PROVE  /\ InStep(c, pipe'[c], Ahead(c)', hand', sent'[c]) /\ WriterInStep(c)'
             /\ Pairs(c)' = Pairs(c)
  BY <1>2, <1>3, <1>4, <1>8, OtherInStep
<1>9. \A c \in Conns : Pairs(c)' \in Nat
  <2>1. \A c \in Conns : Len(pipe'[c]) \in Nat
    BY <1>4, <1>5, <1>6, AheadTypes, EmptySeq, HeadTailProperties DEF IInv
  <2> QED
    BY <1>3, <2>1 DEF Pairs
<1> QED
  BY <1>7, <1>8, <1>9 DEF PipesInStep, WritersInStep

\* A child only writes to its pipe while it has somebody to notify.
LEMMA WriterSound ==
  ASSUME IInv, NEW c \in Conns, child[c] \in {"header", "body"}
  PROVE  /\ NextNote(c) \in Note /\ NextNote(c).from = c /\ NextNote(c).n = sent[c] + 1
         /\ Alive(c) /\ pipe \in [Conns -> Seq(Item)] /\ sent \in [Conns -> Nat]
         /\ child \in [Conns -> ChildPc] /\ outbox \in [Conns -> Seq(Logins)]
<1>1. outbox[c] \in Seq(Logins) /\ outbox[c] # <<>> /\ sent[c] \in Nat
  BY DEF IInv, TypeInv, TypeOK, ChildrenType, OutboxSound
<1>2. Head(outbox[c]) \in Logins
  BY <1>1
<1> QED
  BY <1>1, <1>2 DEF NextNote, Note, Alive, Gone, IInv, TypeInv, TypeOK,
     ChildrenType, ChannelType

\* A child writes a header.
LEMMA WriteHeaderInStep ==
  ASSUME IInv, PipesInStep, WritersInStep, NEW c \in Conns, WriteHeader(c)
  PROVE  PipesInStep' /\ WritersInStep' /\ \A d \in Conns : Pairs(d)' = Pairs(d)
<1> DEFINE e == [part |-> "header", note |-> NextNote(c)]
<1>1. /\ child[c] = "header" /\ pipe' = [pipe EXCEPT ![c] = Append(@, e)]
      /\ child' = [child EXCEPT ![c] = "body"]
      /\ UNCHANGED <<main, entries, idx, hand, sent, outbox>>
  BY DEF WriteHeader, WritePipe, Goto, shared, loop
<1>2. /\ NextNote(c) \in Note /\ NextNote(c).from = c /\ NextNote(c).n = sent[c] + 1
      /\ Alive(c) /\ pipe \in [Conns -> Seq(Item)] /\ sent[c] \in Nat
      /\ child \in [Conns -> ChildPc]
  BY <1>1, WriterSound
<1>3. e \in Item
  BY <1>2 DEF Item
<1>4. \A d \in Conns : Ahead(d)' = Ahead(d)
  BY <1>1 DEF Ahead
<1>5. /\ Ahead(c) \in {0, 1} /\ Len(pipe[c]) \in Nat /\ InStep(c, pipe[c], Ahead(c), hand, sent[c])
      /\ (Len(pipe[c]) + Ahead(c)) % 2 = 0
  BY <1>1, <1>2, AheadTypes DEF PipesInStep, WritersInStep, WriterInStep, IInv
<1>6. pipe'[c] = Append(pipe[c], e)
  BY <1>1, <1>2
<1>7. InStep(c, pipe'[c], Ahead(c), hand, sent[c])
  BY <1>2, <1>5, <1>6, InStepHeader
<1>8. /\ Len(pipe'[c]) = Len(pipe[c]) + 1 /\ pipe'[c][Len(pipe'[c])] = e /\ Len(pipe'[c]) # 0
  BY <1>2, <1>3, <1>5, <1>6, AppendProperties
<1>9. (Len(pipe'[c]) + Ahead(c)) % 2 = 1
      /\ (Len(pipe'[c]) + Ahead(c)) \div 2 = (Len(pipe[c]) + Ahead(c)) \div 2
  <2>1. ASSUME NEW k \in Nat, NEW o \in {0, 1}, (k + o) % 2 = 0
        PROVE  (k + 1 + o) % 2 = 1 /\ (k + 1 + o) \div 2 = (k + o) \div 2
    BY <2>1
  <2> QED
    BY <1>5, <1>8, <2>1
<1>10. pipe'[c] # <<>> /\ pipe'[c][Len(pipe'[c])].note = NextNote(c)
  BY <1>8, EmptySeq
<1>11. NextNote(c)' = NextNote(c) /\ child'[c] = "body"
  BY <1>1, <1>2 DEF NextNote
<1>12. WriterInStep(c)'
  BY <1>4, <1>9, <1>10, <1>11 DEF WriterInStep, LastNote
<1>13. ASSUME NEW d \in Conns, d # c
       PROVE  /\ InStep(d, pipe'[d], Ahead(d)', hand', sent'[d]) /\ WriterInStep(d)'
              /\ Pairs(d)' = Pairs(d)
  BY <1>1, <1>2, <1>4, <1>13, OtherInStep
<1>14. InStep(c, pipe'[c], Ahead(c)', hand', sent'[c]) /\ Pairs(c)' = Pairs(c)
  BY <1>1, <1>4, <1>7, <1>9 DEF Pairs
<1> QED
  BY <1>12, <1>13, <1>14 DEF PipesInStep, WritersInStep

\* A child writes a body and counts it.
LEMMA WriteBodyInStep ==
  ASSUME IInv, PipesInStep, WritersInStep, NEW c \in Conns, WriteBody(c)
  PROVE  /\ PipesInStep' /\ WritersInStep'
         /\ sent' = [sent EXCEPT ![c] = @ + 1] /\ Pairs(c)' = Pairs(c) + 1
         /\ \A d \in Conns : d # c => Pairs(d)' = Pairs(d)
<1> DEFINE e == [part |-> "body", note |-> NextNote(c)]
<1>1. /\ child[c] = "body" /\ pipe' = [pipe EXCEPT ![c] = Append(@, e)]
      /\ child' = [child EXCEPT ![c] = IF Len(outbox[c]) = 1 THEN "respond" ELSE "header"]
      /\ sent' = [sent EXCEPT ![c] = @ + 1] /\ outbox' = [outbox EXCEPT ![c] = Tail(@)]
      /\ UNCHANGED <<main, entries, idx, hand>>
  BY DEF WriteBody, WritePipe, Goto, shared, loop
<1>2. /\ NextNote(c) \in Note /\ NextNote(c).from = c /\ NextNote(c).n = sent[c] + 1
      /\ Alive(c) /\ pipe \in [Conns -> Seq(Item)] /\ sent \in [Conns -> Nat]
      /\ child \in [Conns -> ChildPc] /\ outbox \in [Conns -> Seq(Logins)]
  BY <1>1, WriterSound
<1>3. e \in Item
  BY <1>2 DEF Item
<1>4. \A d \in Conns : Ahead(d)' = Ahead(d)
  BY <1>1 DEF Ahead
<1>5. /\ Ahead(c) \in {0, 1} /\ Len(pipe[c]) \in Nat /\ InStep(c, pipe[c], Ahead(c), hand, sent[c])
      /\ (Len(pipe[c]) + Ahead(c)) % 2 = 1 /\ LastNote(c) = NextNote(c) /\ sent[c] \in Nat
  BY <1>1, <1>2, AheadTypes DEF PipesInStep, WritersInStep, WriterInStep, IInv
<1>6. pipe'[c] = Append(pipe[c], e) /\ sent'[c] = sent[c] + 1
  BY <1>1, <1>2
<1>7. InStep(c, pipe'[c], Ahead(c), hand, sent[c] + 1)
  BY <1>2, <1>5, <1>6, InStepBody DEF LastNote
<1>8. Len(pipe'[c]) = Len(pipe[c]) + 1
  BY <1>2, <1>3, <1>5, <1>6, AppendProperties
<1>9. (Len(pipe'[c]) + Ahead(c)) % 2 = 0
      /\ (Len(pipe'[c]) + Ahead(c)) \div 2 = ((Len(pipe[c]) + Ahead(c)) \div 2) + 1
  <2>1. ASSUME NEW k \in Nat, NEW o \in {0, 1}, (k + o) % 2 = 1
        PROVE  (k + 1 + o) % 2 = 0 /\ (k + 1 + o) \div 2 = ((k + o) \div 2) + 1
    BY <2>1
  <2> QED
    BY <1>5, <1>8, <2>1
<1>10. child'[c] \in {"respond", "header"}
  BY <1>1, <1>2
<1>12. WriterInStep(c)'
  BY <1>4, <1>9, <1>10 DEF WriterInStep
<1>13. ASSUME NEW d \in Conns, d # c
       PROVE  /\ InStep(d, pipe'[d], Ahead(d)', hand', sent'[d]) /\ WriterInStep(d)'
              /\ Pairs(d)' = Pairs(d)
  BY <1>1, <1>2, <1>4, <1>13, OtherInStep
<1>14. InStep(c, pipe'[c], Ahead(c)', hand', sent'[c]) /\ Pairs(c)' = Pairs(c) + 1
  BY <1>1, <1>4, <1>6, <1>7, <1>9 DEF Pairs
<1> QED
  BY <1>1, <1>12, <1>13, <1>14 DEF PipesInStep, WritersInStep

\* The pipe closed with an entry is that of a child that was reaped.
LEMMA RemoveInStep ==
  ASSUME IInv, PipesInStep, WritersInStep, Remove
  PROVE  /\ PipesInStep' /\ WritersInStep' /\ UNCHANGED <<main, hand, dest, sent, inbox, authed>>
         /\ main \notin {"readbody", "send"}
         /\ \A d \in Conns : Pairs(d)' <= Pairs(d)
<1>1. handler = "remove" /\ UNCHANGED <<main, hand, dest, sent, inbox, authed, child, outbox>>
  BY DEF Remove, loop, children, ghosts
<1>2. main \notin {"readbody", "send"}
  BY <1>1 DEF IInv, TypeInv, LockDiscipline, MainHolds
<1>3. \A d \in Conns : Ahead(d) = 0 /\ Ahead(d)' = 0
  BY <1>1, <1>2 DEF Ahead
<1>4. ASSUME NEW d \in Conns
      PROVE  pipe'[d] = pipe[d] \/ (pipe'[d] = <<>> /\ child[d] = "gone")
  <2>1. CASE pipe' = pipe
    BY <2>1
  <2>2. ASSUME NEW i \in Used, entries[i].pid = hpid, pipe' = [pipe EXCEPT ![entries[i].conn] = <<>>]
        PROVE  pipe'[d] = pipe[d] \/ (pipe'[d] = <<>> /\ child[d] = "gone")
    <3>1. entries[i].conn \in Conns /\ pid[entries[i].conn] = hpid
      BY <2>2, UsedEntry DEF IInv, TableInv, EntryPids
    <3>2. child[entries[i].conn] = "gone"
      BY <1>1, <3>1 DEF IInv, TableInv, PidsUnique
    <3> QED
      BY <2>2, <3>1, <3>2, AheadTypes DEF IInv, TypeInv, TypeOK, ChannelType
  <2> QED
    BY <2>1, <2>2 DEF Remove, FirstWithPid, CloseFds
<1>5. ASSUME NEW d \in Conns
      PROVE  /\ InStep(d, pipe'[d], Ahead(d)', hand', sent'[d]) /\ WriterInStep(d)'
             /\ Pairs(d)' <= Pairs(d)
  <2>1. CASE pipe'[d] = pipe[d]
    <3>1. Pairs(d) \in Nat
      BY AheadTypes DEF Pairs, IInv
    <3> QED
      BY <1>1, <1>3, <2>1, <3>1, OtherInStep
  <2>2. CASE pipe'[d] = <<>> /\ child[d] = "gone"
    <3>1. InStep(d, pipe'[d], 0, hand', sent[d])
      BY <2>2, InStepEmpty, AheadTypes DEF IInv
    <3>2. Len(pipe'[d]) = 0 /\ Len(pipe[d]) \in Nat
      BY <2>2, EmptySeq, AheadTypes DEF IInv
    <3>3. Pairs(d)' <= Pairs(d)
      BY <1>3, <3>2 DEF Pairs
    <3>4. WriterInStep(d)'
      BY <1>1, <2>2 DEF WriterInStep, Alive, Gone
    <3> QED
      BY <1>1, <1>3, <3>1, <3>3, <3>4
  <2> QED
    BY <1>4, <2>1, <2>2
<1> QED
  BY <1>1, <1>2, <1>5 DEF PipesInStep, WritersInStep

\* A connection just accepted has an empty pipe.
LEMMA AcceptInStep ==
  ASSUME IInv, PipesInStep, WritersInStep, NEW c \in Conns, NEW p \in Pids, Accept(c, p)
  PROVE  PipesInStep' /\ WritersInStep' /\ \A d \in Conns : Pairs(d)' = Pairs(d)
<1>1. /\ main = "wait" /\ main' = "addlock" /\ child' = [child EXCEPT ![c] = "read"]
      /\ peer[c] = "away" /\ UNCHANGED <<pipe, sent, hand, outbox>>
  BY DEF Accept, Running, loop
<1>2. \A d \in Conns : Ahead(d) = 0 /\ Ahead(d)' = 0
  BY <1>1 DEF Ahead
<1>3. child[c] = "none" /\ child \in [Conns -> ChildPc]
  BY <1>1 DEF IInv, TypeInv, TypeOK, ChildrenType, AwayHasNone
<1>4. pipe[c] = <<>>
  BY <1>3 DEF WritersInStep, WriterInStep
<1>5. WriterInStep(c)'
  BY <1>1, <1>2, <1>3, <1>4, EmptySeq DEF WriterInStep
<1>6. InStep(c, pipe'[c], Ahead(c)', hand', sent'[c]) /\ Pairs(c)' = Pairs(c)
  BY <1>1, <1>2, <1>4, InStepEmpty, AheadTypes DEF Pairs, IInv
<1>7. ASSUME NEW d \in Conns, d # c
      PROVE  /\ InStep(d, pipe'[d], Ahead(d)', hand', sent'[d]) /\ WriterInStep(d)'
             /\ Pairs(d)' = Pairs(d)
  BY <1>1, <1>2, <1>3, <1>7, OtherInStep
<1> QED
  BY <1>5, <1>6, <1>7 DEF PipesInStep, WritersInStep

\* Writing to a client touches no pipe.
LEMMA SendInStep ==
  ASSUME IInv, PipesInStep, WritersInStep, Send
  PROVE  PipesInStep' /\ WritersInStep' /\ \A d \in Conns : Pairs(d)' = Pairs(d)
<1>1. main = "send" /\ main' \in {"deliver", "dead"} /\ UNCHANGED <<child, outbox, sent, pipe>>
  BY DEF Send, Running, NextEntry, Die, children
<1>2. \A d \in Conns : Ahead(d) = 0 /\ Ahead(d)' = 0
  BY <1>1 DEF Ahead
<1>3. ASSUME NEW d \in Conns
      PROVE  /\ InStep(d, pipe'[d], Ahead(d)', hand', sent'[d]) /\ WriterInStep(d)'
             /\ Pairs(d)' = Pairs(d)
  BY <1>1, <1>2, OtherInStep
<1> QED
  BY <1>3 DEF PipesInStep, WritersInStep

\* Every step keeps the pipes and their writers in step.
LEMMA NextInStep ==
  ASSUME IInv, PipesInStep, WritersInStep, [Next]_vars
  PROVE  PipesInStep' /\ WritersInStep'
<1>1. TypeInv
  BY DEF IInv
<1>2. Steady \/ Moving
  BY <1>1, SteadyOrMoving
<1>3. CASE Steady
  BY <1>1, <1>3, SteadyPipes, SteadyWriters
<1>4. CASE Moving
  BY <1>4, ReadHeaderInStep, ReadBodyInStep, WriteHeaderInStep, WriteBodyInStep,
     RemoveInStep, AcceptInStep, SendInStep DEF Moving
<1> QED
  BY <1>2, <1>3, <1>4

\* A pipe in step is framed, the header in hand put back.
LEMMA InStepFramed ==
  ASSUME TypeInv, PipesInStep
  PROVE  PipeFramed
<1> SUFFICES ASSUME NEW c \in Conns
             PROVE  Framed(HeaderOf(c) \o pipe[c]) /\ Whole(HeaderOf(c) \o pipe[c])
  BY DEF PipeFramed
<1> DEFINE q == pipe[c]
<1>1. q \in Seq(Item) /\ Len(q) \in Nat /\ Ahead(c) \in {0, 1}
      /\ InStep(c, q, Ahead(c), hand, sent[c])
  BY AheadTypes DEF PipesInStep
<1> HIDE DEF q
<1>2. CASE Ahead(c) = 0
  <2>1. HeaderOf(c) \o q = q
    BY <1>1, <1>2, ConcatEmptySeq DEF HeaderOf
  <2>2. ASSUME NEW k \in 1..Len(q)
        PROVE  q[k].part = IF k % 2 = 1 THEN "header" ELSE "body"
    <3>1. q[k].part = IF (k + 0) % 2 = 1 THEN "header" ELSE "body"
      BY <1>1, <1>2, <2>2 DEF InStep
    <3> QED
      BY <1>1, <2>2, <3>1
  <2>3. ASSUME NEW k \in 1..(Len(q) \div 2) PROVE q[2 * k].note = q[2 * k - 1].note
    <3>1. 2 * k - 1 \in 1..(Len(q) - 1) /\ 2 * k - 1 \in 1..Len(q) /\ (2 * k - 1) % 2 = 1
          /\ (2 * k - 1) + 1 = 2 * k
      BY <1>1, <2>3
    <3>2. q[2 * k - 1].part = "header"
      BY <2>2, <3>1
    <3>3. q[(2 * k - 1) + 1].note = q[2 * k - 1].note
      BY <1>1, <3>1, <3>2 DEF InStep
    <3> QED
      BY <3>1, <3>3
  <2> QED
    BY <2>1, <2>2, <2>3 DEF Framed, Whole, q
<1>3. CASE Ahead(c) = 1
  <2> DEFINE h == [part |-> "header", note |-> hand]
             s == <<h>> \o q
  <2>1. HeaderOf(c) \o q = s
    BY <1>3 DEF HeaderOf
  <2>2. h \in Item /\ h.part = "header" /\ h.note = hand
    BY <1>3 DEF Ahead, TypeInv, LoopSound, Item
  <2> HIDE DEF h
  <2>3. /\ Len(s) = Len(q) + 1 /\ s[1] = h
        /\ \A k \in 2..Len(s) : s[k] = q[k - 1]
    <3>1. <<h>> \in Seq(Item) /\ Len(<<h>>) = 1 /\ <<h>>[1] = h
      BY <2>2
    <3>2. /\ Len(s) = 1 + Len(q)
          /\ \A i \in 1..(1 + Len(q)) : s[i] = IF i <= 1 THEN <<h>>[i] ELSE q[i - 1]
      BY <1>1, <3>1, ConcatProperties
    <3> QED
      BY <1>1, <3>1, <3>2
  <2> HIDE DEF s
  <2>4. ASSUME NEW k \in 1..Len(s)
        PROVE  s[k].part = IF k % 2 = 1 THEN "header" ELSE "body"
    <3>1. CASE k = 1
      BY <2>2, <2>3, <3>1
    <3>2. CASE k # 1
      <4>1. k - 1 \in 1..Len(q) /\ k \in 2..Len(s) /\ (k - 1) + 1 = k
        BY <1>1, <2>3, <2>4, <3>2
      <4>2. q[k - 1].part = IF (k - 1 + 1) % 2 = 1 THEN "header" ELSE "body"
        BY <1>1, <1>3, <4>1 DEF InStep
      <4> QED
        BY <2>3, <4>1, <4>2
    <3> QED
      BY <3>1, <3>2
  <2>5. ASSUME NEW k \in 1..(Len(s) \div 2) PROVE s[2 * k].note = s[2 * k - 1].note
    <3>1. CASE k = 1
      <4>1. Len(q) # 0 /\ 2 \in 2..Len(s)
        BY <1>1, <2>3, <2>5, <3>1
      <4>2. q # <<>>
        BY <4>1, EmptySeq
      <4>3. q[1].note = hand
        BY <1>1, <1>3, <4>2 DEF InStep
      <4>4. s[2] = q[1]
        BY <2>3, <4>1
      <4> QED
        BY <2>2, <2>3, <3>1, <4>3, <4>4
    <3>2. CASE k # 1
      <4>1. /\ 2 * k - 2 \in 1..(Len(q) - 1) /\ 2 * k - 2 \in 1..Len(q)
            /\ 2 * k - 1 \in 2..Len(s) /\ 2 * k \in 2..Len(s)
            /\ (2 * k - 1) - 1 = 2 * k - 2 /\ (2 * k) - 1 = (2 * k - 2) + 1
            /\ (2 * k - 2 + 1) % 2 = 1
        BY <1>1, <2>3, <2>5, <3>2
      <4>2. q[2 * k - 2].part = IF (2 * k - 2 + 1) % 2 = 1 THEN "header" ELSE "body"
        BY <1>1, <1>3, <4>1 DEF InStep
      <4>3. q[2 * k - 2].part = "header"
        BY <4>1, <4>2
      <4>4. q[(2 * k - 2) + 1].note = q[2 * k - 2].note
        BY <1>1, <4>1, <4>3 DEF InStep
      <4> QED
        BY <2>3, <4>1, <4>4
    <3> QED
      BY <3>1, <3>2
  <2> QED
    BY <2>1, <2>4, <2>5 DEF Framed, Whole, q
<1> QED
  BY <1>1, <1>2, <1>3
-----------------------------------------------------------------------------
\* What was received is notifications.
LEMMA ReceivedNotes ==
  ASSUME TypeInv, NEW m \in Received
  PROVE  m \in Note /\ m.from \in Conns /\ m.n \in Nat
<1>1. PICK d \in Conns : \E i \in 1..Len(inbox[d]) : m = inbox[d][i]
  BY DEF Received
<1>2. inbox[d] \in Seq(Note)
  BY DEF TypeInv, TypeOK, ChannelType
<1>3. m \in Note
  BY <1>1, <1>2, ElementOfSeq
<1> QED
  BY <1>3 DEF Note

\* The types of the counters before and after a step.
LEMMA PairsTypes ==
  ASSUME TypeInv, TypeInv', NEW c \in Conns
  PROVE  Pairs(c) \in Nat /\ Pairs(c)' \in Nat /\ sent[c] \in Nat /\ sent'[c] \in Nat
<1>1. Ahead(c) \in {0, 1} /\ Len(pipe[c]) \in Nat /\ Ahead(c)' \in {0, 1} /\ Len(pipe'[c]) \in Nat
  BY DEF Ahead, TypeInv, TypeOK, ChannelType
<1>2. sent[c] \in Nat /\ sent'[c] \in Nat
  BY DEF TypeInv, TypeOK, ChildrenType
<1> QED
  BY <1>1, <1>2, SMTT(30) DEF Pairs

\* A step that writes to no client and picks nothing up for one: what is
\* still in a pipe stays newer than what was received from its child.
LEMMA BehindKept ==
  ASSUME TypeInv, TypeInv', DeliveredBehind, inbox' = inbox,
         \A c \in Conns : sent[c] + Pairs(c)' <= sent'[c] + Pairs(c),
         main' # "send" \/ (main = "send" /\ hand' = hand)
  PROVE  DeliveredBehind'
<1>1. ASSUME NEW m, m.from \in Conns, m.n \in Nat, Behind(m) PROVE m.n + Pairs(m.from)' <= sent'[m.from]
  <2>1. /\ Pairs(m.from) \in Nat /\ Pairs(m.from)' \in Nat
        /\ sent[m.from] \in Nat /\ sent'[m.from] \in Nat
        /\ sent[m.from] + Pairs(m.from)' <= sent'[m.from] + Pairs(m.from)
    BY <1>1, PairsTypes
  <2> QED
    BY <1>1, <2>1 DEF Behind
<1>2. Received' = Received
  BY DEF Received
<1>3. \A m \in Received : Behind(m)'
  BY <1>1, ReceivedNotes DEF DeliveredBehind, Behind
<1>4. main' = "send" => Behind(hand)'
  <2>1. main = "send" => hand.from \in Conns /\ hand.n \in Nat
    BY DEF TypeInv, LoopSound, Note
  <2>2. main = "send" /\ hand' = hand => hand.n + Pairs(hand.from)' <= sent'[hand.from]
    BY <1>1, <2>1 DEF DeliveredBehind
  <2> QED
    BY <2>2 DEF Behind
<1> QED
  BY <1>2, <1>3, <1>4 DEF DeliveredBehind

\* What dispatch_pipe picked up is newer than everything received from the
\* same child and older than everything still in its pipe.
LEMMA ReadBodyBehind ==
  ASSUME IInv, TypeInv', PipesInStep, WritersInStep, DeliveredBehind, ReadBody
  PROVE  DeliveredBehind'
<1>1. PICK c \in Conns : c = entries[idx].conn
  BY UsedEntry DEF ReadBody, Running, IInv, TypeInv, LoopSound
<1>2. /\ main = "readbody" /\ main' # "readbody" /\ UNCHANGED <<sent, inbox>>
      /\ \A d \in Conns : Pairs(d)' <= Pairs(d)
  BY ReadBodyInStep DEF ReadBody, Running, Lookup, Found, NextEntry, children
<1>3. \A d \in Conns : sent[d] + Pairs(d)' <= sent'[d] + Pairs(d)
  BY <1>2, PairsTypes DEF IInv
<1>4. CASE main' # "send"
  BY <1>2, <1>3, <1>4, BehindKept DEF IInv
<1>5. CASE main' = "send"
  <2>1. pipe[c] # <<>> /\ pipe'[c] = Tail(pipe[c]) /\ hand' = hand
    BY <1>1, <1>5, AheadTypes
       DEF ReadBody, Lookup, Found, NextEntry, TakeFromPipe, IInv, TypeInv, TypeOK,
       ChannelType
  <2>2. Ahead(c) = 1 /\ Ahead(c)' = 0 /\ pipe[c] \in Seq(Item) /\ Len(pipe[c]) \in Nat
    BY <1>1, <1>2, AheadTypes DEF Ahead, IInv
  <2>3. hand.from = c /\ hand.n + ((Len(pipe[c]) + 1) \div 2) = sent[c] + 1
    BY <2>2 DEF PipesInStep, InStep
  <2>4. Len(pipe[c]) # 0 /\ Len(pipe'[c]) = Len(pipe[c]) - 1
    BY <2>1, <2>2, HeadTailProperties, EmptySeq
  <2>5. Pairs(c) = Pairs(c)' + 1
    <3>1. ASSUME NEW k \in Nat \ {0} PROVE (k + 1) \div 2 = ((k - 1 + 0) \div 2) + 1
      BY <3>1
    <3> QED
      BY <2>2, <2>4, <3>1 DEF Pairs
  <2>6. Pairs(c) \in Nat /\ Pairs(c)' \in Nat /\ sent[c] \in Nat /\ sent'[c] = sent[c] /\ hand.n \in Nat
    BY <1>2, PairsTypes DEF IInv, TypeInv, LoopSound, Note
  <2>7. hand.n + Pairs(c) = sent[c] + 1
    BY <2>2, <2>3 DEF Pairs
  <2>8. Behind(hand)'
    <3>1. hand.n + Pairs(c)' <= sent[c]
      BY <2>5, <2>6, <2>7
    <3> QED
      BY <2>1, <2>3, <2>6, <3>1 DEF Behind
  <2>9. ASSUME NEW m \in Received PROVE Behind(m)' /\ (hand.from = m.from => m.n < hand.n)
    <3>1. m.from \in Conns /\ m.n \in Nat /\ m.n + Pairs(m.from) <= sent[m.from]
      BY <2>9, ReceivedNotes DEF DeliveredBehind, Behind, IInv
    <3>2. /\ Pairs(m.from) \in Nat /\ Pairs(m.from)' \in Nat /\ sent[m.from] \in Nat
          /\ Pairs(m.from)' <= Pairs(m.from)
      BY <1>2, <3>1, PairsTypes DEF IInv
    <3>3. Behind(m)'
      BY <1>2, <3>1, <3>2 DEF Behind
    <3>4. ASSUME m.from = c PROVE m.n < hand.n
      BY <2>6, <2>7, <3>1, <3>4
    <3> QED
      BY <2>3, <3>3, <3>4
  <2>10. Received' = Received
    BY <1>2 DEF Received
  <2> QED
    BY <2>1, <2>8, <2>9, <2>10 DEF DeliveredBehind
<1> QED
  BY <1>4, <1>5

\* What write_message adds to an inbox.
LEMMA SentReceived ==
  ASSUME TypeInv, Send
  PROVE  \/ inbox' = inbox
         \/ /\ dest \in Conns /\ hand \in Note
            /\ inbox' = [inbox EXCEPT ![dest] = Append(@, hand)]
            /\ Len(inbox'[dest]) = Len(inbox[dest]) + 1 /\ Len(inbox[dest]) \in Nat
            /\ inbox'[dest][Len(inbox[dest]) + 1] = hand
            /\ \A i \in 1..Len(inbox[dest]) : inbox'[dest][i] = inbox[dest][i]
            /\ \A d \in Conns : d # dest => inbox'[d] = inbox[d]
<1>1. dest \in Conns /\ hand \in Note /\ inbox \in [Conns -> Seq(Note)]
  BY DEF Send, Running, TypeInv, LoopSound, TypeOK, ParentType, ChannelType
<1>2. CASE inbox' = inbox
  BY <1>2
<1>3. CASE inbox' = [inbox EXCEPT ![dest] = Append(@, hand)]
  <2>1. inbox'[dest] = Append(inbox[dest], hand) /\ \A d \in Conns : d # dest => inbox'[d] = inbox[d]
    BY <1>1, <1>3
  <2> QED
    BY <1>1, <1>3, <2>1, AppendProperties
<1> QED
  BY <1>2, <1>3 DEF Send, DestReceives

\* What is written to a client is then the newest received from its child.
LEMMA SendBehind ==
  ASSUME IInv, PipesInStep, WritersInStep, DeliveredBehind, Send
  PROVE  DeliveredBehind'
<1>1. /\ main = "send" /\ main' # "send" /\ sent' = sent
      /\ \A d \in Conns : Pairs(d)' = Pairs(d)
  BY SendInStep DEF Send, Running, NextEntry, Die, children
<1>2. ASSUME NEW m \in Received' PROVE m \in Received \/ m = hand
  <2>1. PICK d \in Conns : \E i \in 1..Len(inbox'[d]) : m = inbox'[d][i]
    BY <1>2 DEF Received
  <2>2. PICK i \in 1..Len(inbox'[d]) : m = inbox'[d][i]
    BY <2>1
  <2>3. i \in 1..Len(inbox[d]) /\ inbox'[d][i] = inbox[d][i] => m \in Received
    BY <2>2 DEF Received
  <2>4. (i \in 1..Len(inbox[d]) /\ inbox'[d][i] = inbox[d][i]) \/ inbox'[d][i] = hand
    BY SentReceived DEF IInv
  <2> QED
    BY <2>2, <2>3, <2>4
<1>3. ASSUME NEW m \in Received' PROVE Behind(m)'
  <2>1. Behind(m) /\ m.from \in Conns
    BY <1>1, <1>2, <1>3, ReceivedNotes DEF DeliveredBehind, IInv, TypeInv,
       LoopSound, Note
  <2> QED
    BY <1>1, <2>1 DEF Behind
<1> QED
  BY <1>1, <1>3 DEF DeliveredBehind

\* No step lets something received overtake what is in a pipe.
LEMMA NextBehind ==
  ASSUME IInv, IInv', PipesInStep, WritersInStep, DeliveredBehind, [Next]_vars
  PROVE  DeliveredBehind'
<1>1. TypeInv /\ TypeInv'
  BY DEF IInv
<1>2. Steady \/ Moving
  BY <1>1, SteadyOrMoving
<1>3. \A c \in Conns : Pairs(c) \in Nat /\ Pairs(c)' \in Nat /\ sent[c] \in Nat /\ sent'[c] \in Nat
  BY <1>1, PairsTypes
<1>4. CASE Steady
  <2>1. \A c \in Conns : sent'[c] = sent[c] /\ Pairs(c)' = Pairs(c)
    BY <1>1, <1>4, SteadyPipes DEF Steady, Pairs
  <2> QED
    BY <1>1, <1>3, <1>4, <2>1, BehindKept DEF Steady
<1>5. CASE ReadHeader
  <2>1. main' # "send" /\ inbox' = inbox /\ sent' = sent
    BY <1>5 DEF ReadHeader, children
  <2> QED
    BY <1>1, <1>3, <1>5, <2>1, ReadHeaderInStep, BehindKept
<1>6. CASE ReadBody
  BY <1>1, <1>6, ReadBodyBehind
<1>7. CASE Send
  BY <1>7, SendBehind
<1>8. CASE Remove
  BY <1>1, <1>3, <1>8, RemoveInStep, BehindKept
<1>9. ASSUME NEW c \in Conns, WriteHeader(c) PROVE DeliveredBehind'
  <2>1. main' = main /\ hand' = hand /\ inbox' = inbox /\ sent' = sent
    BY <1>9 DEF WriteHeader, loop
  <2> QED
    BY <1>1, <1>3, <1>9, <2>1, WriteHeaderInStep, BehindKept
<1>10. ASSUME NEW c \in Conns, WriteBody(c) PROVE DeliveredBehind'
  <2>1. main' = main /\ hand' = hand /\ inbox' = inbox
    BY <1>10 DEF WriteBody, loop
  <2>2. sent \in [Conns -> Nat]
    BY <1>1 DEF TypeInv, TypeOK, ChildrenType
  <2>3. /\ sent' = [sent EXCEPT ![c] = @ + 1] /\ Pairs(c)' = Pairs(c) + 1
        /\ \A d \in Conns : d # c => Pairs(d)' = Pairs(d)
    BY <1>10, WriteBodyInStep
  <2>4. \A d \in Conns : sent[d] + Pairs(d)' <= sent'[d] + Pairs(d)
    BY <1>3, <2>2, <2>3
  <2> QED
    BY <1>1, <2>1, <2>4, BehindKept
<1>11. ASSUME NEW c \in Conns, NEW p \in Pids, Accept(c, p) PROVE DeliveredBehind'
  <2>1. main' # "send" /\ inbox' = inbox /\ sent' = sent
    BY <1>11 DEF Accept
  <2> QED
    BY <1>1, <1>3, <1>11, <2>1, AcceptInStep, BehindKept
<1> QED
  BY <1>2, <1>4, <1>5, <1>6, <1>7, <1>8, <1>9, <1>10, <1>11 DEF Moving
-----------------------------------------------------------------------------
\* Only a dispatch writes to a client.
LEMMA InboxSteady ==
  ASSUME TypeInv, [Next]_vars
  PROVE  inbox' = inbox \/ Send
<1>1. Steady \/ Moving
  BY SteadyOrMoving
<1> QED
  BY <1>1 DEF Steady, Moving, ReadHeader, ReadBody, Remove, WriteHeader, WriteBody,
     Accept

\* A client receives something newer than all it has of that child, and new
\* to every client.
LEMMA NextDelivered ==
  ASSUME IInv, DeliveredBehind, DeliveredInOrder, DeliveredOnce, [Next]_vars
  PROVE  DeliveredInOrder' /\ DeliveredOnce'
<1>1. CASE inbox' = inbox
  BY <1>1 DEF DeliveredInOrder, DeliveredOnce, Bus!InOrder, Bus!OneRecipient
<1>2. CASE Send /\ inbox' # inbox
  <2>1. main = "send"
    BY <1>2 DEF Send, Running
  <2>2. ASSUME NEW d \in Conns, NEW i \in 1..Len(inbox[d]), inbox[d][i].from = hand.from
        PROVE  inbox[d][i].n < hand.n /\ inbox[d][i].n \in Nat
    <3>1. inbox[d][i] \in Received
      BY <2>2 DEF Received
    <3> QED
      BY <2>1, <2>2, <3>1, ReceivedNotes DEF DeliveredBehind, IInv
  <2>3. /\ dest \in Conns /\ hand \in Note /\ hand.n \in Nat
        /\ Len(inbox'[dest]) = Len(inbox[dest]) + 1 /\ Len(inbox[dest]) \in Nat
        /\ inbox'[dest][Len(inbox[dest]) + 1] = hand
        /\ \A i \in 1..Len(inbox[dest]) : inbox'[dest][i] = inbox[dest][i]
        /\ \A d \in Conns : d # dest => inbox'[d] = inbox[d]
    BY <1>2, SentReceived DEF IInv, Note
  <2>4. ASSUME NEW d \in Conns, NEW i \in 1..Len(inbox'[d])
        PROVE  \/ i \in 1..Len(inbox[d]) /\ inbox'[d][i] = inbox[d][i]
               \/ d = dest /\ i = Len(inbox[d]) + 1 /\ inbox'[d][i] = hand
    BY <2>3, <2>4
  <2>5. DeliveredInOrder'
    <3> SUFFICES ASSUME NEW d \in Conns, NEW i \in 1..Len(inbox'[d]), NEW j \in 1..Len(inbox'[d]),
                        i < j, inbox'[d][i].from = inbox'[d][j].from
                 PROVE  inbox'[d][i].n < inbox'[d][j].n
      BY DEF DeliveredInOrder, Bus!InOrder
    <3>1. CASE j \in 1..Len(inbox[d]) /\ inbox'[d][j] = inbox[d][j]
      <4>1. i \in 1..Len(inbox[d]) /\ inbox'[d][i] = inbox[d][i]
        BY <2>3, <2>4, <3>1
      <4> QED
        BY <3>1, <4>1 DEF DeliveredInOrder, Bus!InOrder
    <3>2. CASE d = dest /\ j = Len(inbox[d]) + 1 /\ inbox'[d][j] = hand
      <4>1. i \in 1..Len(inbox[d]) /\ inbox'[d][i] = inbox[d][i]
        BY <2>3, <2>4, <3>2
      <4> QED
        BY <2>2, <3>2, <4>1
    <3> QED
      BY <2>4, <3>1, <3>2
  <2>6. DeliveredOnce'
    <3> SUFFICES ASSUME NEW d \in Conns, NEW e \in Conns,
                        NEW i \in 1..Len(inbox'[d]), NEW j \in 1..Len(inbox'[e]),
                        inbox'[d][i].from = inbox'[e][j].from,
                        inbox'[d][i].n = inbox'[e][j].n
                 PROVE  d = e
      BY DEF DeliveredOnce, Bus!OneRecipient
    <3>1. CASE (i \in 1..Len(inbox[d]) /\ inbox'[d][i] = inbox[d][i])
               /\ (j \in 1..Len(inbox[e]) /\ inbox'[e][j] = inbox[e][j])
      BY <3>1 DEF DeliveredOnce, Bus!OneRecipient
    <3>2. CASE (i \in 1..Len(inbox[d]) /\ inbox'[d][i] = inbox[d][i]) /\ inbox'[e][j] = hand
      BY <2>2, <2>3, <3>2
    <3>3. CASE inbox'[d][i] = hand /\ (j \in 1..Len(inbox[e]) /\ inbox'[e][j] = inbox[e][j])
      BY <2>2, <2>3, <3>3
    <3> QED
      BY <2>4, <3>1, <3>2, <3>3
  <2> QED
    BY <2>5, <2>6
<1> QED
  BY <1>1, <1>2, InboxSteady DEF IInv

-----------------------------------------------------------------------------
\* The notification path starts empty.
LEMMA InitDelivery == Init => Delivery
<1> SUFFICES ASSUME Init PROVE Delivery
  OBVIOUS
<1>1. IInv
  BY InitInv
<1>2. \A c \in Conns : Ahead(c) = 0 /\ pipe[c] = <<>> /\ sent[c] = 0 /\ child[c] = "none"
  BY DEF Init, Ahead
<1>3. PipesInStep
  BY <1>2, InStepEmpty DEF PipesInStep
<1>4. WritersInStep
  BY <1>2 DEF WritersInStep, WriterInStep, Alive, Gone
<1>5. \A d \in Conns : inbox[d] = <<>> /\ Len(inbox[d]) = 0
  BY EmptySeq DEF Init
<1>6. \A d \in Conns : \A i \in 1..Len(inbox[d]) : FALSE
  BY <1>5
<1>7. Received = {}
  BY <1>6 DEF Received
<1>8. main # "send"
  BY DEF Init
<1>9. DeliveredInOrder /\ DeliveredOnce
  BY <1>6 DEF DeliveredInOrder, DeliveredOnce, Bus!InOrder, Bus!OneRecipient
<1> QED
  BY <1>1, <1>3, <1>4, <1>7, <1>8, <1>9 DEF Delivery, DeliveredBehind

\* Every step preserves the invariant of the notification path.
LEMMA NextDelivery == Delivery /\ [Next]_vars => Delivery'
<1> SUFFICES ASSUME Delivery, [Next]_vars PROVE Delivery'
  OBVIOUS
<1>1. IInv'
  BY NextInv DEF Delivery
<1> QED
  BY <1>1, NextInStep, NextBehind, NextDelivered DEF Delivery

\* The invariant of the notification path.
LEMMA DeliveryInvariance == Spec => []Delivery
BY InitDelivery, NextDelivery, PTL DEF Spec

(***************************************************************************)
(* A pipe never gets out of step, for any number of children and any room  *)
(* in the pipe: dispatch_pipe never takes a body for a header or joins one *)
(* to the header of another, also when children exit between the two       *)
(* writes or entries are removed while it reads.                           *)
(***************************************************************************)
THEOREM PipesStayFramed == Spec => []PipeFramed
<1>1. Delivery => PipeFramed
  BY InStepFramed DEF Delivery, IInv
<1> QED
  BY <1>1, DeliveryInvariance, PTL

(***************************************************************************)
(* However dispatch rounds, exits and new connections interleave, a client *)
(* receives the notifications of one child in the order it wrote them.     *)
(***************************************************************************)
THEOREM NeverReordered == Spec => []DeliveredInOrder
<1>1. Delivery => DeliveredInOrder
  BY DEF Delivery
<1> QED
  BY <1>1, DeliveryInvariance, PTL

(***************************************************************************)
(* No notification reaches two connections, although several may hold the  *)
(* same login and entries move in the table while it is delivered.         *)
(***************************************************************************)
THEOREM NeverRepeated == Spec => []DeliveredOnce
<1>1. Delivery => DeliveredOnce
  BY DEF Delivery
<1> QED
  BY <1>1, DeliveryInvariance, PTL
-----------------------------------------------------------------------------
\* Bodies as a function of the pipe and the number of headers taken
BodiesOf(q, o) == [k \in 1..((Len(q) + o) \div 2) |-> q[2 * k - o].note]

\* The bodies in a pipe are a sequence of notifications.
LEMMA BodiesType ==
  ASSUME NEW q \in Seq(Item), NEW o \in {0, 1}
  PROVE  /\ BodiesOf(q, o) \in Seq(Note)
         /\ Len(BodiesOf(q, o)) = (Len(q) + o) \div 2
         /\ (Len(q) + o) \div 2 \in Nat /\ Len(q) \in Nat
         /\ \A k \in 1..((Len(q) + o) \div 2) :
              BodiesOf(q, o)[k] = q[2 * k - o].note /\ 2 * k - o \in 1..Len(q)
<1> DEFINE n == (Len(q) + o) \div 2
<1>1. Len(q) \in Nat /\ n \in Nat
  OBVIOUS
<1>2. \A k \in 1..n : 2 * k - o \in 1..Len(q)
  BY <1>1
<1>3. \A k \in 1..n : q[2 * k - o].note \in Note
  BY <1>2, NumberOfPart
<1>4. BodiesOf(q, o) = [k \in 1..n |-> q[2 * k - o].note]
  BY DEF BodiesOf
<1> HIDE DEF n
<1>5. BodiesOf(q, o) \in [1..n -> Note]
  BY <1>3, <1>4
<1>6. BodiesOf(q, o) \in Seq(Note)
  BY <1>1, <1>5, SeqDef
<1>7. DOMAIN BodiesOf(q, o) = 1..Len(BodiesOf(q, o)) /\ Len(BodiesOf(q, o)) \in Nat
  BY <1>6, LenProperties
<1>8. 1..Len(BodiesOf(q, o)) = 1..n
  BY <1>5, <1>7
<1>9. Len(BodiesOf(q, o)) = n
  <2>1. ASSUME NEW a \in Nat, NEW b \in Nat, 1..a = 1..b PROVE a = b
    <3>1. a # 0 => a \in 1..b
      BY <2>1
    <3>2. b # 0 => b \in 1..a
      BY <2>1
    <3> QED
      BY <3>1, <3>2
  <2> QED
    BY <1>1, <1>7, <1>8, <2>1
<1>10. \A k \in 1..n : BodiesOf(q, o)[k] = q[2 * k - o].note
  BY <1>4
<1> QED
  BY <1>1, <1>2, <1>6, <1>9, <1>10 DEF n

\* A header adds no body.
LEMMA BodiesHeader ==
  ASSUME NEW q \in Seq(Item), NEW o \in {0, 1}, NEW e \in Item, (Len(q) + o) % 2 = 0
  PROVE  BodiesOf(Append(q, e), o) = BodiesOf(q, o)
<1> DEFINE r == Append(q, e)
<1>1. r \in Seq(Item) /\ Len(r) = Len(q) + 1 /\ \A k \in 1..Len(q) : r[k] = q[k]
  BY AppendProperties
<1> HIDE DEF r
<1>2. (Len(r) + o) \div 2 = (Len(q) + o) \div 2
  BY <1>1
<1>3. /\ BodiesOf(r, o) \in Seq(Note) /\ Len(BodiesOf(r, o)) = (Len(q) + o) \div 2
      /\ \A k \in 1..((Len(q) + o) \div 2) : BodiesOf(r, o)[k] = r[2 * k - o].note
  BY <1>1, <1>2, BodiesType
<1>4. /\ BodiesOf(q, o) \in Seq(Note) /\ Len(BodiesOf(q, o)) = (Len(q) + o) \div 2
      /\ \A k \in 1..((Len(q) + o) \div 2) :
           BodiesOf(q, o)[k] = q[2 * k - o].note /\ 2 * k - o \in 1..Len(q)
  BY BodiesType
<1>5. \A k \in 1..((Len(q) + o) \div 2) : BodiesOf(r, o)[k] = BodiesOf(q, o)[k]
  BY <1>1, <1>3, <1>4
<1>6. BodiesOf(r, o) = BodiesOf(q, o)
  BY <1>3, <1>4, <1>5, SeqEqual
<1> QED
  BY <1>6 DEF r

\* A body adds its notification at the end.
LEMMA BodiesBody ==
  ASSUME NEW q \in Seq(Item), NEW o \in {0, 1}, NEW e \in Item, (Len(q) + o) % 2 = 1
  PROVE  BodiesOf(Append(q, e), o) = Append(BodiesOf(q, o), e.note)
<1> DEFINE r == Append(q, e)
           b == BodiesOf(q, o)
           n == (Len(q) + o) \div 2
<1>1. r \in Seq(Item) /\ Len(r) = Len(q) + 1 /\ r[Len(q) + 1] = e
      /\ \A k \in 1..Len(q) : r[k] = q[k]
  BY AppendProperties
<1> HIDE DEF r
<1>2. n \in Nat /\ (Len(r) + o) \div 2 = n + 1 /\ 2 * (n + 1) - o = Len(q) + 1
  BY <1>1
<1>3. b \in Seq(Note) /\ Len(b) = n /\ \A k \in 1..n : b[k] = q[2 * k - o].note /\ 2 * k - o \in 1..Len(q)
  BY BodiesType
<1>4. /\ BodiesOf(r, o) \in Seq(Note) /\ Len(BodiesOf(r, o)) = n + 1
      /\ \A k \in 1..(n + 1) : BodiesOf(r, o)[k] = r[2 * k - o].note
  BY <1>1, <1>2, BodiesType
<1>5. e.note \in Note
  BY DEF Item
<1> HIDE DEF b, n
<1>6. /\ Append(b, e.note) \in Seq(Note) /\ Len(Append(b, e.note)) = n + 1
      /\ \A k \in 1..n : Append(b, e.note)[k] = b[k] /\ Append(b, e.note)[n + 1] = e.note
  BY <1>3, <1>5, AppendProperties
<1>7. Append(b, e.note)[n + 1] = e.note
  BY <1>3, <1>5, AppendProperties
<1>8. ASSUME NEW k \in 1..(n + 1) PROVE BodiesOf(r, o)[k] = Append(b, e.note)[k]
  <2>1. CASE k = n + 1
    BY <1>1, <1>2, <1>4, <1>7, <2>1
  <2>2. CASE k # n + 1
    <3>1. k \in 1..n
      BY <1>2, <1>8, <2>2
    <3> QED
      BY <1>1, <1>3, <1>4, <1>6, <3>1
  <2> QED
    BY <2>1, <2>2
<1>9. BodiesOf(r, o) = Append(b, e.note)
  BY <1>4, <1>6, <1>8, SeqEqual
<1> QED
  BY <1>9 DEF r, b

\* Taking a header takes no body.
LEMMA BodiesTakeHeader ==
  ASSUME NEW q \in Seq(Item), q # <<>>
  PROVE  BodiesOf(Tail(q), 1) = BodiesOf(q, 0)
<1> DEFINE r == Tail(q)
<1>1. r \in Seq(Item) /\ Len(r) + 1 = Len(q) /\ \A k \in 1..Len(r) : r[k] = q[k + 1]
  BY HeadTailProperties, EmptySeq
<1> HIDE DEF r
<1>2. (Len(r) + 1) \div 2 = (Len(q) + 0) \div 2
  BY <1>1
<1>3. ASSUME NEW k \in 1..((Len(q) + 0) \div 2) PROVE BodiesOf(r, 1)[k] = BodiesOf(q, 0)[k]
  <2>1. BodiesOf(q, 0)[k] = q[2 * k - 0].note
    BY BodiesType
  <2>2. BodiesOf(r, 1)[k] = r[2 * k - 1].note /\ 2 * k - 1 \in 1..Len(r)
    BY <1>1, <1>2, BodiesType
  <2>3. (2 * k - 1) + 1 = 2 * k - 0
    BY <1>3, BodiesType
  <2> QED
    BY <1>1, <2>1, <2>2, <2>3
<1>4. /\ BodiesOf(r, 1) \in Seq(Note) /\ Len(BodiesOf(r, 1)) = (Len(q) + 0) \div 2
      /\ BodiesOf(q, 0) \in Seq(Note) /\ Len(BodiesOf(q, 0)) = (Len(q) + 0) \div 2
  BY <1>1, <1>2, BodiesType
<1>5. BodiesOf(r, 1) = BodiesOf(q, 0)
  BY <1>3, <1>4, SeqEqual
<1> QED
  BY <1>5 DEF r

\* Taking a body takes the first notification.
LEMMA BodiesTakeBody ==
  ASSUME NEW q \in Seq(Item), q # <<>>
  PROVE  BodiesOf(q, 1) = <<q[1].note>> \o BodiesOf(Tail(q), 0)
<1> DEFINE r == Tail(q)
           b == BodiesOf(r, 0)
           n == (Len(r) + 0) \div 2
           h == q[1].note
<1>1. r \in Seq(Item) /\ Len(r) + 1 = Len(q) /\ \A k \in 1..Len(r) : r[k] = q[k + 1]
  BY HeadTailProperties, EmptySeq
<1> HIDE DEF r
<1>2. n \in Nat /\ (Len(q) + 1) \div 2 = n + 1 /\ 1 \in 1..Len(q)
  BY <1>1
<1>3. b \in Seq(Note) /\ Len(b) = n
      /\ \A k \in 1..n : b[k] = r[2 * k - 0].note /\ 2 * k - 0 \in 1..Len(r)
  BY <1>1, BodiesType
<1>4. /\ BodiesOf(q, 1) \in Seq(Note) /\ Len(BodiesOf(q, 1)) = n + 1
      /\ \A k \in 1..(n + 1) : BodiesOf(q, 1)[k] = q[2 * k - 1].note
  BY <1>2, BodiesType
<1>5. h \in Note
  BY <1>2, NumberOfPart
<1> HIDE DEF b, n
<1>6. <<h>> \in Seq(Note) /\ Len(<<h>>) = 1 /\ <<h>>[1] = h
  BY <1>5
<1>7. /\ <<h>> \o b \in Seq(Note) /\ Len(<<h>> \o b) = 1 + n
      /\ \A i \in 1..(1 + n) : (<<h>> \o b)[i] = IF i <= 1 THEN <<h>>[i] ELSE b[i - 1]
  BY <1>3, <1>6, ConcatProperties
<1>8. ASSUME NEW k \in 1..(n + 1) PROVE BodiesOf(q, 1)[k] = (<<h>> \o b)[k]
  <2>1. CASE k = 1
    <3>1. (<<h>> \o b)[k] = h /\ 2 * k - 1 = 1
      BY <1>2, <1>6, <1>7, <2>1
    <3> QED
      BY <1>4, <3>1
  <2>2. CASE k # 1
    <3>1. k - 1 \in 1..n /\ (2 * (k - 1) - 0) + 1 = 2 * k - 1
      BY <1>2, <1>8, <2>2
    <3>2. (<<h>> \o b)[k] = b[k - 1]
      BY <1>2, <1>7, <2>2
    <3>3. b[k - 1] = r[2 * (k - 1) - 0].note /\ r[2 * (k - 1) - 0] = q[(2 * (k - 1) - 0) + 1]
      BY <1>1, <1>3, <3>1
    <3> QED
      BY <1>4, <3>1, <3>2, <3>3
  <2> QED
    BY <2>1, <2>2
<1>9. BodiesOf(q, 1) = <<h>> \o b
  BY <1>2, <1>4, <1>7, <1>8, SeqEqual, SMTT(30)
<1> QED
  BY <1>9 DEF r, b

\* Taking the first of a sequence.
LEMMA TakeFirst ==
  ASSUME NEW h \in Note, NEW b \in Seq(Note)
  PROVE  /\ Len(<<h>> \o b) = 1 + Len(b) /\ Head(<<h>> \o b) = h /\ Tail(<<h>> \o b) = b
         /\ <<h>> \o b # <<>> /\ SubSeq(<<h>> \o b, 2, Len(<<h>> \o b)) = b
<1> DEFINE s == <<h>> \o b
<1>1. <<h>> \in Seq(Note) /\ Len(<<h>>) = 1 /\ <<h>>[1] = h /\ Len(b) \in Nat
  OBVIOUS
<1>2. /\ s \in Seq(Note) /\ Len(s) = 1 + Len(b)
      /\ \A i \in 1..(1 + Len(b)) : s[i] = IF i <= 1 THEN <<h>>[i] ELSE b[i - 1]
  BY <1>1, ConcatProperties
<1> HIDE DEF s
<1>3. s # <<>>
  BY <1>1, <1>2, EmptySeq
<1>4. Head(s) = h
  BY <1>1, <1>2, <1>3
<1>5. Tail(s) \in Seq(Note) /\ Len(Tail(s)) = Len(b) /\ \A i \in 1..Len(b) : Tail(s)[i] = s[i + 1]
  BY <1>1, <1>2, <1>3, HeadTailProperties
<1>6. \A i \in 1..Len(b) : s[i + 1] = b[i]
  BY <1>1, <1>2
<1>7. Tail(s) = b
  BY <1>5, <1>6, SeqEqual
<1>8. SubSeq(s, 2, Len(s)) = b
  BY <1>2, <1>3, <1>7, TailIsSubSeq
<1> QED
  BY <1>2, <1>3, <1>4, <1>7, <1>8 DEF s

-----------------------------------------------------------------------------
\* No child runs under a pid that another connection's entry still carries.
PidsNotStale ==
  \A i \in Used : \A c \in Conns :
     Alive(c) /\ entries[i].pid = pid[c] => entries[i].conn = c

\* Only a valid token adds to what a connection presented.
LEMMA AuthedSteady ==
  ASSUME TypeInv, [Next]_vars
  PROVE  authed' = authed \/ \E c \in Conns : \E l \in Logins : TokenRequest(c, l)
BY DEF Next, Dispatch, AddNew, Listen, Handler, Serve, Client, vars, ghosts,
  DispatchLock, BuildFdSet, SelectPipes, DeliverLock, DeliverEnd, DeliverSkip,
  ReadHeader, ReadBody, Send, NoConnection, AcceptExits, AddLock, AddClient,
  SigChld, ReapNone, HandlerLock, Remove, AcceptFails, Accept, Reap, BadRequest,
  AnonymousRequest, ChildExit, ClientClose, RegisterLock, Register, Handle,
  WriteHeader, WriteBody, BrokenPipe, Respond

\* nobody loses a login it presented
AuthedGrows == \A d \in Conns : authed[d] \subseteq authed'[d]
\* No token is forgotten.
LEMMA NextAuthedGrows ==
  ASSUME TypeInv, [Next]_vars
  PROVE  AuthedGrows
<1>1. CASE authed' = authed
  BY <1>1 DEF AuthedGrows
<1>2. ASSUME NEW c \in Conns, NEW l \in Logins, TokenRequest(c, l) PROVE AuthedGrows
  BY <1>2 DEF AuthedGrows, TokenRequest, TypeInv, TypeOK, ChannelType
<1> QED
  BY <1>1, <1>2, AuthedSteady

\* the logins that deliveries go by were presented with a token
EntryLogins == \A i \in Used : entries[i].login \in authed[entries[i].conn] \cup {NoLogin}
ChildLogins == \A c \in Conns : child[c] \in {"lock", "register"} => login[c] \in authed[c]
DestLogin == main = "send" => hand.to \in authed[dest]

\* A child that registers does so under a login it was given a token for.
LEMMA NextChildLogins ==
  ASSUME TypeInv, ChildLogins, [Next]_vars
  PROVE  ChildLogins'
<1>1. CASE UNCHANGED <<child, login>>
  BY <1>1, NextAuthedGrows DEF AuthedGrows, ChildLogins
<1>2. ASSUME NEW c \in Conns, login' = login, child'[c] \notin {"lock", "register"} \/ child[c] = "lock",
             \A d \in Conns : d # c => child'[d] = child[d]
      PROVE  ChildLogins'
  BY <1>2, NextAuthedGrows DEF AuthedGrows, ChildLogins
<1>3. ASSUME NEW c \in Conns, AnonymousRequest(c) PROVE ChildLogins'
  BY <1>3, NextAuthedGrows
     DEF AnonymousRequest, NextRequest, Goto, AuthedGrows, ChildLogins, TypeInv,
     TypeOK, ChildrenType
<1>4. ASSUME NEW c \in Conns, NEW l \in Logins, TokenRequest(c, l) PROVE ChildLogins'
  BY <1>4, NextAuthedGrows
     DEF TokenRequest, NextRequest, Goto, AuthedGrows, ChildLogins, TypeInv,
     TypeOK, ChildrenType,
         ChannelType
<1>5. \/ UNCHANGED <<child, login>>
      \/ \E c \in Conns : \/ login' = login /\ (child'[c] \notin {"lock", "register"} \/ child[c] = "lock")
                             /\ \A d \in Conns : d # c => child'[d] = child[d]
                          \/ AnonymousRequest(c)
                          \/ \E l \in Logins : TokenRequest(c, l)
  <2> USE DEF TypeInv, TypeOK, ChildrenType
  <2>1. ASSUME NEW c \in Conns, \/ Reap(c) \/ BadRequest(c) \/ RegisterLock(c) \/ Register(c) \/ Handle(c)
                                \/ WriteHeader(c) \/ WriteBody(c) \/ BrokenPipe(c) \/ Respond(c)
                                \/ ChildExit(c) \/ \E p \in Pids : Accept(c, p)
        PROVE  login' = login /\ (child'[c] \notin {"lock", "register"} \/ child[c] = "lock")
               /\ \A d \in Conns : d # c => child'[d] = child[d]
    BY <2>1 DEF Reap, BadRequest, RegisterLock, Register, Handle, WriteHeader,
       WriteBody,
       BrokenPipe, Respond, ChildExit, Accept, Goto, Exit, children
  <2> QED
    BY <2>1 DEF Next, Dispatch, AddNew, Listen, Handler, Serve, Client, vars,
       children,
       DispatchLock, BuildFdSet, SelectPipes, DeliverLock, DeliverEnd, DeliverSkip,
       ReadHeader, ReadBody, Send, NoConnection, AcceptExits, AddLock, AddClient,
       SigChld, ReapNone, HandlerLock, Remove, AcceptFails, ClientClose
<1> QED
  BY <1>1, <1>2, <1>3, <1>4, <1>5

\* An entry holds no login, or one its connection presented: notify_register
\* finds the entry of its own connection as long as no other carries its pid.
LEMMA NextEntryLogins ==
  ASSUME IInv, PidsNotStale, EntryLogins, ChildLogins, [Next]_vars
  PROVE  EntryLogins'
<1>1. AuthedGrows /\ TypeInv
  BY NextAuthedGrows DEF IInv
<1>2. CASE UNCHANGED <<entries, count>>
  BY <1>1, <1>2, UsedEntry DEF EntryLogins, AuthedGrows, Used
<1>3. CASE AddClient /\ count < MaxClients
  <2>1. /\ count' = count + 1 /\ count + 1 \in Slots /\ count \in Nat
        /\ entries' = [entries EXCEPT ![count + 1] =
                         [pid |-> pid[newconn], login |-> NoLogin, conn |-> newconn]]
        /\ entries \in [Slots -> Entry \cup {NoEntry}]
    BY <1>1, <1>3, ConstantsAssumption DEF AddClient, TypeInv, TypeOK, TableType,
       Slots
  <2>2. ASSUME NEW i \in Used'
        PROVE  \/ i \in Used /\ entries'[i] = entries[i]
               \/ entries'[i].login = NoLogin
    BY <1>1, <2>1, <2>2, UsedEntry DEF Used
  <2> QED
    BY <1>1, <2>2, UsedEntry DEF EntryLogins, AuthedGrows
<1>4. CASE Remove
  <2>1. ASSUME NEW i \in Used, entries' = WithoutSlot(i), count' = count - 1
        PROVE  \A j \in Used' : \E k \in Used : entries'[j] = entries[k]
    BY <1>1, <2>1, UsedEntry DEF Used, WithoutSlot, TypeInv, TypeOK, TableType,
       Slots
  <2>2. \A j \in Used' : \E k \in Used : entries'[j] = entries[k]
    BY <1>4, <2>1 DEF Remove, Used
  <2> QED
    BY <1>1, <2>2, UsedEntry DEF EntryLogins, AuthedGrows
<1>5. ASSUME NEW c \in Conns, Register(c) PROVE EntryLogins'
  <2>1. CASE entries' = entries
    BY <1>1, <1>5, <2>1, UsedEntry DEF EntryLogins, AuthedGrows, Used, Register
  <2>2. ASSUME NEW i \in Used, entries[i].pid = pid[c],
               entries' = [entries EXCEPT ![i].login = login[c]]
        PROVE  EntryLogins'
    <3>1. entries[i].conn = c /\ login[c] \in authed[c]
      BY <1>5, <2>2 DEF PidsNotStale, Register, Alive, Gone, ChildLogins
    <3>2. entries[i] \in Entry /\ i \in Slots /\ entries \in [Slots -> Entry \cup {NoEntry}]
      BY <1>1, <2>2, UsedEntry DEF TypeInv, TypeOK, TableType
    <3>3. entries'[i].login = login[c] /\ entries'[i].conn = c
      BY <2>2, <3>1, <3>2 DEF Entry
    <3>4. \A j \in Slots : j # i => entries'[j] = entries[j]
      BY <2>2, <3>2
    <3>5. Used' = Used
      BY <1>5 DEF Register, Used
    <3>6. ASSUME NEW j \in Used PROVE entries'[j].login \in authed'[entries'[j].conn] \cup {NoLogin}
      <4>1. CASE j = i
        BY <1>1, <3>1, <3>3, <4>1 DEF AuthedGrows
      <4>2. CASE j # i
        BY <1>1, <3>4, <4>2, UsedEntry DEF EntryLogins, AuthedGrows
      <4> QED
        BY <4>1, <4>2
    <3> QED
      BY <3>5, <3>6 DEF EntryLogins
  <2> QED
    BY <1>5, <2>1, <2>2 DEF Register, FirstWithPid
<1>6. \/ UNCHANGED <<entries, count>> \/ (AddClient /\ count < MaxClients) \/ Remove
      \/ \E c \in Conns : Register(c)
  BY DEF Next, Dispatch, AddNew, Listen, Handler, Serve, Client, vars, shared,
       DispatchLock, BuildFdSet, SelectPipes, DeliverLock, DeliverEnd, DeliverSkip,
       ReadHeader, ReadBody, Send, NoConnection, AcceptExits, AddLock, AddClient,
       SigChld, ReapNone, HandlerLock, AcceptFails, Accept, Reap, BadRequest,
       AnonymousRequest, TokenRequest, ChildExit, ClientClose, RegisterLock, Handle,
       WriteHeader, WriteBody, BrokenPipe, Respond
<1> QED
  BY <1>2, <1>3, <1>4, <1>5, <1>6

\* find_client_fd returns a connection that presented the login.
LEMMA NextDestLogin ==
  ASSUME IInv, EntryLogins, DestLogin, [Next]_vars
  PROVE  DestLogin'
<1>1. AuthedGrows /\ TypeInv
  BY NextAuthedGrows DEF IInv
<1>2. CASE main' # "send"
  BY <1>2 DEF DestLogin
<1>3. CASE main = "send" /\ UNCHANGED <<main, hand, dest>>
  <2>1. dest \in Conns
    BY <1>1, <1>3 DEF TypeInv, TypeOK, ParentType
  <2> QED
    BY <1>1, <1>3, <2>1 DEF DestLogin, AuthedGrows
<1>4. CASE ReadBody /\ Found
  <2>1. PICK i \in Used : entries[i].login = hand.to /\ dest' = entries[i].conn
    BY <1>4 DEF Found, FirstWithLogin
  <2>2. hand.to \in Logins /\ hand' = hand /\ UNCHANGED authed
    BY <1>1, <1>4 DEF ReadBody, Running, Found, TypeInv, LoopSound, Note, ghosts
  <2>3. hand.to \in authed[entries[i].conn]
    BY <2>1, <2>2, ConstantsAssumption DEF EntryLogins
  <2> QED
    BY <2>1, <2>2, <2>3 DEF DestLogin
<1>5. Steady \/ Moving
  BY <1>1, SteadyOrMoving
<1>6. CASE Steady
  BY <1>2, <1>3, <1>6 DEF Steady
<1>7. CASE Moving
  BY <1>2, <1>3, <1>4, <1>7 DEF Moving, ReadHeader, ReadBody, Lookup, NextEntry,
     Send, Die, Remove,
     WriteHeader, WriteBody, Accept, loop
<1> QED
  BY <1>5, <1>6, <1>7

-----------------------------------------------------------------------------
\* a step of the bus, or none
BusStep == Bus!Next \/ UNCHANGED Bus!busVars

\* What is pending: the notification being written to a client, and the
\* bodies in the pipe.
LEMMA PendingIs ==
  ASSUME TypeInv, NEW c \in Conns
  PROVE  /\ Bodies(c) = BodiesOf(pipe[c], Ahead(c)) /\ Bodies(c) \in Seq(Note)
         /\ Pending[c] = IF main = "send" /\ hand.from = c THEN <<hand>> \o Bodies(c) ELSE Bodies(c)
         /\ main = "send" => hand \in Note /\ hand.from \in Conns /\ dest \in Conns
<1>1. Bodies(c) = BodiesOf(pipe[c], Ahead(c))
  BY DEF Bodies, BodiesOf
<1>2. Bodies(c) \in Seq(Note)
  BY <1>1, AheadTypes, BodiesType
<1>3. main = "send" => hand \in Note /\ hand.from \in Conns /\ dest \in Conns
  BY DEF TypeInv, LoopSound, Note, TypeOK, ParentType
<1>4. Pending[c] = (IF main = "send" /\ hand.from = c THEN <<hand>> ELSE <<>>) \o Bodies(c)
  BY DEF Pending
<1>5. <<>> \o Bodies(c) = Bodies(c)
  BY <1>2, ConcatEmptySeq
<1> QED
  BY <1>1, <1>2, <1>3, <1>4, <1>5

\* The same bodies and the same notification being written: the same pending.
LEMMA PendingSame ==
  ASSUME \A c \in Conns : Bodies(c)' = Bodies(c),
         \/ main # "send" /\ main' # "send"
         \/ main' = main /\ hand' = hand
  PROVE  Pending' = Pending
BY DEF Pending

\* The same pipe with the same header in hand holds the same bodies.
LEMMA BodiesSame ==
  ASSUME NEW c \in Conns, pipe'[c] = pipe[c], Ahead(c)' = Ahead(c)
  PROVE  Bodies(c)' = Bodies(c)
BY DEF Bodies

\* The bodies after a step, by the operator the lemmas are about.
LEMMA PrimedBodies ==
  ASSUME NEW c \in Conns
  PROVE  Bodies(c)' = BodiesOf(pipe'[c], Ahead(c)')
BY DEF Bodies, BodiesOf

\* PendingIs after a step.
LEMMA PrimedPending ==
  ASSUME TypeInv', NEW c \in Conns
  PROVE  Pending'[c] = IF main' = "send" /\ hand'.from = c THEN <<hand'>> \o Bodies(c)' ELSE Bodies(c)'
<1>1. Bodies(c)' \in Seq(Note)
  <2>1. Ahead(c)' \in {0, 1} /\ pipe'[c] \in Seq(Item)
    BY DEF Ahead, TypeInv, TypeOK, ChannelType
  <2> QED
    BY <2>1, PrimedBodies, BodiesType
<1>2. <<>> \o Bodies(c)' = Bodies(c)'
  BY <1>1, ConcatEmptySeq
<1> QED
  BY <1>2 DEF Pending

\* Only the notifications pending of one connection change.
LEMMA PendingExcept ==
  ASSUME NEW c \in Conns, NEW b, Pending'[c] = b,
         \A d \in Conns : d # c => Pending'[d] = Pending[d]
  PROVE  Pending' = [Pending EXCEPT ![c] = b]
<1> DEFINE P == Pending
           Q == Pending'
<1>1. P = [d \in Conns |-> P[d]] /\ Q = [d \in Conns |-> Q[d]]
  BY DEF Pending
<1>2. Q[c] = b /\ \A d \in Conns : d # c => Q[d] = P[d]
  OBVIOUS
<1> HIDE DEF P, Q
<1>3. Q = [P EXCEPT ![c] = b]
  BY <1>1, <1>2
<1> QED
  BY <1>3 DEF P, Q

\* An empty pipe holds no body.
LEMMA EmptyBodies == BodiesOf(<<>>, 0) = <<>>
<1>1. <<>> \in Seq(Item) /\ Len(<<>>) = 0
  BY EmptySeq
<1>2. BodiesOf(<<>>, 0) \in Seq(Note) /\ Len(BodiesOf(<<>>, 0)) = (Len(<<>>) + 0) \div 2
  BY <1>1, BodiesType
<1>3. (Len(<<>>) + 0) \div 2 = 0
  BY <1>1
<1> QED
  BY <1>2, <1>3, EmptySeq

\* The dispatcher dropped the first pending notification of c.
LEMMA LosesOne ==
  ASSUME NEW c \in Conns, NEW h \in Note, NEW b \in Seq(Note), Pending[c] = <<h>> \o b,
         Pending' = [Pending EXCEPT ![c] = b], UNCHANGED <<sent, authed, inbox>>
  PROVE  Bus!Next
<1>1. /\ Len(Pending[c]) = 1 + Len(b) /\ Len(b) \in Nat
      /\ SubSeq(Pending[c], 2, Len(Pending[c])) = b
  BY TakeFirst
<1>2. 1 <= Len(Pending[c]) /\ 1 \in 1..Len(Pending[c]) /\ 1 + 1 = 2
  BY <1>1
<1>3. Bus!Lose(c, 1)
  BY <1>1, <1>2 DEF Bus!Lose
<1> QED
  BY <1>2, <1>3 DEF Bus!Next

\* The dispatcher delivered the first pending notification of c to d.
LEMMA Delivers ==
  ASSUME NEW c \in Conns, NEW d \in Conns, NEW h \in Note, NEW b \in Seq(Note),
         Pending[c] = <<h>> \o b, h.to \in authed[d],
         inbox' = [inbox EXCEPT ![d] = Append(@, h)],
         Pending' = [Pending EXCEPT ![c] = b], UNCHANGED <<sent, authed>>
  PROVE  Bus!Next
<1>1. Pending[c] # <<>> /\ Head(Pending[c]) = h /\ Tail(Pending[c]) = b
  BY TakeFirst
<1>2. Bus!Deliver(c, d)
  BY <1>1 DEF Bus!Deliver
<1> QED
  BY <1>2 DEF Bus!Next

\* Appending behind the notification being written.
LEMMA AppendAfter ==
  ASSUME NEW h \in Note, NEW m \in Note, NEW b \in Seq(Note)
  PROVE  <<h>> \o Append(b, m) = Append(<<h>> \o b, m)
<1>1. <<h>> \in Seq(Note) /\ <<m>> \in Seq(Note) /\ <<h>> \o b \in Seq(Note)
  OBVIOUS
<1>2. Append(b, m) = b \o <<m>> /\ Append(<<h>> \o b, m) = (<<h>> \o b) \o <<m>>
  BY <1>1, AppendIsConcat
<1>3. <<h>> \o (b \o <<m>>) = (<<h>> \o b) \o <<m>>
  BY <1>1, ConcatAssociative
<1> QED
  BY <1>2, <1>3

\* Steps beside the path are invisible to the bus, a token aside.
LEMMA SteadyStep ==
  ASSUME IInv, PipesInStep, Steady, [Next]_vars
  PROVE  BusStep
<1>1. \A c \in Conns : Bodies(c)' = Bodies(c)
  BY SteadyPipes, BodiesSame DEF Steady, IInv
<1>2. Pending' = Pending /\ sent' = sent /\ inbox' = inbox
  BY <1>1, PendingSame DEF Steady
<1>3. CASE authed' = authed
  BY <1>2, <1>3 DEF BusStep, Bus!busVars
<1>4. ASSUME NEW c \in Conns, NEW l \in Logins, TokenRequest(c, l) PROVE BusStep
  <2>1. Bus!Authenticate(c, l)
    BY <1>2, <1>4 DEF Bus!Authenticate, TokenRequest
  <2> QED
    BY <2>1 DEF BusStep, Bus!Next
<1> QED
  BY <1>3, <1>4, AuthedSteady DEF IInv

\* A header read is invisible.
LEMMA ReadHeaderStep ==
  ASSUME IInv, ReadHeader
  PROVE  BusStep
<1>1. PICK d \in Conns : d = entries[idx].conn
  BY UsedEntry DEF ReadHeader, Running, IInv, TypeInv, LoopSound, TypeOK,
     TableType, ParentType, Used
<1>2. /\ main = "deliver" /\ main' = "readbody" /\ UNCHANGED <<entries, idx, sent, authed, inbox>>
      /\ pipe[d] # <<>> /\ pipe' = [pipe EXCEPT ![d] = Tail(@)]
  BY <1>1 DEF ReadHeader, Running, TakeFromPipe, shared, children, ghosts
<1>3. \A c \in Conns : Ahead(c) = 0 /\ Ahead(c)' = IF c = d THEN 1 ELSE 0
  BY <1>1, <1>2 DEF Ahead
<1>4. pipe \in [Conns -> Seq(Item)]
  BY DEF IInv, TypeInv, TypeOK, ChannelType
<1>5. Bodies(d)' = Bodies(d)
  <2>1. pipe'[d] = Tail(pipe[d]) /\ pipe[d] \in Seq(Item)
    BY <1>2, <1>4
  <2> QED
    BY <1>2, <1>3, <2>1, BodiesTakeHeader, PrimedBodies, PendingIs DEF IInv
<1>6. ASSUME NEW c \in Conns, c # d PROVE Bodies(c)' = Bodies(c)
  BY <1>2, <1>3, <1>4, <1>6, BodiesSame
<1>7. Pending' = Pending
  BY <1>2, <1>5, <1>6, PendingSame
<1> QED
  BY <1>2, <1>7 DEF BusStep, Bus!busVars

\* A body read is invisible, or its notification lost for want of an addressee.
LEMMA ReadBodyStep ==
  ASSUME IInv, IInv', PipesInStep, ReadBody
  PROVE  BusStep
<1>1. PICK d \in Conns : d = entries[idx].conn
  BY UsedEntry DEF ReadBody, Running, IInv, TypeInv, LoopSound
<1>2. main = "readbody" /\ main' # "readbody" /\ UNCHANGED <<sent, entries, authed, inbox>>
  BY DEF ReadBody, Running, Lookup, Found, NextEntry, shared, children, ghosts
<1>3. \A c \in Conns : Ahead(c)' = 0 /\ Ahead(c) = IF c = d THEN 1 ELSE 0
  BY <1>1, <1>2 DEF Ahead
<1>4. pipe \in [Conns -> Seq(Item)] /\ TypeInv /\ TypeInv' /\ hand \in Note
  BY <1>2 DEF IInv, TypeInv, TypeOK, ChannelType, LoopSound
<1>5. \A c \in Conns : c # d => pipe'[c] = pipe[c]
  BY <1>1, <1>4 DEF ReadBody, TakeFromPipe
<1>6. \A c \in Conns : c # d => Bodies(c)' = Bodies(c)
  BY <1>3, <1>5, BodiesSame
<1>7. \A c \in Conns : Pending[c] = Bodies(c)
  BY <1>2, <1>4, PendingIs
<1>8. CASE TakeFromPipe(d) /\ Lookup
  <2>1. pipe[d] # <<>> /\ pipe'[d] = Tail(pipe[d]) /\ pipe[d] \in Seq(Item)
    BY <1>4, <1>8 DEF TakeFromPipe
  <2>2. pipe[d][1].note = hand /\ hand.from = d
    BY <1>3, <2>1 DEF PipesInStep, InStep
  <2>3. Bodies(d) = <<hand>> \o Bodies(d)' /\ Bodies(d)' \in Seq(Note)
    <3>1. Bodies(d) = BodiesOf(pipe[d], 1) /\ Bodies(d)' = BodiesOf(Tail(pipe[d]), 0)
      BY <1>3, <1>4, <2>1, PendingIs, PrimedBodies
    <3>2. Tail(pipe[d]) \in Seq(Item)
      BY <2>1, HeadTailProperties
    <3> QED
      BY <2>1, <2>2, <3>1, <3>2, BodiesTakeBody, BodiesType
  <2>4. CASE Found
    <3>1. main' = "send" /\ hand' = hand
      BY <2>4 DEF Found
    <3>2. \A c \in Conns : Pending'[c] = Pending[c]
      BY <1>4, <1>6, <1>7, <2>2, <2>3, <3>1, PrimedPending, ZenonT(40)
    <3>3. Pending' = Pending
      BY <3>2 DEF Pending
    <3> QED
      BY <1>2, <3>3 DEF BusStep, Bus!busVars
  <2>5. CASE NextEntry
    <3>1. main' # "send"
      BY <2>5 DEF NextEntry
    <3>2. \A c \in Conns : Pending'[c] = Bodies(c)'
      BY <1>4, <3>1, PrimedPending
    <3>3. Pending' = [Pending EXCEPT ![d] = Bodies(d)']
      BY <1>6, <1>7, <3>2, PendingExcept
    <3> QED
      BY <1>2, <1>4, <1>7, <2>3, <3>3, LosesOne DEF BusStep
  <2> QED
    BY <1>8, <2>4, <2>5 DEF Lookup
<1>9. CASE pipe[d] = <<>> /\ NextEntry /\ UNCHANGED pipe
  <2>1. Len(pipe[d]) = 0 /\ pipe'[d] = pipe[d]
    BY <1>9, EmptySeq
  <2>2. Bodies(d)' = Bodies(d)
    <3>1. (Len(pipe[d]) + 0) \div 2 = 0 /\ (Len(pipe[d]) + 1) \div 2 = 0
      BY <2>1
    <3>2. 1..0 = {}
      OBVIOUS
    <3>3. Bodies(d) = BodiesOf(pipe[d], 1) /\ Bodies(d)' = BodiesOf(pipe[d], 0)
      BY <1>3, <1>4, <2>1, PendingIs, PrimedBodies
    <3> QED
      BY <3>1, <3>2, <3>3 DEF BodiesOf
  <2>3. Pending' = Pending
    BY <1>2, <1>6, <1>9, <2>2, PendingSame DEF NextEntry
  <2> QED
    BY <1>2, <2>3 DEF BusStep, Bus!busVars
<1> QED
  BY <1>1, <1>8, <1>9 DEF ReadBody

\* Writing to a client delivers, or loses when the client has closed.
LEMMA SendStep ==
  ASSUME IInv, IInv', DestLogin, Send
  PROVE  BusStep
<1>1. main = "send" /\ main' \in {"deliver", "dead"} /\ UNCHANGED <<sent, pipe, authed>>
  BY DEF Send, Running, NextEntry, Die, children, ghosts
<1>2. \A d \in Conns : Ahead(d) = 0 /\ Ahead(d)' = 0
  BY <1>1 DEF Ahead
<1>3. \A d \in Conns : Bodies(d)' = Bodies(d)
  BY <1>1, <1>2, BodiesSame
<1>4. hand \in Note /\ hand.from \in Conns /\ dest \in Conns /\ hand.to \in authed[dest]
      /\ TypeInv /\ TypeInv'
  BY <1>1 DEF IInv, TypeInv, LoopSound, Note, TypeOK, ParentType, DestLogin
<1>5. PICK c \in Conns : c = hand.from
  BY <1>4
<1>6. Pending[c] = <<hand>> \o Bodies(c) /\ Bodies(c) \in Seq(Note)
  BY <1>1, <1>4, <1>5, PendingIs
<1>7. \A d \in Conns : d # c => Pending[d] = Bodies(d)
  BY <1>4, <1>5, PendingIs
<1>8. \A d \in Conns : Pending'[d] = Bodies(d)
  BY <1>1, <1>3, <1>4, PrimedPending
<1>9. Pending' = [Pending EXCEPT ![c] = Bodies(c)]
  BY <1>7, <1>8, PendingExcept
<1>10. inbox' = inbox \/ inbox' = [inbox EXCEPT ![dest] = Append(@, hand)]
  BY DEF Send, DestReceives
<1> QED
  BY <1>1, <1>4, <1>6, <1>9, <1>10, LosesOne, Delivers DEF BusStep

\* Removing an entry loses what its pipe held.
LEMMA RemoveStep ==
  ASSUME IInv, IInv', Remove
  PROVE  BusStep
<1>1. handler = "remove" /\ UNCHANGED <<main, hand, dest, sent, inbox, authed>>
  BY DEF Remove, loop, children, ghosts
<1>2. main \notin {"readbody", "send"} /\ TypeInv /\ TypeInv'
  BY <1>1 DEF IInv, TypeInv, LockDiscipline, MainHolds
<1>3. \A d \in Conns : Ahead(d) = 0 /\ Ahead(d)' = 0
  BY <1>1, <1>2 DEF Ahead
<1>4. \A d \in Conns : Pending[d] = Bodies(d) /\ Pending'[d] = Bodies(d)' /\ Bodies(d) \in Seq(Note)
  BY <1>1, <1>2, PendingIs, PrimedPending
<1>5. CASE pipe' = pipe
  <2>1. Pending' = Pending
    BY <1>1, <1>2, <1>3, <1>5, BodiesSame, PendingSame
  <2> QED
    BY <1>1, <2>1 DEF BusStep, Bus!busVars
<1>6. ASSUME NEW i \in Used, pipe' = [pipe EXCEPT ![entries[i].conn] = <<>>]
      PROVE  BusStep
  <2>1. PICK c \in Conns : c = entries[i].conn
    BY <1>2, UsedEntry
  <2>2. pipe'[c] = <<>> /\ \A d \in Conns : d # c => pipe'[d] = pipe[d]
    BY <1>2, <1>6, <2>1 DEF TypeInv, TypeOK, ChannelType
  <2>3. \A d \in Conns : d # c => Bodies(d)' = Bodies(d)
    BY <1>3, <2>2, BodiesSame
  <2>4. Bodies(c)' = <<>>
    <3>1. Bodies(c)' = BodiesOf(<<>>, 0)
      BY <1>3, <2>2, PrimedBodies
    <3> QED
      BY <3>1, EmptyBodies
  <2>5. Pending' = [Pending EXCEPT ![c] = <<>>]
    BY <1>4, <2>3, <2>4, PendingExcept
  <2>6. CASE Pending[c] = <<>>
    <3>1. Pending' = Pending
      BY <2>5, <2>6 DEF Pending
    <3> QED
      BY <1>1, <3>1 DEF BusStep, Bus!busVars
  <2>7. CASE Pending[c] # <<>>
    <3> DEFINE k == Len(Pending[c])
    <3>1. k \in Nat \ {0} /\ k \in 1..Len(Pending[c]) /\ k <= Len(Pending[c])
      BY <1>4, <2>7, EmptySeq
    <3>2. SubSeq(Pending[c], k + 1, Len(Pending[c])) = <<>>
      BY <3>1, SubSeqEmpty
    <3>3. Bus!Lose(c, k)
      BY <1>1, <2>5, <3>1, <3>2 DEF Bus!Lose
    <3> QED
      BY <3>1, <3>3 DEF BusStep, Bus!Next
  <2> QED
    BY <2>6, <2>7
<1> QED
  BY <1>5, <1>6 DEF Remove, CloseFds

\* A header written is invisible.
LEMMA WriteHeaderStep ==
  ASSUME IInv, WritersInStep, NEW c \in Conns, WriteHeader(c)
  PROVE  BusStep
<1> DEFINE e == [part |-> "header", note |-> NextNote(c)]
<1>1. /\ child[c] = "header" /\ pipe' = [pipe EXCEPT ![c] = Append(@, e)]
      /\ UNCHANGED <<main, entries, idx, hand, sent, authed, inbox>>
  BY DEF WriteHeader, WritePipe, shared, loop, ghosts
<1>2. NextNote(c) \in Note /\ Alive(c) /\ pipe \in [Conns -> Seq(Item)] /\ TypeInv
  BY <1>1, WriterSound DEF IInv
<1>3. e \in Item
  BY <1>2 DEF Item
<1>4. \A d \in Conns : Ahead(d)' = Ahead(d)
  BY <1>1 DEF Ahead
<1>5. Ahead(c) \in {0, 1} /\ (Len(pipe[c]) + Ahead(c)) % 2 = 0
  BY <1>1, <1>2, AheadTypes DEF WritersInStep, WriterInStep
<1>6. Bodies(c)' = Bodies(c)
  <2>1. pipe'[c] = Append(pipe[c], e) /\ pipe[c] \in Seq(Item)
    BY <1>1, <1>2
  <2> QED
    <3>1. BodiesOf(Append(pipe[c], e), Ahead(c)) = BodiesOf(pipe[c], Ahead(c))
      BY <1>3, <1>5, <2>1, BodiesHeader
    <3> QED
      BY <1>2, <1>4, <2>1, <3>1, PendingIs, PrimedBodies
<1>7. ASSUME NEW d \in Conns, d # c PROVE Bodies(d)' = Bodies(d)
  BY <1>1, <1>2, <1>4, <1>7, BodiesSame
<1>8. Pending' = Pending
  BY <1>1, <1>6, <1>7, PendingSame
<1> QED
  BY <1>1, <1>8 DEF BusStep, Bus!busVars

\* A body written posts its notification.
LEMMA WriteBodyStep ==
  ASSUME IInv, IInv', WritersInStep, NEW c \in Conns, WriteBody(c)
  PROVE  BusStep
<1> DEFINE e == [part |-> "body", note |-> NextNote(c)]
<1>1. /\ child[c] = "body" /\ pipe' = [pipe EXCEPT ![c] = Append(@, e)]
      /\ sent' = [sent EXCEPT ![c] = @ + 1]
      /\ UNCHANGED <<main, entries, idx, hand, authed, inbox>>
  BY DEF WriteBody, WritePipe, shared, loop, ghosts
<1>2. NextNote(c) \in Note /\ Alive(c) /\ pipe \in [Conns -> Seq(Item)] /\ TypeInv /\ TypeInv'
  BY <1>1, WriterSound DEF IInv
<1>3. e \in Item /\ e.note = NextNote(c)
  BY <1>2 DEF Item
<1>4. \A d \in Conns : Ahead(d)' = Ahead(d)
  BY <1>1 DEF Ahead
<1>5. Ahead(c) \in {0, 1} /\ (Len(pipe[c]) + Ahead(c)) % 2 = 1
  BY <1>1, <1>2, AheadTypes DEF WritersInStep, WriterInStep
<1>6. Bodies(c)' = Append(Bodies(c), NextNote(c))
  <2>1. pipe'[c] = Append(pipe[c], e) /\ pipe[c] \in Seq(Item)
    BY <1>1, <1>2
  <2>2. BodiesOf(Append(pipe[c], e), Ahead(c)) = Append(BodiesOf(pipe[c], Ahead(c)), e.note)
    BY <1>3, <1>5, <2>1, BodiesBody
  <2> QED
    BY <1>2, <1>3, <1>4, <2>1, <2>2, PendingIs, PrimedBodies
<1>7. \A d \in Conns : d # c => Bodies(d)' = Bodies(d)
  BY <1>1, <1>2, <1>4, BodiesSame
<1>8. ASSUME NEW d \in Conns
      PROVE  Pending'[d] = IF d = c THEN Append(Pending[c], NextNote(c)) ELSE Pending[d]
  <2>1. CASE main = "send" /\ hand.from = d
    <3>1. Pending[d] = <<hand>> \o Bodies(d) /\ Bodies(d) \in Seq(Note) /\ hand \in Note
      BY <1>2, <2>1, PendingIs
    <3>2. Pending'[d] = <<hand>> \o Bodies(d)'
      BY <1>1, <1>2, <2>1, PrimedPending
    <3>3. <<hand>> \o Append(Bodies(d), NextNote(c)) = Append(<<hand>> \o Bodies(d), NextNote(c))
      BY <1>2, <3>1, AppendAfter
    <3> QED
      BY <1>6, <1>7, <3>1, <3>2, <3>3
  <2>2. CASE ~(main = "send" /\ hand.from = d)
    <3>1. Pending[d] = Bodies(d) /\ Pending'[d] = Bodies(d)'
      BY <1>1, <1>2, <2>2, PendingIs, PrimedPending
    <3> QED
      BY <1>6, <1>7, <3>1
  <2> QED
    BY <2>1, <2>2
<1>9. Pending' = [Pending EXCEPT ![c] = Append(@, NextNote(c))]
  BY <1>8 DEF Pending
<1>10. Head(outbox[c]) \in Logins
  BY <1>2 DEF NextNote, Note
<1>11. Bus!Post(c, Head(outbox[c]))
  BY <1>1, <1>9 DEF Bus!Post, NextNote
<1> QED
  BY <1>10, <1>11 DEF BusStep, Bus!Next

\* A connection accepted is invisible.
LEMMA AcceptStep ==
  ASSUME IInv, NEW c \in Conns, NEW p \in Pids, Accept(c, p)
  PROVE  BusStep
<1>1. main = "wait" /\ main' = "addlock" /\ UNCHANGED <<pipe, sent, inbox, authed>>
  BY DEF Accept, Running
<1>2. \A d \in Conns : Ahead(d) = 0 /\ Ahead(d)' = 0
  BY <1>1 DEF Ahead
<1>3. Pending' = Pending
  BY <1>1, <1>2, BodiesSame, PendingSame
<1> QED
  BY <1>1, <1>3 DEF BusStep, Bus!busVars

\* Every step of the server is a step of the bus or invisible to it.
LEMMA NextBusStep ==
  ASSUME Delivery, Delivery', DestLogin, [Next]_vars
  PROVE  BusStep
<1>1. Steady \/ Moving
  BY SteadyOrMoving DEF Delivery, IInv
<1>2. CASE Steady
  BY <1>2, SteadyStep DEF Delivery
<1>3. CASE Moving
  BY <1>3, ReadHeaderStep, ReadBodyStep, SendStep, RemoveStep, WriteHeaderStep,
     WriteBodyStep,
     AcceptStep DEF Moving, Delivery
<1> QED
  BY <1>1, <1>2, <1>3

\* The server starts as the bus does.
LEMMA InitBus == Init => Bus!Init
<1> SUFFICES ASSUME Init PROVE Bus!Init
  OBVIOUS
<1>1. \A c \in Conns : pipe[c] = <<>> /\ Ahead(c) = 0 /\ main # "send"
  BY DEF Init, Ahead
<1>2. TypeInv
  BY InitInv DEF IInv
<1>3. \A c \in Conns : Pending[c] = <<>>
  BY <1>1, <1>2, EmptyBodies, PendingIs
<1>4. Pending = [c \in Conns |-> <<>>]
  BY <1>3 DEF Pending
<1> QED
  BY <1>4 DEF Init, Bus!Init

\* what the refinement needs besides Delivery
Presented == EntryLogins /\ ChildLogins /\ DestLogin

(***************************************************************************)
(* The server implements the notification bus: what a child wrote is taken *)
(* in order and goes to one connection that presented a token of the       *)
(* addressee, or is lost.  Assumed is that no child runs under a pid which *)
(* the entry of another connection still carries: notify_register would    *)
(* put its login there.                                                    *)
(***************************************************************************)
THEOREM ServerImplementsBus == Spec /\ []PidsNotStale => ImplementsBus
<1>1. Init => Presented
  BY DEF Init, Presented, EntryLogins, ChildLogins, DestLogin, Used
<1>2. Presented /\ Delivery /\ PidsNotStale /\ [Next]_vars => Presented'
  BY NextChildLogins, NextEntryLogins, NextDestLogin DEF Presented, Delivery, IInv
<1>3. Spec /\ []PidsNotStale => []Presented
  BY <1>1, <1>2, DeliveryInvariance, PTL DEF Spec
<1>4. Delivery /\ Delivery' /\ Presented /\ [Next]_vars => [Bus!Next]_(Bus!busVars)
  BY NextBusStep DEF Presented, BusStep
<1> QED
  BY <1>3, <1>4, InitBus, DeliveryInvariance, PTL DEF Spec, ImplementsBus, Bus!Spec
-----------------------------------------------------------------------------
\* The kernel gives no pid out twice.
FreshPids == \A c \in Conns : \A p \in Pids : Accept(c, p) => p \notin spent

\* then no two connections ever have the same pid
PidsOnce ==
  /\ \A c \in Conns : pid[c] \in spent \cup {NoPid}
  /\ \A c, d \in Conns : pid[c] = pid[d] /\ pid[c] # NoPid => c = d

(***************************************************************************)
(* The assumption holds when the kernel gives no pid out twice.            *)
(***************************************************************************)
COROLLARY ImplementsBusWithFreshPids == Spec /\ [][FreshPids]_vars => ImplementsBus
<1>1. Init => PidsOnce
  BY DEF Init, PidsOnce
<1>2. ASSUME TypeInv, PidsOnce, [Next]_vars, [FreshPids]_vars PROVE PidsOnce'
  <2>1. ASSUME NEW c \in Conns, NEW p \in Pids, Accept(c, p) PROVE PidsOnce'
    BY <1>2, <2>1, ConstantsAssumption
       DEF FreshPids, PidsOnce, Accept, TypeInv, TypeOK, ChildrenType, vars
  <2>2. CASE UNCHANGED <<pid, spent>>
    BY <1>2, <2>2 DEF PidsOnce
  <2> QED
    BY <1>2, <2>1, <2>2 DEF Next, Dispatch, AddNew, Listen, Handler, Serve, Client,
       vars, ghosts,
       children, DispatchLock, BuildFdSet, SelectPipes, DeliverLock, DeliverEnd,
       DeliverSkip,
       ReadHeader, ReadBody, Send, NoConnection, AcceptExits, AddLock, AddClient,
       SigChld, ReapNone, HandlerLock, Remove, AcceptFails, Reap, BadRequest,
       AnonymousRequest, TokenRequest, ChildExit, ClientClose, RegisterLock,
       Register, Handle,
       WriteHeader, WriteBody, BrokenPipe, Respond
<1>3. IInv /\ PidsOnce => PidsNotStale
  <2> SUFFICES ASSUME IInv, PidsOnce, NEW i \in Used, NEW c \in Conns,
                      Alive(c), entries[i].pid = pid[c]
               PROVE  entries[i].conn = c
    BY DEF PidsNotStale
  <2>1. entries[i].conn \in Conns /\ entries[i].pid = pid[entries[i].conn]
    BY UsedEntry DEF IInv, TableInv, EntryPids
  <2>2. pid[c] # NoPid
    BY ConstantsAssumption DEF Alive, Gone, IInv, TypeInv, PidsGiven
  <2> QED
    BY <2>1, <2>2 DEF PidsOnce
<1>4. Spec /\ [][FreshPids]_vars => []PidsNotStale
  <2>1. IInv => TypeInv
    BY DEF IInv
  <2> QED
    BY <1>1, <1>2, <1>3, <2>1, Invariance, PTL DEF Spec
<1> QED
  BY <1>4, ServerImplementsBus, PTL
=============================================================================
