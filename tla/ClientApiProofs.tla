-------------------------- MODULE ClientApiProofs --------------------------
(***************************************************************************)
(* Proofs about the client's end of its connection (ClientApi), for any    *)
(* threads, bounds and kinds of notifications.                             *)
(*                                                                         *)
(* FreshAnswer: a call never finds a response that was in the slot before  *)
(* it began.  All it takes is that the reader thread stores a response for *)
(* everyone that waits, and that a call begins with its own reset.         *)
(*                                                                         *)
(* OwnAnswer: an undisturbed call is the only one, and goes through the    *)
(* stages of Stage, from its written request to its answer in the slot.    *)
(* That the answer is parsed takes that it is alone in its line, and so    *)
(* that the line before it has ended (LinesEnd).                           *)
(***************************************************************************)
EXTENDS ClientApi, SequenceTheorems, WellFoundedInduction, TLAPS

-----------------------------------------------------------------------------
(* Fresh answers. *)

Places == {"idle", "data", "newline", "check", "asleep"}

\* FreshAnswer needs to know where callers can be, and no more.
FreshInv == pc \in [Callers -> Places] /\ FreshAnswer

\* Whoever moves on within a call, or ends it, was in it before.
LEMMA MovesInCall ==
  ASSUME NEW c \in Callers, NEW from \in Places \ {"idle"}, NEW to \in Places,
         FreshInv, Goto(c, from, to), UNCHANGED <<slot, fresh>>
  PROVE  FreshInv'
BY DEF FreshInv, FreshAnswer, InCall, Goto, slot

\* A call begins with its own reset.
LEMMA EnterFresh ==
  ASSUME NEW c \in Callers, FreshInv, Enter(c)
  PROVE  FreshInv'
BY DEF FreshInv, FreshAnswer, InCall, Enter, Goto, Reset, Places

\* A response is stored for everyone that waits, and one of them wakes.
LEMMA StoreFresh ==
  ASSUME NEW r, IsResponse(r), FreshInv, Store(r)
  PROVE  FreshInv'
<1>1. pc' \in [Callers -> Places]
  BY DEF FreshInv, Store, Signal, Places
<1>2. pending' # Idle
  BY DEF Store, IsResponse, Idle
<1>3. InCall' \subseteq Callers
  BY DEF InCall
<1> QED
  BY <1>1, <1>2, <1>3 DEF FreshInv, FreshAnswer, Store

\* Steps of the server, and of the reader thread between calls.
LEMMA OthersFresh ==
  ASSUME FreshInv, UNCHANGED <<pc, slot, fresh>>
  PROVE  FreshInv'
BY DEF FreshInv, FreshAnswer, InCall, slot

\* The reader thread takes a line.
LEMMA ReadFresh == ASSUME FreshInv, ReadLine PROVE FreshInv'
<1> DEFINE m == Parsed(down)
<1>1. CASE IsResponse(m) /\ Store(m)
  BY <1>1, StoreFresh
<1>2. CASE m.kind = "message" /\ Show
  BY <1>2, OthersFresh DEF Show
<1>3. CASE m.kind = "members" /\ Refresh
  BY <1>3, EnterFresh DEF Refresh, Callers
<1>4. CASE m = Newline /\ UNCHANGED <<pc, calls, slot, fresh, clean>>
  BY <1>4, OthersFresh
<1> QED
  BY <1>1, <1>2, <1>3, <1>4 DEF ReadLine

\* The steps of a call.
LEMMA CallFresh == ASSUME FreshInv, NEW c \in Callers, Call(c) \/ Spurious(c) PROVE FreshInv'
<1>1. CASE SendData(c)
  BY <1>1, MovesInCall DEF SendData, Sent, Places
<1>2. CASE SendNewline(c)
  BY <1>2, MovesInCall DEF SendNewline, Sent, Places
<1>3. CASE Take(c)
  BY <1>3, MovesInCall DEF Take, Places
<1>4. CASE Sleep(c)
  BY <1>4, MovesInCall DEF Sleep, Places
<1>5. CASE Spurious(c)
  BY <1>5, MovesInCall DEF Spurious, Places
<1> QED
  BY <1>1, <1>2, <1>3, <1>4, <1>5 DEF Call

\* At the start nobody waits.
LEMMA FreshInit == ASSUME Init PROVE FreshInv
BY DEF Init, FreshInv, FreshAnswer, InCall, Places

\* Every step keeps it.
LEMMA FreshNext == ASSUME FreshInv, [Next]_vars PROVE FreshInv'
<1>1. CASE \E t \in Threads : Begin(t)
  BY <1>1, EnterFresh DEF Begin, Callers
<1>2. CASE \E c \in Callers : Call(c) \/ Spurious(c)
  BY <1>2, CallFresh
<1>3. CASE Read
  BY <1>3, ReadFresh, OthersFresh DEF Read, StopReading
<1>4. CASE Child
  BY <1>4, OthersFresh DEF Child, Answer, AnswerData, AnswerNewline
<1>5. CASE Notify
  BY <1>5, OthersFresh DEF Notify, NotifyNewline, NotifyData
<1>6. CASE Close
  BY <1>6, OthersFresh DEF Close
<1>7. CASE UNCHANGED vars
  BY <1>7, OthersFresh DEF vars
<1> QED
  BY <1>1, <1>2, <1>3, <1>4, <1>5, <1>6, <1>7 DEF Next

\* No call of send_and_wait finds a response that was in the slot before its
\* own reset: FreshAnswer, for any threads and any bounds.
THEOREM AnswersAreFresh == Spec => []FreshAnswer
<1>1. Init => FreshInv
  BY FreshInit
<1>2. FreshInv /\ [Next]_vars => FreshInv'
  BY FreshNext
<1>3. FreshInv => FreshAnswer
  BY DEF FreshInv
<1> QED
  BY <1>1, <1>2, <1>3, PTL DEF Spec
-----------------------------------------------------------------------------
(* The types. *)

Requests == [kind : {"request"}, by : Callers, n : Nat]
Ups == Requests \cup {Newline}
Downs == Answers \cup Notes \cup {Newline}

\* What the child is writing is an answer; once its data is out there is one.
ChildSound == child.sent => child.answer # Idle

\* While nobody writes a line, what was written to the client ends with one.
LinesEnd == ~parent /\ ~child.sent => down = <<>> \/ down[Len(down)] = Newline

Plain(m) == m.kind \in {"message", "newline"}
PlainDown == \A i \in 1..Len(down) : Plain(down[i])
Mine(c) == Response(c, calls[c], FALSE)

\* the answer to c's request is the only one on its way, in a line of its own
AnswerDown(c) ==
  \E i \in 1..Len(down) :
    /\ down[i] = Mine(c) /\ (i = 1 \/ down[i - 1] = Newline)
    /\ \A j \in 1..Len(down) : j # i => Plain(down[j])
    /\ child.sent => i = Len(down) /\ ~parent

\* How far an undisturbed call of c is: its request is written, under way, answered,
\* its answer under way, in the slot.
Stage(c) ==
  \/ /\ pc[c] = "data" /\ up = <<>>
     /\ child.answer = Idle /\ PlainDown /\ ~ready
  \/ /\ pc[c] = "newline" /\ up = <<Request(c, calls[c])>>
     /\ child.answer = Idle /\ PlainDown /\ ~ready
  \/ /\ pc[c] \in {"check", "asleep"} /\ up = <<Request(c, calls[c]), Newline>>
     /\ child.answer = Idle /\ PlainDown /\ ~ready
  \/ /\ pc[c] \in {"check", "asleep"} /\ up = <<>>
     /\ child.answer = Mine(c) /\ ~child.sent /\ PlainDown /\ ~ready
  \/ /\ pc[c] \in {"check", "asleep"} /\ up = <<>>
     /\ child.answer = (IF child.sent THEN Mine(c) ELSE Idle) /\ AnswerDown(c) /\ ~ready
  \/ /\ pc[c] \in {"check", "asleep"} /\ up = <<>>
     /\ child.answer = Idle /\ PlainDown /\ ready /\ pending = Mine(c)

\* An undisturbed call is the only one, and in one of these stages.
CleanCalls ==
  \A c \in clean : pc[c] # "idle" => InCall = {c} /\ open /\ reading /\ Stage(c)

OwnInv == TypeOK /\ ChildSound /\ LinesEnd /\ CleanCalls
\* What holds at some index holds at a first one.
LEMMA FirstIndex ==
  ASSUME NEW n \in Nat, NEW T, T \subseteq 1..n, T # {}
  PROVE  \E i \in T : \A j \in T : i <= j
<1>1. T \subseteq Nat
  OBVIOUS
<1>2. PICK i \in T : \A j \in T : ~(<<j, i>> \in OpToRel(<, Nat))
  BY <1>1, NatLessThanWellFounded, WFMin
<1>3. \A j \in T : ~(j < i)
  BY <1>1, <1>2 DEF OpToRel
<1> QED
  BY <1>1, <1>3

\* The first line ends at its newline, and what is left is what follows it.
LEMMA Lines ==
  ASSUME NEW S, NEW s \in Seq(S), HasLine(s)
  PROVE  /\ LineEnd(s) \in 1..Len(s) /\ s[LineEnd(s)] = Newline
         /\ \A j \in 1..Len(s) : s[j] = Newline => LineEnd(s) <= j
         /\ DropLine(s) \in Seq(S) /\ Len(DropLine(s)) = Len(s) - LineEnd(s)
         /\ \A i \in 1..Len(DropLine(s)) : DropLine(s)[i] = s[LineEnd(s) + i]
         /\ Len(s) \in Nat \ {0} /\ Parsed(s) = s[1] /\ Parsed(s) \in S
<1>1. Len(s) \in Nat /\ \A i \in 1..Len(s) : s[i] \in S
  BY LenProperties, ElementOfSeq
<1>2. \E i \in Newlines(s) : \A j \in Newlines(s) : i <= j
  BY <1>1, FirstIndex DEF HasLine, Newlines
<1>3. LineEnd(s) \in Newlines(s) /\ \A j \in Newlines(s) : LineEnd(s) <= j
  BY <1>2 DEF LineEnd
<1>4. PICK e \in 1..Len(s) : e = LineEnd(s) /\ s[e] = Newline
  BY <1>3 DEF Newlines
<1>5. /\ SubSeq(s, e + 1, Len(s)) \in Seq(S)
      /\ Len(SubSeq(s, e + 1, Len(s))) = Len(s) - e
      /\ \A i \in 1..(Len(s) - e) : SubSeq(s, e + 1, Len(s))[i] = s[e + i]
  <2>1. e + 1 \in Int /\ Len(s) \in Int /\ \A i \in (e + 1)..Len(s) : s[i] \in S
    BY <1>1
  <2>2. /\ SubSeq(s, e + 1, Len(s)) \in Seq(S)
        /\ Len(SubSeq(s, e + 1, Len(s))) = IF e + 1 <= Len(s) THEN Len(s) - (e + 1) + 1 ELSE 0
        /\ \A i \in 1..(Len(s) - (e + 1) + 1) : SubSeq(s, e + 1, Len(s))[i] = s[e + 1 + i - 1]
    BY <2>1, SubSeqProperties
  <2>3. Len(SubSeq(s, e + 1, Len(s))) = Len(s) - e
    BY <1>1, <2>2
  <2>4. \A i \in 1..(Len(s) - e) : i \in 1..(Len(s) - (e + 1) + 1) /\ e + 1 + i - 1 = e + i
    BY <1>1
  <2>5. \A i \in 1..(Len(s) - e) : SubSeq(s, e + 1, Len(s))[i] = s[e + i]
    BY <2>2, <2>4
  <2> QED BY <2>2, <2>3, <2>5
<1>6. /\ DropLine(s) \in Seq(S) /\ Len(DropLine(s)) = Len(s) - e
      /\ \A i \in 1..Len(DropLine(s)) : DropLine(s)[i] = s[e + i]
  BY <1>4, <1>5 DEF DropLine
<1>7. \A j \in 1..Len(s) : s[j] = Newline => e <= j
  BY <1>3, <1>4 DEF Newlines
<1>8. Len(s) \in Nat \ {0} /\ Parsed(s) = s[1] /\ Parsed(s) \in S
  BY <1>1 DEF Parsed
<1> QED BY <1>4, <1>6, <1>7, <1>8

\* Requests, answers, notifications and newlines are told apart by their kind.
LEMMA Kinds ==
  /\ \A c \in Callers : \A n \in Nat : Request(c, n) \in Requests
  /\ \A c \in Callers : \A n \in Nat : \A long \in BOOLEAN : Response(c, n, long) \in Answers
  /\ \A r \in Requests : r.kind = "request" /\ r # Newline /\ r.by \in Callers /\ r.n \in Nat
  /\ \A a \in Answers : a.kind \in {"response", "bad"} /\ a # Idle /\ a # Newline
  /\ \A m \in Downs : IsResponse(m) => m \in Answers
  /\ BadRequest \in Answers /\ \A k \in NoteKinds : Note(k) \in Notes
  /\ Idle.kind = "idle" /\ Newline.kind = "newline" /\ Newline \notin Answers
  /\ \A m \in Notes : m # Newline
<1>1. \A c \in Callers : \A n \in Nat : Request(c, n) \in Requests
  BY DEF Request, Requests
<1>2. \A c \in Callers : \A n \in Nat : \A long \in BOOLEAN : Response(c, n, long) \in Answers
  BY DEF Response, Answers
<1>3. \A r \in Requests : r.kind = "request" /\ r # Newline /\ r.by \in Callers /\ r.n \in Nat
  BY DEF Requests, Newline
<1>4. \A a \in Answers : a.kind \in {"response", "bad"}
  BY DEF Answers, BadRequest
<1>5. Idle.kind = "idle" /\ Newline.kind = "newline"
  BY DEF Idle, Newline
<1>6. \A m \in Notes : m.kind \in {"message", "members"}
  BY DEF Notes
<1>7. BadRequest \in Answers /\ \A k \in NoteKinds : Note(k) \in Notes
  BY ApiAssumption DEF Answers, Note, Notes
<1>8. \A m \in Downs : IsResponse(m) => m \in Answers
  BY <1>5, <1>6 DEF Downs, IsResponse
<1> QED BY <1>1, <1>2, <1>3, <1>4, <1>5, <1>6, <1>7, <1>8

\* The types of what a step appends.
LEMMA Appended ==
  ASSUME TypeOK
  PROVE  /\ \A x \in Ups : Append(up, x) \in Seq(Ups)
         /\ \A x \in Downs : /\ Append(down, x) \in Seq(Downs)
                             /\ Len(Append(down, x)) = Len(down) + 1
                             /\ Append(down, x)[Len(down) + 1] = x
                             /\ \A i \in 1..Len(down) : Append(down, x)[i] = down[i]
         /\ up \in Seq(Ups) /\ down \in Seq(Downs) /\ Len(down) \in Nat
         /\ \A i \in 1..Len(down) : down[i] \in Downs
<1>1. up \in Seq(Ups) /\ down \in Seq(Downs)
  BY DEF TypeOK, Ups, Requests, Downs
<1>2. ASSUME NEW x \in Ups PROVE Append(up, x) \in Seq(Ups)
  BY <1>1, AppendProperties
<1>3. ASSUME NEW x \in Downs
      PROVE  /\ Append(down, x) \in Seq(Downs)
             /\ Len(Append(down, x)) = Len(down) + 1
             /\ Append(down, x)[Len(down) + 1] = x
             /\ \A i \in 1..Len(down) : Append(down, x)[i] = down[i]
  BY <1>1, AppendProperties
<1>4. Len(down) \in Nat /\ \A i \in 1..Len(down) : down[i] \in Downs
  BY <1>1, LenProperties, ElementOfSeq
<1> QED BY <1>1, <1>2, <1>3, <1>4

\* A call begins.
LEMMA EnterTypes ==
  ASSUME TypeOK, NEW c \in Callers, Enter(c)
  PROVE  /\ pc' \in [Callers -> Places] /\ calls' \in [Callers -> Nat]
         /\ ready' \in BOOLEAN /\ pending' \in Answers \cup {Idle}
         /\ fresh' \subseteq Callers /\ clean' \subseteq Callers
<1>1. /\ pc' = [pc EXCEPT ![c] = "data"] /\ ready' = FALSE /\ pending' = pending
      /\ calls' = [calls EXCEPT ![c] = @ + 1] /\ fresh' = fresh \ {c}
  BY DEF Enter, Goto, Reset
<1>2. clean' = {c} \/ clean' = {}
  BY DEF Enter
<1>3. pc' \in [Callers -> Places] /\ calls' \in [Callers -> Nat]
  BY <1>1 DEF TypeOK, Places
<1> QED BY <1>1, <1>2, <1>3 DEF TypeOK

\* Each step keeps the types.
LEMMA NextTypes ==
  ASSUME TypeOK, ChildSound, [Next]_vars
  PROVE  TypeOK'
<1>1. TypeOK <=>
        /\ pc \in [Callers -> Places] /\ calls \in [Callers -> Nat]
        /\ ready \in BOOLEAN /\ pending \in Answers \cup {Idle}
        /\ up \in Seq(Ups) /\ down \in Seq(Downs)
        /\ child \in [answer : Answers \cup {Idle}, sent : BOOLEAN]
        /\ parent \in BOOLEAN /\ notes \in Nat
        /\ reading \in BOOLEAN /\ open \in BOOLEAN
        /\ fresh \subseteq Callers /\ clean \subseteq Callers
  BY DEF TypeOK, Places, Ups, Requests, Downs
<1>2. TypeOK' <=>
        /\ pc' \in [Callers -> Places] /\ calls' \in [Callers -> Nat]
        /\ ready' \in BOOLEAN /\ pending' \in Answers \cup {Idle}
        /\ up' \in Seq(Ups) /\ down' \in Seq(Downs)
        /\ child' \in [answer : Answers \cup {Idle}, sent : BOOLEAN]
        /\ parent' \in BOOLEAN /\ notes' \in Nat
        /\ reading' \in BOOLEAN /\ open' \in BOOLEAN
        /\ fresh' \subseteq Callers /\ clean' \subseteq Callers
  BY DEF TypeOK, Places, Ups, Requests, Downs
<1>3. ASSUME NEW t \in Threads, Begin(t) PROVE TypeOK'
  BY <1>1, <1>2, <1>3, EnterTypes DEF Begin, server, Callers
<1>4. ASSUME NEW c \in Callers, NEW from \in Places, NEW to \in Places, NEW x \in Ups,
             Sent(c, from, to, x)
      PROVE  TypeOK'
  <2>1. up' \in Seq(Ups)
    BY <1>1, <1>4, Appended DEF Sent
  <2> QED BY <1>1, <1>2, <1>4, <2>1 DEF Sent, Goto, slot, server
<1>5. ASSUME NEW c \in Callers, Call(c) \/ Spurious(c) PROVE TypeOK'
  <2>1. calls[c] \in Nat
    BY <1>1
  <2>2. Request(c, calls[c]) \in Ups /\ Newline \in Ups
    BY <2>1, Kinds DEF Ups
  <2>3. CASE SendData(c) \/ SendNewline(c)
    BY <1>4, <2>2, <2>3 DEF SendData, SendNewline, Places
  <2>4. CASE Take(c) \/ Sleep(c) \/ Spurious(c)
    BY <1>1, <1>2, <2>4 DEF Take, Sleep, Spurious, Goto, Places, slot, server
  <2> QED BY <1>5, <2>3, <2>4 DEF Call
<1>6. CASE ReadLine
  <2>1. HasLine(down) /\ down' = DropLine(down) /\ UNCHANGED <<up, server, reading>>
    BY <1>6 DEF ReadLine
  <2>2. down' \in Seq(Downs) /\ Parsed(down) \in Downs
    BY <1>1, <2>1, Lines
  <2>3. CASE IsResponse(Parsed(down)) /\ Store(Parsed(down))
    <3>1. Parsed(down) \in Answers
      BY <2>2, <2>3, Kinds
    <3>2. pc' \in [Callers -> Places]
      BY <1>1, <2>3 DEF Store, Signal, Places
    <3> QED BY <1>1, <1>2, <2>1, <2>2, <2>3, <3>1, <3>2 DEF Store, server
  <2>4. CASE Refresh
    BY <1>1, <1>2, <2>1, <2>2, <2>4, EnterTypes DEF Refresh, Callers, server
  <2>5. CASE UNCHANGED <<pc, calls, slot, fresh, clean>>
    BY <1>1, <1>2, <2>1, <2>2, <2>5 DEF slot, server
  <2> QED BY <1>6, <2>3, <2>4, <2>5 DEF ReadLine, Show
<1>7. CASE StopReading
  BY <1>1, <1>2, <1>7 DEF StopReading, Disturb, slot, server
<1>8. CASE Answer
  <2>1. HasLine(up) /\ up' = DropLine(up)
    BY <1>8 DEF Answer
  <2>2. up' \in Seq(Ups) /\ Parsed(up) \in Ups
    BY <1>1, <2>1, Lines
  <2>3. CASE Parsed(up) = Newline
    <3>1. child' = [child EXCEPT !.answer = BadRequest] /\ UNCHANGED clean
      BY <1>8, <2>3 DEF Answer
    <3>2. child' \in [answer : Answers \cup {Idle}, sent : BOOLEAN]
      BY <1>1, <3>1, Kinds
    <3> QED BY <1>1, <1>2, <1>8, <2>2, <3>1, <3>2 DEF Answer, slot
  <2>4. CASE Parsed(up) # Newline
    <3>1. PICK r \in Requests : r = Parsed(up)
      BY <2>2, <2>4 DEF Ups
    <3>2. PICK long \in BOOLEAN :
            /\ child' = [child EXCEPT !.answer = Response(r.by, r.n, long)]
            /\ clean' = IF long THEN {} ELSE clean
      BY <1>8, <2>4, <3>1, ApiAssumption DEF Answer
    <3>3. Response(r.by, r.n, long) \in Answers
      BY Kinds
    <3>4. child' \in [answer : Answers \cup {Idle}, sent : BOOLEAN]
      BY <1>1, <3>2, <3>3
    <3>5. clean' \subseteq Callers
      BY <1>1, <3>2
    <3> QED BY <1>1, <1>2, <1>8, <2>2, <3>4, <3>5 DEF Answer, slot
  <2> QED BY <2>3, <2>4
<1>9. CASE AnswerData
  <2>1. child.answer \in Answers /\ child.answer \in Downs
    BY <1>1, <1>9 DEF AnswerData, Downs
  <2>2. down' \in Seq(Downs) /\ child' \in [answer : Answers \cup {Idle}, sent : BOOLEAN]
    BY <1>1, <1>9, <2>1, Appended DEF AnswerData
  <2>3. clean' \subseteq Callers
    BY <1>1, <1>9 DEF AnswerData
  <2> QED BY <1>1, <1>2, <1>9, <2>2, <2>3 DEF AnswerData, slot
<1>10. CASE AnswerNewline
  <2>1. down' \in Seq(Downs)
    BY <1>10, Appended DEF AnswerNewline, Downs
  <2> QED BY <1>1, <1>2, <1>10, <2>1 DEF AnswerNewline, slot
<1>11. ASSUME NEW k \in NoteKinds, NotifyData(k) PROVE TypeOK'
  <2>1. Note(k) \in Downs
    BY Kinds DEF Downs
  <2>2. down' \in Seq(Downs)
    BY <1>11, <2>1, Appended DEF NotifyData
  <2>3. clean' \subseteq Callers
    BY <1>1, <1>11 DEF NotifyData
  <2> QED BY <1>1, <1>2, <1>11, <2>2, <2>3 DEF NotifyData, slot
<1>12. CASE NotifyNewline
  <2>1. down' \in Seq(Downs)
    BY <1>12, Appended DEF NotifyNewline, Downs
  <2> QED BY <1>1, <1>2, <1>12, <2>1 DEF NotifyNewline, slot
<1>13. CASE Close
  <2>1. up' \in Seq(Ups)
    BY <1>13, EmptySeq DEF Close
  <2> QED BY <1>1, <1>2, <1>13, <2>1 DEF Close, Disturb, slot
<1>14. CASE UNCHANGED vars
  BY <1>1, <1>2, <1>14 DEF vars, slot, server
<1> QED
  BY <1>3, <1>5, <1>6, <1>7, <1>8, <1>9, <1>10, <1>11, <1>12, <1>13, <1>14
  DEF Next, Read, Child, Notify
-----------------------------------------------------------------------------
(* The two writers of the client's socket. *)

\* The child writes an answer's data before its newline.
LEMMA NextChildSound ==
  ASSUME TypeOK, ChildSound, [Next]_vars
  PROVE  ChildSound'
<1>1. CASE UNCHANGED child
  BY <1>1 DEF ChildSound
<1>2. CASE Answer
  <2>1. ~child.sent
    BY <1>2 DEF Answer, ChildSound, TypeOK
  <2>2. child' = [child EXCEPT !.answer = child'.answer]
    <3>1. ASSUME NEW x, child' = [child EXCEPT !.answer = x]
          PROVE  child' = [child EXCEPT !.answer = child'.answer]
      BY <3>1 DEF TypeOK
    <3> QED BY <1>2, <3>1 DEF Answer
  <2> QED BY <2>1, <2>2 DEF ChildSound, TypeOK
<1>3. CASE AnswerData
  BY <1>3 DEF AnswerData, ChildSound, TypeOK
<1>4. CASE AnswerNewline
  BY <1>4 DEF AnswerNewline, ChildSound
<1> QED
  BY <1>1, <1>2, <1>3, <1>4 DEF Next, Begin, Call, SendData, SendNewline, Sent, Take, Sleep,
     Spurious, Read, ReadLine, StopReading, Child, Notify, NotifyData, NotifyNewline, Close,
     server, vars

\* Lines end when their writers are done.
LEMMA NextLinesEnd ==
  ASSUME TypeOK, LinesEnd, [Next]_vars
  PROVE  LinesEnd'
<1>1. CASE UNCHANGED <<down, parent, child>>
  BY <1>1 DEF LinesEnd
<1>2. CASE ReadLine
  <2>1. HasLine(down) /\ down' = DropLine(down) /\ UNCHANGED <<child, parent>>
    BY <1>2 DEF ReadLine, server
  <2>2. PICK e \in 1..Len(down) :
          /\ down[e] = Newline /\ down' \in Seq(Downs) /\ Len(down') = Len(down) - e
          /\ \A i \in 1..Len(down') : down'[i] = down[e + i]
    <3>1. down \in Seq(Downs)
      BY Appended
    <3>2. /\ LineEnd(down) \in 1..Len(down) /\ down[LineEnd(down)] = Newline
          /\ down' \in Seq(Downs) /\ Len(down') = Len(down) - LineEnd(down)
          /\ \A i \in 1..Len(down') : down'[i] = down[LineEnd(down) + i]
      BY <2>1, <3>1, Lines
    <3> QED BY <3>2
  <2>3. SUFFICES ASSUME ~parent, ~child.sent, down' # <<>> PROVE down'[Len(down')] = Newline
    BY <2>1 DEF LinesEnd
  <2>4. Len(down') \in Nat \ {0} /\ Len(down) \in Nat
    BY <2>2, <2>3, EmptySeq, LenProperties, Appended
  <2>5. down'[Len(down')] = down[Len(down)]
    <3>1. Len(down') \in 1..Len(down') /\ e + Len(down') = Len(down)
      BY <2>2, <2>4
    <3> QED BY <2>2, <3>1
  <2>6. down # <<>>
    BY <2>2, <2>4, EmptySeq
  <2> QED BY <2>3, <2>5, <2>6 DEF LinesEnd
<1>3. CASE Answer
  <2>1. UNCHANGED <<down, parent>>
    BY <1>3 DEF Answer
  <2>2. child'.sent = child.sent
    BY <1>3 DEF Answer, TypeOK
  <2> QED BY <2>1, <2>2 DEF LinesEnd
<1>4. CASE AnswerData
  BY <1>4 DEF AnswerData, LinesEnd, TypeOK
<1>5. CASE AnswerNewline \/ NotifyNewline
  <2>1. down' = Append(down, Newline) /\ Newline \in Downs
    BY <1>5 DEF AnswerNewline, NotifyNewline, Downs
  <2>2. down'[Len(down')] = Newline
    BY <2>1, Appended
  <2> QED BY <2>2 DEF LinesEnd
<1>6. ASSUME NEW k \in NoteKinds, NotifyData(k) PROVE LinesEnd'
  BY <1>6 DEF NotifyData, LinesEnd
<1> QED
  BY <1>1, <1>2, <1>3, <1>4, <1>5, <1>6 DEF Next, Begin, Call, SendData, SendNewline, Sent,
     Take, Sleep, Spurious, Read, StopReading, Child, Notify, Close, server, vars
-----------------------------------------------------------------------------
(* The call that nothing disturbs. *)

\* An undisturbed call begins when nothing else is under way.
LEMMA EnterClean ==
  ASSUME TypeOK, ChildSound, NEW c \in Callers, Enter(c),
         UNCHANGED <<up, child, open, reading>>, PlainDown => PlainDown'
  PROVE  CleanCalls'
<1>1. CASE ~Quiet
  BY <1>1 DEF Enter, CleanCalls
<1>2. CASE Quiet
  <2>1. clean' = {c} /\ ready' = FALSE /\ pc[c] = "idle" /\ pc' = [pc EXCEPT ![c] = "data"]
    BY <1>2 DEF Enter, Goto, Reset
  <2>2. InCall' = {c} /\ pc'[c] = "data"
    BY <1>2, <2>1 DEF Quiet, InCall, TypeOK
  <2>3. PlainDown'
    BY <1>2 DEF Quiet, PlainDown, Plain
  <2>4. Stage(c)'
    BY <1>2, <2>1, <2>2, <2>3 DEF Quiet, Stage
  <2>5. open' /\ reading'
    BY <1>2 DEF Quiet
  <2> QED BY <2>1, <2>2, <2>4, <2>5 DEF CleanCalls
<1> QED BY <1>1, <1>2

\* Two elements one after the other.
LEMMA AppendToOne == ASSUME NEW a, NEW b PROVE Append(<<a>>, b) = <<a, b>>
<1>1. PICK T : T = {a, b}
  OBVIOUS
<1>2. <<a>> \in Seq(T) /\ <<a, b>> \in Seq(T) /\ b \in T
  BY <1>1
<1>3. Len(<<a>>) = 1 /\ <<a>>[1] = a /\ Len(<<a, b>>) = 2 /\ <<a, b>>[1] = a /\ <<a, b>>[2] = b
  OBVIOUS
<1>4. PICK s \in Seq(T) : s = <<a>> /\ Len(s) = 1 /\ s[1] = a
  BY <1>2, <1>3
<1>5. /\ Append(s, b) \in Seq(T) /\ Len(Append(s, b)) = 2
      /\ Append(s, b)[1] = a /\ Append(s, b)[2] = b
  BY <1>2, <1>4, AppendProperties
<1>6. PICK t \in Seq(T) : t = Append(s, b) /\ Len(t) = 2 /\ t[1] = a /\ t[2] = b
  BY <1>5
<1>7. PICK u \in Seq(T) : u = <<a, b>> /\ Len(u) = 2 /\ u[1] = a /\ u[2] = b
  BY <1>2, <1>3
<1>8. \A i \in 1..Len(t) : t[i] = u[i]
  <2>1. \A i \in 1..2 : i = 1 \/ i = 2
    OBVIOUS
  <2> QED BY <1>6, <1>7, <2>1
<1>9. t = u
  BY <1>6, <1>7, <1>8, SeqEqual
<1> QED BY <1>4, <1>6, <1>7, <1>9

\* The steps of the call itself.
LEMMA CallClean ==
  ASSUME TypeOK, CleanCalls, NEW d \in Callers, Call(d) \/ Spurious(d)
  PROVE  CleanCalls'
<1>1. SUFFICES ASSUME NEW c \in clean, pc'[c] # "idle"
               PROVE  InCall' = {c} /\ open /\ reading /\ Stage(c)'
  BY DEF CleanCalls, Call, SendData, SendNewline, Sent, Take, Sleep, Spurious, server
<1>2. PICK from, to : pc[d] = from /\ from # "idle" /\ pc' = [pc EXCEPT ![d] = to]
  BY DEF Call, SendData, SendNewline, Sent, Take, Sleep, Spurious, Goto
<1>3. c \in Callers /\ pc[c] # "idle"
  BY <1>1, <1>2 DEF TypeOK
<1>4. InCall = {c} /\ open /\ reading /\ Stage(c)
  BY <1>1, <1>3 DEF CleanCalls
<1>5. d = c
  BY <1>2, <1>4 DEF InCall
<1>6. InCall' = {c}
  BY <1>1, <1>2, <1>3, <1>4, <1>5 DEF InCall, TypeOK
<1>7. Stage(c)'
  <2>1. CASE SendData(c)
    <3>1. /\ pc[c] = "data" /\ pc'[c] = "newline" /\ up' = Append(up, Request(c, calls[c]))
          /\ UNCHANGED <<calls, ready, down, child>>
      BY <1>4, <2>1 DEF SendData, Sent, Goto, TypeOK, slot, server
    <3>2. up = <<>> /\ child.answer = Idle /\ PlainDown /\ ~ready
      BY <1>4, <3>1 DEF Stage
    <3>3. up' = <<Request(c, calls[c])>>
      BY <3>1, <3>2
    <3> QED BY <3>1, <3>2, <3>3 DEF Stage, PlainDown, Request
  <2>2. CASE SendNewline(c)
    <3>1. /\ pc[c] = "newline" /\ pc'[c] = "check" /\ up' = Append(up, Newline)
          /\ UNCHANGED <<calls, ready, down, child>>
      BY <1>4, <2>2 DEF SendNewline, Sent, Goto, TypeOK, slot, server
    <3>2. up = <<Request(c, calls[c])>> /\ child.answer = Idle /\ PlainDown /\ ~ready
      BY <1>4, <3>1 DEF Stage
    <3>3. up' = <<Request(c, calls[c]), Newline>>
      BY <3>1, <3>2, AppendToOne
    <3> QED BY <3>1, <3>2, <3>3 DEF Stage, PlainDown, Request, Newline
  <2>3. CASE Sleep(c) \/ Spurious(c)
    <3>1. /\ pc[c] \in {"check", "asleep"} /\ pc'[c] \in {"check", "asleep"}
          /\ UNCHANGED <<calls, ready, pending, up, down, child, parent>>
      BY <2>3 DEF Sleep, Spurious, Goto, TypeOK, slot, server
    <3> QED
      BY <1>4, <3>1 DEF Stage, PlainDown, AnswerDown, Mine, Request, Newline, Response, Idle
  <2>4. ~Take(c)
    BY <1>1 DEF Take, Goto, TypeOK
  <2> QED BY <1>5, <2>1, <2>2, <2>3, <2>4 DEF Call
<1> QED BY <1>4, <1>6, <1>7
\* A step that leaves an undisturbed call where it was, in its next stage.
LEMMA StageMoves ==
  ASSUME CleanCalls, clean' \subseteq clean, UNCHANGED <<pc, open, reading>>,
         \A c \in clean' : pc[c] # "idle" /\ Stage(c) => Stage(c)'
  PROVE  CleanCalls'
<1>1. SUFFICES ASSUME NEW c \in clean', pc'[c] # "idle"
               PROVE  InCall' = {c} /\ open' /\ reading' /\ Stage(c)'
  BY DEF CleanCalls
<1>2. InCall = {c} /\ open /\ reading /\ Stage(c)
  BY <1>1 DEF CleanCalls
<1> QED BY <1>1, <1>2 DEF InCall

\* The child reads the request and writes its answer.
LEMMA ChildClean ==
  ASSUME TypeOK, ChildSound, LinesEnd, CleanCalls, Child
  PROVE  CleanCalls'
<1>1. UNCHANGED <<pc, calls, ready, pending, open, reading>> /\ clean' \subseteq clean
  <2>1. CASE Answer
    <3>1. clean' = clean \/ clean' = {}
      BY <2>1 DEF Answer
    <3> QED BY <2>1, <3>1 DEF Answer, slot
  <2>2. CASE AnswerData \/ AnswerNewline
    <3>1. clean' = clean \/ clean' = {}
      BY <2>2 DEF AnswerData, AnswerNewline
    <3> QED BY <2>2, <3>1 DEF AnswerData, AnswerNewline, slot
  <2> QED BY <2>1, <2>2 DEF Child
<1>2. SUFFICES ASSUME NEW c \in clean', Stage(c) PROVE Stage(c)'
  BY <1>1, StageMoves
<1>3. c \in Callers /\ calls[c] \in Nat /\ calls' = calls
  BY <1>1, <1>2 DEF TypeOK
<1>4. Mine(c)' = Mine(c) /\ Mine(c) \in Answers /\ Mine(c).kind = "response"
  BY <1>3, Kinds DEF Mine, Response
<1>5. CASE Answer
  <2>1. child.answer = Idle /\ ~child.sent /\ HasLine(up) /\ up' = DropLine(up)
    BY <1>5 DEF Answer, ChildSound, TypeOK
  <2>2. \E i \in 1..Len(up) : up[i] = Newline
    BY <2>1 DEF HasLine, Newlines
  <2>3. PICK r \in Requests : r = Request(c, calls[c])
    BY <1>3, Kinds
  <2>4. up = <<r, Newline>> /\ pc[c] \in {"check", "asleep"} /\ PlainDown /\ ~ready
    <3>1. up # <<>>
      BY <2>2
    <3>2. up # <<r>>
      BY <2>2, Kinds
    <3> QED BY <1>2, <2>3, <3>1, <3>2 DEF Stage
  <2>5. LineEnd(up) = 2
    <3>1. up \in Seq(Ups)
      BY Appended
    <3>2. LineEnd(up) \in 1..Len(up) /\ up[LineEnd(up)] = Newline
      BY <2>1, <3>1, Lines
    <3>3. Len(up) = 2 /\ up[1] = r /\ r # Newline
      BY <2>4, Kinds
    <3> QED BY <3>2, <3>3
  <2>6. up' = <<>>
    <3>1. up' \in Seq(Ups) /\ Len(up') = Len(up) - LineEnd(up)
      BY <2>1, Lines, Appended
    <3> QED BY <2>4, <2>5, <3>1, EmptySeq
  <2>7. Parsed(up) = r /\ r # Newline /\ r.by = c /\ r.n = calls[c]
    BY <2>3, <2>4, Kinds DEF Parsed, Request
  <2>8. PICK long : /\ child' = [child EXCEPT !.answer = Response(c, calls[c], long)]
                    /\ clean' = IF long THEN {} ELSE clean
                    /\ long \in {FALSE, LongAnswers}
    BY <1>5, <2>7 DEF Answer
  <2>9. long = FALSE
    BY <1>2, <2>8, ApiAssumption
  <2>10. child'.answer = Mine(c) /\ ~child'.sent
    BY <2>1, <2>8, <2>9 DEF Mine, TypeOK
  <2>11. UNCHANGED down
    BY <1>5 DEF Answer
  <2> QED BY <1>1, <1>4, <2>4, <2>6, <2>10, <2>11 DEF Stage, PlainDown
<1>6. CASE AnswerData
  <2>1. /\ child.answer # Idle /\ ~child.sent /\ down' = Append(down, child.answer)
        /\ child' = [child EXCEPT !.sent = TRUE] /\ UNCHANGED <<up, parent>>
    BY <1>6 DEF AnswerData
  <2>2. ~parent
    BY <1>2, <1>6 DEF AnswerData
  <2>3. /\ pc[c] \in {"check", "asleep"} /\ up = <<>>
        /\ child.answer = Mine(c) /\ PlainDown /\ ~ready
    BY <1>2, <2>1 DEF Stage
  <2>4. Mine(c) \in Downs
    BY <1>4 DEF Downs
  <2>5. /\ Len(down') = Len(down) + 1 /\ down'[Len(down) + 1] = Mine(c)
        /\ \A i \in 1..Len(down) : down'[i] = down[i]
        /\ Len(down) \in Nat /\ down \in Seq(Downs)
    BY <2>1, <2>3, <2>4, Appended
  <2>6. Len(down) + 1 = 1 \/ down'[Len(down)] = Newline
    BY <2>1, <2>2, <2>5, EmptySeq DEF LinesEnd
  <2>7. AnswerDown(c)'
    <3>1. PICK k \in 1..Len(down') : k = Len(down) + 1
      BY <2>5
    <3>2. down'[k] = Mine(c)' /\ (k = 1 \/ down'[k - 1] = Newline)
      BY <1>4, <2>5, <2>6, <3>1
    <3>3. \A j \in 1..Len(down') : j # k => Plain(down'[j])
      BY <2>3, <2>5, <3>1 DEF PlainDown
    <3> QED BY <2>1, <2>2, <2>5, <3>1, <3>2, <3>3 DEF AnswerDown, Plain
  <2>8. child'.sent /\ child'.answer = Mine(c)
    BY <2>1, <2>3 DEF TypeOK
  <2> QED BY <1>1, <1>4, <2>1, <2>3, <2>7, <2>8 DEF Stage
<1>7. CASE AnswerNewline
  <2>1. /\ child.sent /\ down' = Append(down, Newline) /\ child' = [answer |-> Idle, sent |-> FALSE]
        /\ UNCHANGED <<up, parent>>
    BY <1>7 DEF AnswerNewline
  <2>2. /\ pc[c] \in {"check", "asleep"} /\ up = <<>> /\ AnswerDown(c) /\ ~ready
    BY <1>2, <2>1 DEF Stage, ChildSound
  <2>3. PICK i \in 1..Len(down) :
          /\ down[i] = Mine(c) /\ (i = 1 \/ down[i - 1] = Newline)
          /\ \A j \in 1..Len(down) : j # i => Plain(down[j])
    BY <2>2 DEF AnswerDown
  <2>4. /\ Len(down') = Len(down) + 1 /\ down'[Len(down) + 1] = Newline
        /\ \A j \in 1..Len(down) : down'[j] = down[j]
        /\ Len(down) \in Nat
    BY <2>1, Appended DEF Downs
  <2>5. AnswerDown(c)'
    <3>1. i \in 1..Len(down') /\ down'[i] = Mine(c)'
      BY <1>4, <2>3, <2>4
    <3>2. i = 1 \/ down'[i - 1] = Newline
      BY <2>3, <2>4
    <3>3. \A j \in 1..Len(down') : j # i => Plain(down'[j])
      BY <2>3, <2>4 DEF Plain, Newline
    <3> QED BY <2>1, <3>1, <3>2, <3>3 DEF AnswerDown, Plain
  <2> QED BY <1>1, <2>1, <2>2, <2>5 DEF Stage
<1> QED BY <1>5, <1>6, <1>7 DEF Child

\* The parent notifies.
LEMMA NotifyClean ==
  ASSUME TypeOK, ChildSound, CleanCalls, Notify
  PROVE  CleanCalls'
<1>1. PICK m : /\ m \in Downs /\ down' = Append(down, m)
               /\ UNCHANGED <<pc, calls, ready, pending, up, child, open, reading>>
               /\ clean' \subseteq clean /\ (clean' # {} => Plain(m))
               /\ clean' # {} /\ child.sent => parent
  <2>1. CASE NotifyNewline
    BY <2>1 DEF NotifyNewline, Downs, Plain, Newline, slot
  <2>2. ASSUME NEW k \in NoteKinds, NotifyData(k)
        PROVE  /\ Note(k) \in Downs /\ down' = Append(down, Note(k))
               /\ UNCHANGED <<pc, calls, ready, pending, up, child, open, reading>>
               /\ clean' \subseteq clean /\ (clean' # {} => Plain(Note(k)) /\ ~child.sent)
    <3>1. Note(k) \in Downs
      BY Kinds DEF Downs
    <3>2. clean' = IF child.sent \/ k = "members" THEN {} ELSE clean
      BY <2>2 DEF NotifyData
    <3>3. clean' # {} => k = "message" /\ ~child.sent
      BY <3>2, ApiAssumption
    <3>4. clean' \subseteq clean
      BY <3>2
    <3> QED BY <2>2, <3>1, <3>3, <3>4 DEF NotifyData, Plain, Note, slot
  <2> QED BY <2>1, <2>2 DEF Notify
<1>2. SUFFICES ASSUME NEW c \in clean', Stage(c) PROVE Stage(c)'
  BY <1>1, StageMoves
<1>3. /\ Len(down') = Len(down) + 1 /\ down'[Len(down) + 1] = m
      /\ \A j \in 1..Len(down) : down'[j] = down[j]
      /\ Len(down) \in Nat
  BY <1>1, Appended
<1>4. Plain(m) /\ (child.sent => parent)
  BY <1>1, <1>2
<1>5. PlainDown => PlainDown'
  BY <1>3, <1>4 DEF PlainDown, Plain
<1>6. Mine(c)' = Mine(c) /\ Request(c, calls[c])' = Request(c, calls[c])
  BY <1>1 DEF Mine, Request, Response
<1>7. AnswerDown(c) => AnswerDown(c)' /\ ~child.sent
  <2>1. SUFFICES ASSUME AnswerDown(c) PROVE AnswerDown(c)' /\ ~child.sent
    OBVIOUS
  <2>2. PICK i \in 1..Len(down) :
          /\ down[i] = Mine(c) /\ (i = 1 \/ down[i - 1] = Newline)
          /\ \A j \in 1..Len(down) : j # i => Plain(down[j])
          /\ child.sent => ~parent
    BY <2>1 DEF AnswerDown
  <2>3. ~child.sent
    BY <1>4, <2>2
  <2>4. i \in 1..Len(down') /\ down'[i] = Mine(c)' /\ (i = 1 \/ down'[i - 1] = Newline)
    BY <1>3, <1>6, <2>2
  <2>5. \A j \in 1..Len(down') : j # i => Plain(down'[j])
    BY <1>3, <1>4, <2>2
  <2> QED BY <1>1, <2>3, <2>4, <2>5 DEF AnswerDown, Plain
<1> QED BY <1>1, <1>2, <1>5, <1>6, <1>7 DEF Stage
\* The reader thread takes a line: the answer, or a notification before it.
LEMMA ReadClean ==
  ASSUME TypeOK, ChildSound, CleanCalls, ReadLine
  PROVE  CleanCalls'
<1>1. /\ HasLine(down) /\ down' = DropLine(down) /\ UNCHANGED <<up, child, parent, open, reading>>
  BY DEF ReadLine, server
<1>2. PICK e \in 1..Len(down) :
        /\ down[e] = Newline /\ \A j \in 1..Len(down) : down[j] = Newline => e <= j
        /\ Len(down') = Len(down) - e
        /\ \A i \in 1..Len(down') : down'[i] = down[e + i]
  <2>1. down \in Seq(Downs)
    BY Appended
  <2>2. /\ LineEnd(down) \in 1..Len(down) /\ down[LineEnd(down)] = Newline
        /\ \A j \in 1..Len(down) : down[j] = Newline => LineEnd(down) <= j
        /\ Len(down') = Len(down) - LineEnd(down)
        /\ \A i \in 1..Len(down') : down'[i] = down[LineEnd(down) + i]
    BY <1>1, <2>1, Lines
  <2> QED BY <2>2
<1>3. Len(down) \in Nat /\ Len(down') \in Nat /\ \A i \in 1..Len(down') : e + i \in 1..Len(down)
  BY <1>2, Appended
<1>4. PlainDown => PlainDown'
  BY <1>2, <1>3 DEF PlainDown, Plain
<1>5. CASE Parsed(down).kind = "members" /\ Refresh
  BY <1>1, <1>4, <1>5, EnterClean DEF Refresh, Callers
<1>6. CASE /\ Parsed(down).kind \in {"message", "newline"}
           /\ UNCHANGED <<pc, calls, slot, fresh, clean>>
  <2>1. SUFFICES ASSUME NEW c \in clean, Stage(c) PROVE Stage(c)'
    BY <1>1, <1>6, StageMoves
  <2>2. Mine(c)' = Mine(c) /\ Request(c, calls[c])' = Request(c, calls[c])
    BY <1>6 DEF Mine, Request, Response
  <2>3. ASSUME AnswerDown(c) PROVE AnswerDown(c)'
    <3>1. PICK i \in 1..Len(down) :
            /\ down[i] = Mine(c) /\ (i = 1 \/ down[i - 1] = Newline)
            /\ \A j \in 1..Len(down) : j # i => Plain(down[j])
            /\ child.sent => i = Len(down) /\ ~parent
      BY <2>3 DEF AnswerDown
    <3>2. i # 1
      BY <1>6, <3>1 DEF Parsed, Mine, Response
    <3>3. e <= i - 1
      <4>1. i - 1 \in 1..Len(down) /\ down[i - 1] = Newline
        BY <1>3, <3>1, <3>2
      <4> QED BY <1>2, <4>1
    <3>4. PICK k \in 1..Len(down') : k = i - e
      BY <1>2, <1>3, <3>1, <3>3
    <3>5. down'[k] = Mine(c)' /\ (k = 1 \/ down'[k - 1] = Newline)
      <4>1. e + k = i
        BY <1>3, <3>4
      <4>2. down'[k] = Mine(c)
        BY <1>2, <3>1, <4>1
      <4>3. k # 1 => k - 1 \in 1..Len(down') /\ e + (k - 1) = i - 1
        BY <1>3, <3>4
      <4>4. k # 1 => down'[k - 1] = down[i - 1]
        BY <1>2, <4>3
      <4> QED BY <2>2, <3>1, <3>2, <4>2, <4>4
    <3>6. ASSUME NEW j \in 1..Len(down'), j # k PROVE Plain(down'[j])
      <4>1. e + j \in 1..Len(down) /\ e + j # i /\ down'[j] = down[e + j]
        BY <1>2, <1>3, <3>4, <3>6
      <4> QED BY <3>1, <4>1
    <3>7. child'.sent => k = Len(down') /\ ~parent'
      BY <1>1, <1>2, <1>3, <3>1, <3>4
    <3> QED BY <3>5, <3>6, <3>7 DEF AnswerDown, Plain
  <2> QED BY <1>1, <1>4, <1>6, <2>1, <2>2, <2>3 DEF Stage, slot
<1>7. CASE IsResponse(Parsed(down)) /\ Store(Parsed(down))
  <2>1. /\ ready' = TRUE /\ pending' = down[1] /\ UNCHANGED <<calls, clean>>
        /\ down[1].kind \in {"response", "bad"}
    BY <1>7 DEF Store, Parsed, IsResponse
  <2>2. /\ InCall' = InCall
        /\ \A c \in Callers : pc[c] \in {"check", "asleep"} => pc'[c] \in {"check", "asleep"}
        /\ \A c \in Callers : pc[c] # "idle" <=> pc'[c] # "idle"
    <3>1. \/ pc' = pc
          \/ \E d \in Callers : pc[d] = "asleep" /\ pc' = [pc EXCEPT ![d] = "check"]
      BY <1>7 DEF Store, Signal
    <3>2. \A c \in Callers :
            pc'[c] = pc[c] \/ (pc[c] = "asleep" /\ pc'[c] = "check")
      BY <3>1 DEF TypeOK
    <3> QED BY <3>2 DEF InCall
  <2>3. SUFFICES ASSUME NEW c \in clean, pc[c] # "idle", InCall = {c}, open, reading, Stage(c)
                 PROVE  Stage(c)'
    BY <1>1, <2>1, <2>2 DEF CleanCalls, TypeOK
  <2>4. 1 \in 1..Len(down) /\ ~Plain(down[1])
    BY <1>2, <1>3, <2>1 DEF Plain
  <2>5. /\ pc[c] \in {"check", "asleep"} /\ up = <<>>
        /\ child.answer = (IF child.sent THEN Mine(c) ELSE Idle) /\ AnswerDown(c)
    BY <2>3, <2>4 DEF Stage, PlainDown
  <2>6. /\ down[1] = Mine(c) /\ \A j \in 1..Len(down) : j # 1 => Plain(down[j])
        /\ child.sent => 1 = Len(down)
    BY <2>4, <2>5 DEF AnswerDown
  <2>7. ~child.sent
    <3>1. down[e] = Newline /\ down[1] # Newline
      BY <1>2, <2>1 DEF Newline
    <3> QED BY <1>2, <1>3, <2>6, <3>1
  <2>8. PlainDown'
    <3>1. ASSUME NEW i \in 1..Len(down') PROVE Plain(down'[i])
      BY <1>2, <1>3, <2>6
    <3> QED BY <3>1 DEF PlainDown, Plain
  <2>9. Mine(c)' = Mine(c)
    BY <2>1 DEF Mine, Response
  <2>10. pc'[c] \in {"check", "asleep"}
    BY <2>2, <2>5 DEF TypeOK
  <2> QED BY <1>1, <2>1, <2>5, <2>6, <2>7, <2>8, <2>9, <2>10 DEF Stage
<1> QED
  BY <1>5, <1>6, <1>7 DEF ReadLine, Show, Newline

\* An undisturbed call stays the only one, and goes from stage to stage.
LEMMA NextCleanCalls ==
  ASSUME TypeOK, ChildSound, LinesEnd, CleanCalls, [Next]_vars
  PROVE  CleanCalls'
<1>1. ASSUME NEW t \in Threads, Begin(t) PROVE CleanCalls'
  BY <1>1, EnterClean DEF Begin, Callers, server, PlainDown, Plain
<1>2. ASSUME NEW c \in Callers, Call(c) \/ Spurious(c) PROVE CleanCalls'
  BY <1>2, CallClean
<1>3. CASE StopReading \/ Close
  BY <1>3 DEF StopReading, Close, Disturb, CleanCalls
<1>4. CASE UNCHANGED vars
  BY <1>4 DEF vars, slot, server, CleanCalls, InCall, Stage, AnswerDown, PlainDown, Plain, Mine,
     Request, Response, Newline, Idle
<1> QED
  BY <1>1, <1>2, <1>3, <1>4, ReadClean, ChildClean, NotifyClean DEF Next, Read

\* The invariant of the calls that nothing disturbs.
LEMMA OwnInvariant == Spec => []OwnInv
<1>1. Init => OwnInv
  <2> SUFFICES ASSUME Init PROVE OwnInv
    OBVIOUS
  <2>1. TypeOK
    BY EmptySeq DEF Init, TypeOK
  <2>2. ChildSound /\ LinesEnd /\ CleanCalls
    BY DEF Init, ChildSound, LinesEnd, CleanCalls
  <2> QED BY <2>1, <2>2 DEF OwnInv
<1>2. OwnInv /\ [Next]_vars => OwnInv'
  BY NextTypes, NextChildSound, NextLinesEnd, NextCleanCalls DEF OwnInv
<1> QED BY <1>1, <1>2, PTL DEF Spec

\* The types of both ends of the connection.
THEOREM TypeCorrect == Spec => []TypeOK
<1>1. OwnInv => TypeOK
  BY DEF OwnInv
<1> QED BY <1>1, OwnInvariant, PTL

\* A call that nothing disturbs returns the answer to its own request.
THEOREM OwnAnswerReturned == Spec => OwnAnswer
<1>1. ASSUME OwnInv, NEW c \in Callers, Take(c), c \in clean
      PROVE  pending = Response(c, calls[c], FALSE)
  <2>1. pc[c] = "check" /\ ready
    BY <1>1 DEF Take, Goto
  <2>2. Stage(c)
    BY <1>1, <2>1 DEF OwnInv, CleanCalls
  <2> QED BY <2>1, <2>2 DEF Stage, Mine
<1>2. OwnInv /\ [Next]_vars =>
        [\A c \in Callers : Take(c) /\ c \in clean =>
           pending = Response(c, calls[c], FALSE)]_vars
  BY <1>1
<1> QED BY <1>2, OwnInvariant, PTL DEF Spec, OwnAnswer
=============================================================================
