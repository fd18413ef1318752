-------------------------- MODULE ClientViewProofs --------------------------
(***************************************************************************)
(* Proofs about what the client shows (ClientView), for any users, chats,  *)
(* number of messages kept and bounds.                                     *)
(*                                                                         *)
(* A message is on its way in one of four places: its poster's pipe, what  *)
(* the server wrote, the reader thread's hands, the messages shown since   *)
(* the chat was opened.  InOrder says that one user's messages are in      *)
(* these places in the order they were posted, OnTheWay that one that is   *)
(* due is in one of them.  The history shown is the beginning of the       *)
(* chat's log (HistoryShown), and while the threads never waited together, *)
(* the only answer under way is the one that is waited for (OneAnswer).    *)
(***************************************************************************)
EXTENDS ClientView, FiniteSetTheorems, SequenceTheorems, TLAPS

Notice == [kind : {"note"}, message : Message]
Request == [by : {"main", "worker"}, route : Routes]

\* The types of the variables.
TypeInv ==
  /\ log \in [Routes -> Seq(Message)] /\ posts \in Nat
  /\ pipes \in [Posters -> Seq(Message)]
  /\ up \in Seq(Request) /\ child \in Response \cup {None}
  /\ down \in Seq(Response \cup Notice) /\ slot \in Response \cup {None}
  /\ main \in Routes \cup {None} /\ worker \in Routes \cup {None}
  /\ reader \in Message \cup {None}
  /\ current \in Routes \cup {None} /\ shown \in Seq(Message)
  /\ switches \in Nat /\ read \in Nat /\ set \in Nat /\ base \in Nat
  /\ right \in BOOLEAN /\ overlap \in BOOLEAN

\* a dialog's messages are posted by its two users
Fits(m) == m.by = Me \/ m.route \in Chats \cup {m.by}

\* The log of a route holds messages to it, each with a number of its own.
LogSound ==
  /\ \A r \in Routes : \A k \in 1..Len(log[r]) :
       log[r][k].route = r /\ log[r][k].n \in 1..posts /\ Fits(log[r][k])
  /\ \A r \in Routes : \A k, l \in 1..Len(log[r]) :
       log[r][k].n = log[r][l].n => k = l

IsNote(i) == down[i].kind = "note"

\* What is on its way has been posted.
WaySound ==
  /\ \A p \in Posters : \A j \in 1..Len(pipes[p]) :
       pipes[p][j].by = p /\ pipes[p][j].n \in 1..posts /\ Fits(pipes[p][j])
  /\ \A i \in 1..Len(down) :
       IsNote(i) => down[i].message.n \in 1..posts /\ Fits(down[i].message)
  /\ reader # None => reader.n \in 1..posts
  /\ \A i \in 1..Len(shown) : shown[i].n \in 1..posts

Before(a, b) == a.by = b.by => a.n < b.n

\* One user's messages are on their way in the order they were posted.
PipesInOrder == \A p \in Posters : \A i, j \in 1..Len(pipes[p]) :
                  i < j => pipes[p][i].n < pipes[p][j].n
DownInOrder == \A i, j \in 1..Len(down) :
                 i < j /\ IsNote(i) /\ IsNote(j) => Before(down[i].message, down[j].message)
DownThenPipes == \A i \in 1..Len(down) : \A p \in Posters : \A j \in 1..Len(pipes[p]) :
                   IsNote(i) => Before(down[i].message, pipes[p][j])
AllAfter(m) == /\ \A i \in 1..Len(down) : IsNote(i) => Before(m, down[i].message)
               /\ \A p \in Posters : \A j \in 1..Len(pipes[p]) : Before(m, pipes[p][j])
ReaderThenRest == reader # None => AllAfter(reader)
LiveThenRest == \A k \in (base + 1)..Len(shown) :
                  AllAfter(shown[k]) /\ (reader # None => Before(shown[k], reader))
InOrder == PipesInOrder /\ DownInOrder /\ DownThenPipes /\ ReaderThenRest /\ LiveThenRest

\* A message that is due is on its way or shown, or the client is full.
Comes(m) ==
  \/ \E i \in 1..Len(shown) : shown[i] = m
  \/ reader = m
  \/ \E i \in 1..Len(down) : IsNote(i) /\ down[i].message = m
  \/ \E j \in 1..Len(pipes[m.by]) : pipes[m.by][j] = m
OnTheWay ==
  /\ Len(shown) <= MaxMessages /\ set <= posts
  /\ current # None /\ ~Full =>
       \A k \in 1..Len(log[current]) :
         LET m == log[current][k] IN
         m.n > set /\ (m.by # Me \/ current \in Chats) => Comes(m)

\* A history is the beginning of its route's log.
Begins(ms, r) == /\ Len(ms) <= Len(log[r])
                 /\ \A k \in 1..Len(ms) : ms[k] = log[r][k]
Sound(a) == a.kind = "history" => Begins(a.messages, a.route)
HistoriesSound ==
  /\ child # None => Sound(child)
  /\ slot # None => Sound(slot)
  /\ \A i \in 1..Len(down) : ~IsNote(i) => Sound(down[i])

\* The history shown is the beginning of the open chat's log, and a message of
\* another chat in the reader thread's hands finds nothing appended to it.
HistoryShown ==
  /\ base <= Len(shown)
  /\ right /\ current = None => base = 0
  /\ right /\ current # None =>
       /\ base <= read
       /\ \A k \in 1..base : k <= Len(log[current]) /\ shown[k] = log[current][k]
  /\ reader # None /\ reader.route # current => Len(shown) = base

\* While the threads have never waited together, the only answer under way is
\* the one that is waited for.
NoneDown == \A i \in 1..Len(down) : IsNote(i)
OneDown(b, r) == \E i \in 1..Len(down) :
  /\ ~IsNote(i) /\ down[i].by = b /\ down[i].route = r
  /\ \A j \in 1..Len(down) : j # i => IsNote(j)
Awaited(b, r) ==
  \/ up = <<>> /\ child = None /\ NoneDown /\ slot # None /\ slot.by = b /\ slot.route = r
  \/ up = <<[by |-> b, route |-> r]>> /\ child = None /\ NoneDown /\ slot = None
  \/ up = <<>> /\ child # None /\ child.by = b /\ child.route = r /\ NoneDown /\ slot = None
  \/ up = <<>> /\ child = None /\ OneDown(b, r) /\ slot = None
OneAnswer ==
  ~overlap =>
    /\ main = None \/ worker = None
    /\ main = None /\ worker = None => up = <<>> /\ child = None /\ NoneDown
    /\ main # None => Awaited("main", main)
    /\ worker # None => Awaited("worker", worker)

IInv == /\ TypeInv /\ LogSound /\ WaySound /\ InOrder /\ OnTheWay /\ HistoriesSound
        /\ HistoryShown /\ OneAnswer /\ StrayIsFirst /\ LiveOrder /\ RightUnlessOverlap
-----------------------------------------------------------------------------
(* Types. *)

\* What the client asks and what it gets as an answer have their types.
LEMMA AnswerTypes ==
  ASSUME NEW r \in Routes
  PROVE  /\ Get(r) \in Request /\ Post(r) \in Request
         /\ \A ms \in Seq(Message) : History(r, ms) \in Response
         /\ Refused(r) \in Response /\ Posted(r) \in Response
         /\ \A m \in Message : Note(m) \in Notice
<1>1. Get(r) \in Request /\ Post(r) \in Request
  BY DEF Get, Post, Request
<1>2. \A ms \in Seq(Message) : History(r, ms) \in Response
  BY DEF History, Response
<1>3. Refused(r) \in Response /\ Posted(r) \in Response
  BY DEF Refused, Posted, Response
<1>4. \A m \in Message : Note(m) \in Notice
  BY DEF Note, Notice
<1> QED BY <1>1, <1>2, <1>3, <1>4

\* A response and a notice are told apart by their kind.
LEMMA Kinds ==
  /\ \A a \in Response : a.kind # "note" /\ a # None
  /\ \A a \in Response : a.by = "main" \/ a.by = "worker"
  /\ \A a \in Response : a.kind \in {"history", "refused", "posted"} /\ a.route \in Routes
  /\ \A a \in Response : a.kind = "history" => a.messages \in Seq(Message) /\ a.by = "main"
  /\ \A a \in Response : a.kind = "posted" => a.by = "worker"
  /\ \A a \in Notice : a.kind = "note" /\ a.message \in Message
  /\ None \notin Message /\ None \notin Routes
<1>1. /\ \A a \in Response : a.kind # "note"
      /\ \A a \in Response : a.by = "main" \/ a.by = "worker"
      /\ \A a \in Response : a.kind \in {"history", "refused", "posted"} /\ a.route \in Routes
      /\ \A a \in Response : a.kind = "history" => a.messages \in Seq(Message) /\ a.by = "main"
      /\ \A a \in Response : a.kind = "posted" => a.by = "worker"
  BY DEF Response
<1>2. \A a \in Notice : a.kind = "note" /\ a.message \in Message
  BY DEF Notice
<1> QED BY <1>1, <1>2, ViewAssumption

\* A message is stored.
LEMMA StoreTypes ==
  ASSUME TypeInv, NEW p \in Posters, NEW r \in Routes, Store(p, r)
  PROVE  /\ log' \in [Routes -> Seq(Message)] /\ posts' \in Nat
         /\ pipes' \in [Posters -> Seq(Message)]
<1>1. posts \in Nat /\ log \in [Routes -> Seq(Message)] /\ pipes \in [Posters -> Seq(Message)]
  BY DEF TypeInv
<1>2. PICK m : m = [route |-> r, by |-> p, n |-> posts + 1]
  OBVIOUS
<1>3. m \in Message
  BY <1>1, <1>2 DEF Message
<1>4. /\ log' = [log EXCEPT ![r] = Append(@, m)] /\ posts' = posts + 1
      /\ pipes' = [pipes EXCEPT ![p] = Append(@, m)]
  BY <1>2 DEF Store
<1>5. Append(log[r], m) \in Seq(Message) /\ Append(pipes[p], m) \in Seq(Message)
  BY <1>1, <1>3, AppendProperties
<1> QED BY <1>1, <1>4, <1>5

\* Every step keeps the types.
LEMMA NextTypes ==
  ASSUME TypeInv, [Next]_vars
  PROVE  TypeInv'
<1> USE DEF TypeInv
<1>1. ASSUME NEW p \in Others, NEW r \in Routes, OtherPosts(p, r) PROVE TypeInv'
  BY <1>1, StoreTypes DEF OtherPosts, view, bounds, Posters
<1>2. CASE Serve
  <2>1. up # <<>> /\ up' = Tail(up) /\ UNCHANGED <<down, slot, main, worker, reader, view, bounds>>
    BY <1>2 DEF Serve
  <2>2. Head(up) \in Request /\ up' \in Seq(Request)
    BY <2>1, HeadTailProperties
  <2>3. PICK q \in Request : q = Head(up)
    BY <2>2
  <2>4. q.route \in Routes
    BY DEF Request
  <2>5. CASE q.by = "worker"
    <3>1. Store(Me, q.route) /\ child' = Posted(q.route)
      BY <1>2, <2>3, <2>5 DEF Serve
    <3>2. child' \in Response
      BY <3>1, <2>4, AnswerTypes
    <3> QED BY <3>1, <3>2, <2>1, <2>2, <2>4, StoreTypes DEF view, bounds, Posters
  <2>6. CASE q.by # "worker"
    <3>1. /\ child' \in {History(q.route, log[q.route]), Refused(q.route)}
          /\ UNCHANGED <<log, posts, pipes>>
      BY <1>2, <2>3, <2>6 DEF Serve
    <3>2. child' \in Response
      BY <3>1, <2>4, AnswerTypes
    <3> QED BY <3>1, <3>2, <2>1, <2>2 DEF view, bounds
  <2> QED BY <2>5, <2>6
<1>3. CASE Answer
  <2>1. child \in Response /\ child' = None /\ down' = Append(down, child)
    BY <1>3 DEF Answer
  <2>2. down' \in Seq(Response \cup Notice)
    BY <2>1, AppendProperties
  <2> QED BY <1>3, <2>1, <2>2 DEF Answer, view, bounds
<1>4. ASSUME NEW p \in Posters, Forward(p) PROVE TypeInv'
  <2>1. pipes[p] \in Seq(Message) /\ pipes[p] # <<>>
    BY <1>4 DEF Forward
  <2>2. Head(pipes[p]) \in Message /\ Tail(pipes[p]) \in Seq(Message)
    BY <2>1, HeadTailProperties
  <2>3. pipes' = [pipes EXCEPT ![p] = Tail(@)] /\ down' = Append(down, Note(Head(pipes[p])))
    BY <1>4 DEF Forward, Taken
  <2>4. pipes' \in [Posters -> Seq(Message)]
    BY <2>2, <2>3
  <2>5. Note(Head(pipes[p])) \in Response \cup Notice
    BY <2>2 DEF Note, Notice
  <2>6. down' \in Seq(Response \cup Notice)
    BY <2>3, <2>5, AppendProperties
  <2> QED BY <1>4, <2>4, <2>6 DEF Forward, view, bounds
<1>5. ASSUME NEW r \in Routes, Open(r) PROVE TypeInv'
  <2>1. up' \in Seq(Request)
    BY <1>5, AnswerTypes, AppendProperties DEF Open, Ask
  <2> QED BY <1>5, <2>1 DEF Open, Ask, server, view
<1>6. CASE Send
  <2>1. current \in Routes
    BY <1>6 DEF Send
  <2>2. up' \in Seq(Request)
    BY <1>6, <2>1, AnswerTypes, AppendProperties DEF Send, Ask
  <2> QED BY <1>6, <2>1, <2>2 DEF Send, Ask, server, view, bounds
<1>7. CASE Opened
  <2>1. slot \in Response /\ main \in Routes
    BY <1>7 DEF Opened
  <2>2. UNCHANGED <<server, up, down, slot, worker, reader, bounds>> /\ main' = None
    BY <1>7 DEF Opened
  <2>3. CASE slot.kind = "refused"
    BY <1>7, <2>2, <2>3 DEF Opened, server, bounds, view
  <2>4. CASE slot.kind = "posted"
    <3>1. current' = main /\ shown' = <<>> /\ base' = Len(<<>>) /\ set' = posts
      BY <1>7, <2>4 DEF Opened, SetChat
    <3>2. right' = FALSE /\ UNCHANGED read
      BY <1>7, <2>4 DEF Opened
    <3>3. shown' \in Seq(Message) /\ base' \in Nat
      BY <3>1, EmptySeq
    <3> QED BY <2>1, <2>2, <3>1, <3>2, <3>3 DEF server, bounds
  <2>5. CASE slot.kind = "history"
    <3>1. slot.messages \in Seq(Message)
      BY <2>1, <2>5, Kinds
    <3>2. /\ current' = main /\ shown' = Kept(slot.messages) /\ base' = Len(Kept(slot.messages))
          /\ set' = posts /\ right' = (slot.route = main) /\ read' = Len(slot.messages)
      BY <1>7, <2>5 DEF Opened, SetChat
    <3>3. Kept(slot.messages) \in Seq(Message)
      BY <3>1, ViewAssumption, SubSeqProperties DEF Kept
    <3> QED BY <2>1, <2>2, <3>1, <3>2, <3>3, LenProperties DEF server, bounds
  <2> QED BY <2>1, <2>3, <2>4, <2>5, Kinds
<1>8. CASE Sent
  BY <1>8 DEF Sent, server, view, bounds
<1>9. CASE Clear
  <2>1. shown' \in Seq(Message)
    BY <1>9, EmptySeq DEF Clear
  <2> QED BY <1>9, <2>1 DEF Clear, server
<1>10. CASE Handle
  <2>1. down # <<>> /\ down' = Tail(down) /\ UNCHANGED <<server, up, main, worker, view, bounds>>
    BY <1>10 DEF Handle
  <2>2. Head(down) \in Response \cup Notice /\ down' \in Seq(Response \cup Notice)
    BY <2>1, HeadTailProperties
  <2>3. CASE Head(down).kind = "note"
    <3>1. Head(down).message \in Message
      BY <2>2, <2>3, Kinds
    <3>2. reader' \in {Head(down).message, None} /\ UNCHANGED slot
      BY <1>10, <2>3 DEF Handle
    <3> QED BY <2>1, <2>2, <3>1, <3>2 DEF server, view, bounds
  <2>4. CASE Head(down).kind # "note"
    <3>1. Head(down) \in Response
      BY <2>2, <2>4, Kinds
    <3>2. slot' = Head(down) /\ UNCHANGED reader
      BY <1>10, <2>4 DEF Handle
    <3> QED BY <2>1, <2>2, <3>1, <3>2 DEF server, view, bounds
  <2> QED BY <2>3, <2>4
<1>11. CASE AppendMessage
  <2>1. reader \in Message /\ (shown' = shown \/ shown' = Append(shown, reader))
    BY <1>11 DEF AppendMessage
  <2>2. Append(shown, reader) \in Seq(Message)
    BY <2>1, AppendProperties
  <2> QED BY <1>11, <2>2 DEF AppendMessage, server, bounds
<1>12. CASE UNCHANGED vars
  BY <1>12 DEF vars, server, view, bounds
<1> QED
  BY <1>1, <1>2, <1>3, <1>4, <1>5, <1>6, <1>7, <1>8, <1>9, <1>10, <1>11,
     <1>12 DEF Next, Child, Read
-----------------------------------------------------------------------------
(* The log, and what is on its way. *)

\* a user posts a message to one of his routes
Posts(p, r) == Store(p, r) /\ (p = Me \/ r \in Chats \cup {p})

\* Only posting changes the log, and it leaves alone what the client does.
LEMMA OnlyPosts ==
  ASSUME TypeInv, [Next]_vars
  PROVE  \/ UNCHANGED <<log, posts>>
         \/ /\ \E p \in Posters, r \in Routes : Posts(p, r)
            /\ UNCHANGED <<down, slot, main, worker, reader, view>>
<1>1. ASSUME NEW p \in Others, NEW r \in Routes, OtherPosts(p, r)
      PROVE  /\ Posts(p, r) /\ p \in Posters
             /\ UNCHANGED <<down, slot, main, worker, reader, view>>
  BY <1>1 DEF OtherPosts, Posts, Posters
<1>2. CASE Serve
  <2>1. Head(up) \in Request
    BY <1>2, HeadTailProperties DEF Serve, TypeInv
  <2>2. PICK q \in Request : q = Head(up)
    BY <2>1
  <2>3. CASE q.by = "worker"
    <3>1. Posts(Me, q.route) /\ q.route \in Routes /\ Me \in Posters
      BY <1>2, <2>2, <2>3 DEF Serve, Request, Posts, Posters
    <3> QED BY <1>2, <3>1 DEF Serve
  <2>4. CASE q.by # "worker"
    BY <1>2, <2>2, <2>4 DEF Serve
  <2> QED BY <2>3, <2>4
<1>3. CASE UNCHANGED <<log, posts>>
  BY <1>3
<1> QED
  BY <1>1, <1>2, <1>3 DEF Next, Child, Read, Answer, Forward, Open, Send, Opened,
     Sent, Clear,
     Handle, AppendMessage, server, vars

\* What posting does to the logs and the pipes.
LEMMA PostEffect ==
  ASSUME TypeInv, NEW p \in Posters, NEW r \in Routes, Posts(p, r)
  PROVE  \E m \in Message :
           /\ m.route = r /\ m.by = p /\ m.n = posts + 1 /\ Fits(m) /\ posts' = posts + 1
           /\ \A s \in Routes : s # r => log'[s] = log[s]
           /\ Len(log'[r]) = Len(log[r]) + 1 /\ log'[r][Len(log[r]) + 1] = m
           /\ \A k \in 1..Len(log[r]) : log'[r][k] = log[r][k]
           /\ \A q \in Posters : q # p => pipes'[q] = pipes[q]
           /\ Len(pipes'[p]) = Len(pipes[p]) + 1 /\ pipes'[p][Len(pipes[p]) + 1] = m
           /\ \A j \in 1..Len(pipes[p]) : pipes'[p][j] = pipes[p][j]
<1>1. posts \in Nat /\ log \in [Routes -> Seq(Message)] /\ pipes \in [Posters -> Seq(Message)]
  BY DEF TypeInv
<1>2. PICK m : m = [route |-> r, by |-> p, n |-> posts + 1]
  OBVIOUS
<1>3. m \in Message /\ m.route = r /\ m.by = p /\ m.n = posts + 1
  BY <1>1, <1>2 DEF Message
<1>4. /\ log' = [log EXCEPT ![r] = Append(@, m)] /\ posts' = posts + 1
      /\ pipes' = [pipes EXCEPT ![p] = Append(@, m)]
  BY <1>2 DEF Posts, Store
<1>5. log[r] \in Seq(Message) /\ pipes[p] \in Seq(Message)
  BY <1>1
<1>6. /\ Len(Append(log[r], m)) = Len(log[r]) + 1
      /\ Append(log[r], m)[Len(log[r]) + 1] = m
      /\ \A k \in 1..Len(log[r]) : Append(log[r], m)[k] = log[r][k]
  BY <1>3, <1>5, AppendProperties, LenProperties
<1>7. /\ Len(Append(pipes[p], m)) = Len(pipes[p]) + 1
      /\ Append(pipes[p], m)[Len(pipes[p]) + 1] = m
      /\ \A k \in 1..Len(pipes[p]) : Append(pipes[p], m)[k] = pipes[p][k]
  BY <1>3, <1>5, AppendProperties, LenProperties
<1>8. log'[r] = Append(log[r], m) /\ \A s \in Routes : s # r => log'[s] = log[s]
  BY <1>1, <1>4
<1>9. pipes'[p] = Append(pipes[p], m) /\ \A q \in Posters : q # p => pipes'[q] = pipes[q]
  BY <1>1, <1>4
<1>10. Fits(m)
  BY <1>3 DEF Fits, Posts
<1> QED BY <1>3, <1>4, <1>6, <1>7, <1>8, <1>9, <1>10

\* Lengths and elements of the sequences.
LEMMA Lengths ==
  ASSUME TypeInv
  PROVE  /\ \A r \in Routes : /\ log[r] \in Seq(Message) /\ Len(log[r]) \in Nat
                              /\ \A k \in 1..Len(log[r]) : log[r][k] \in Message
         /\ \A p \in Posters : /\ pipes[p] \in Seq(Message) /\ Len(pipes[p]) \in Nat
                               /\ \A k \in 1..Len(pipes[p]) : pipes[p][k] \in Message
         /\ Len(down) \in Nat /\ \A i \in 1..Len(down) : down[i] \in Response \cup Notice
         /\ \A i \in 1..Len(down) : IsNote(i) => down[i] \in Notice /\ down[i].message \in Message
         /\ \A i \in 1..Len(down) : ~IsNote(i) => down[i] \in Response
         /\ Len(shown) \in Nat /\ \A i \in 1..Len(shown) : shown[i] \in Message
<1>1. ASSUME NEW r \in Routes
      PROVE  /\ log[r] \in Seq(Message) /\ Len(log[r]) \in Nat
             /\ \A k \in 1..Len(log[r]) : log[r][k] \in Message
  <2>1. log[r] \in Seq(Message)
    BY DEF TypeInv
  <2> QED BY <2>1, LenProperties, ElementOfSeq
<1>2. ASSUME NEW p \in Posters
      PROVE  /\ pipes[p] \in Seq(Message) /\ Len(pipes[p]) \in Nat
             /\ \A k \in 1..Len(pipes[p]) : pipes[p][k] \in Message
  <2>1. pipes[p] \in Seq(Message)
    BY DEF TypeInv
  <2> QED BY <2>1, LenProperties, ElementOfSeq
<1>3. Len(down) \in Nat /\ \A i \in 1..Len(down) : down[i] \in Response \cup Notice
  BY LenProperties, ElementOfSeq DEF TypeInv
<1>4. Len(shown) \in Nat /\ \A i \in 1..Len(shown) : shown[i] \in Message
  BY LenProperties, ElementOfSeq DEF TypeInv
<1>5. \A i \in 1..Len(down) : IsNote(i) => down[i] \in Notice /\ down[i].message \in Message
  BY <1>3, Kinds DEF IsNote
<1>6. \A i \in 1..Len(down) : ~IsNote(i) => down[i] \in Response
  BY <1>3, Kinds DEF IsNote
<1> QED BY <1>1, <1>2, <1>3, <1>4, <1>5, <1>6

\* A new number is given to each message.
LEMMA NextLogSound ==
  ASSUME TypeInv, LogSound, [Next]_vars
  PROVE  LogSound'
<1>1. CASE UNCHANGED <<log, posts>>
  BY <1>1 DEF LogSound, Fits
<1>2. ASSUME NEW p \in Posters, NEW r \in Routes, Posts(p, r) PROVE LogSound'
  <2>1. PICK m \in Message :
          /\ m.route = r /\ m.n = posts + 1 /\ Fits(m) /\ posts' = posts + 1
          /\ \A s \in Routes : s # r => log'[s] = log[s]
          /\ Len(log'[r]) = Len(log[r]) + 1 /\ log'[r][Len(log[r]) + 1] = m
          /\ \A k \in 1..Len(log[r]) : log'[r][k] = log[r][k]
    BY <1>2, PostEffect
  <2>2. posts \in Nat /\ Len(log[r]) \in Nat
    BY Lengths DEF TypeInv
  <2>3. ASSUME NEW s \in Routes, NEW k \in 1..Len(log'[s])
        PROVE  log'[s][k].route = s /\ log'[s][k].n \in 1..posts' /\ Fits(log'[s][k])
    <3>1. CASE s # r
      <4>1. log'[s][k] = log[s][k] /\ k \in 1..Len(log[s])
        BY <2>1, <3>1
      <4> QED BY <4>1, <2>1, <2>2 DEF LogSound
    <3>2. CASE s = r /\ k \in 1..Len(log[r])
      <4>1. log'[s][k] = log[s][k] /\ k \in 1..Len(log[s])
        BY <2>1, <3>2
      <4> QED BY <4>1, <2>1, <2>2 DEF LogSound
    <3>3. CASE s = r /\ k = Len(log[r]) + 1
      BY <2>1, <2>2, <3>3
    <3> QED BY <2>1, <2>2, <3>1, <3>2, <3>3
  <2>4. ASSUME NEW s \in Routes, NEW k \in 1..Len(log'[s]), NEW l \in 1..Len(log'[s]),
               log'[s][k].n = log'[s][l].n
        PROVE  k = l
    <3>1. CASE s # r
      BY <2>1, <2>4, <3>1 DEF LogSound
    <3>2. CASE s = r
      <4>1. \A j \in 1..Len(log[r]) : log'[s][j] = log[s][j] /\ log[s][j].n <= posts
        BY <2>1, <2>2, <3>2 DEF LogSound
      <4>2. log'[s][Len(log[r]) + 1].n = posts + 1
        BY <2>1, <3>2
      <4>3. k \in 1..Len(log[r]) \/ k = Len(log[r]) + 1
        BY <2>1, <2>2, <3>2
      <4>4. l \in 1..Len(log[r]) \/ l = Len(log[r]) + 1
        BY <2>1, <2>2, <3>2
      <4>5. CASE k \in 1..Len(log[r]) /\ l \in 1..Len(log[r])
        BY <4>1, <4>5, <2>4, <3>2 DEF LogSound
      <4>6. CASE k = Len(log[r]) + 1 /\ l \in 1..Len(log[r])
        BY <4>1, <4>2, <4>6, <2>4, <2>2, <3>2 DEF LogSound
      <4>7. CASE l = Len(log[r]) + 1 /\ k \in 1..Len(log[r])
        BY <4>1, <4>2, <4>7, <2>4, <2>2, <3>2 DEF LogSound
      <4> QED BY <4>3, <4>4, <4>5, <4>6, <4>7
    <3> QED BY <3>1, <3>2
  <2> QED BY <2>3, <2>4 DEF LogSound, Fits
<1> QED BY <1>1, <1>2, OnlyPosts
\* What the server's writing and the reader thread's reading do to what is
\* under way.
LEMMA DownEffect ==
  ASSUME TypeInv
  PROVE  /\ \A x \in Response \cup Notice : down' = Append(down, x) =>
              /\ Len(down') = Len(down) + 1 /\ down'[Len(down) + 1] = x
              /\ \A i \in 1..Len(down) : down'[i] = down[i]
         /\ down # <<>> /\ down' = Tail(down) =>
              /\ Len(down) > 0 /\ Len(down') = Len(down) - 1 /\ Head(down) = down[1]
              /\ \A i \in 1..Len(down') : down'[i] = down[i + 1]
<1>1. down \in Seq(Response \cup Notice)
  BY DEF TypeInv
<1>2. ASSUME NEW x \in Response \cup Notice, down' = Append(down, x)
      PROVE  /\ Len(down') = Len(down) + 1 /\ down'[Len(down) + 1] = x
             /\ \A i \in 1..Len(down) : down'[i] = down[i]
  BY <1>1, <1>2, AppendProperties
<1>3. ASSUME down # <<>>, down' = Tail(down)
      PROVE  /\ Len(down) > 0 /\ Len(down') = Len(down) - 1 /\ Head(down) = down[1]
             /\ \A i \in 1..Len(down') : down'[i] = down[i + 1]
  BY <1>1, <1>3, HeadTailProperties, EmptySeq
<1> QED BY <1>2, <1>3

\* The child's answer goes to the client.
LEMMA AnswerEffect ==
  ASSUME TypeInv, Answer
  PROVE  /\ Len(down') = Len(down) + 1 /\ child \in Response /\ down'[Len(down) + 1] = child
         /\ \A i \in 1..Len(down) : down'[i] = down[i] /\ (IsNote(i)' <=> IsNote(i))
         /\ \A i \in 1..Len(down') : i > Len(down) => ~IsNote(i)'
         /\ child' = None
         /\ UNCHANGED <<log, posts, pipes, up, slot, main, worker, reader, view, bounds>>
<1>1. child \in Response /\ down' = Append(down, child)
  BY DEF Answer, TypeInv
<1>2. /\ Len(down') = Len(down) + 1 /\ down'[Len(down) + 1] = child
      /\ \A i \in 1..Len(down) : down'[i] = down[i]
  BY <1>1, DownEffect
<1>3. \A i \in 1..Len(down) : IsNote(i)' <=> IsNote(i)
  BY <1>2 DEF IsNote
<1>4. \A i \in 1..Len(down') : i > Len(down) => ~IsNote(i)'
  BY <1>1, <1>2, Kinds, Lengths DEF IsNote
<1> QED BY <1>1, <1>2, <1>3, <1>4 DEF Answer

\* The parent forwards the first notification of a pipe.
LEMMA ForwardEffect ==
  ASSUME TypeInv, NEW p \in Posters, Forward(p)
  PROVE  /\ Len(down') = Len(down) + 1
         /\ \A i \in 1..Len(down') : i > Len(down) => IsNote(i)'
         /\ Len(pipes[p]) > 0 /\ down'[Len(down) + 1].message = pipes[p][1]
         /\ \A i \in 1..Len(down) : down'[i] = down[i] /\ (IsNote(i)' <=> IsNote(i))
         /\ Len(pipes'[p]) = Len(pipes[p]) - 1
         /\ \A j \in 1..Len(pipes'[p]) : pipes'[p][j] = pipes[p][j + 1]
         /\ \A q \in Posters : q # p => pipes'[q] = pipes[q]
         /\ UNCHANGED <<log, posts, up, child, slot, main, worker, reader, view, bounds>>
<1>1. pipes[p] \in Seq(Message) /\ pipes[p] # <<>>
  BY DEF Forward, TypeInv
<1>2. /\ Head(pipes[p]) \in Message /\ Head(pipes[p]) = pipes[p][1] /\ Len(pipes[p]) > 0
      /\ Len(Tail(pipes[p])) = Len(pipes[p]) - 1
      /\ \A j \in 1..Len(Tail(pipes[p])) : Tail(pipes[p])[j] = pipes[p][j + 1]
  BY <1>1, HeadTailProperties, EmptySeq
<1>3. pipes' = [pipes EXCEPT ![p] = Tail(@)] /\ down' = Append(down, Note(Head(pipes[p])))
  BY DEF Forward, Taken
<1>4. pipes'[p] = Tail(pipes[p]) /\ \A q \in Posters : q # p => pipes'[q] = pipes[q]
  BY <1>3 DEF TypeInv
<1>5. PICK m \in Message : m = Head(pipes[p])
  BY <1>2
<1>6. Note(m) \in Response \cup Notice /\ Note(m).kind = "note" /\ Note(m).message = m
  BY DEF Note, Notice
<1>7. /\ Len(down') = Len(down) + 1 /\ down'[Len(down) + 1] = Note(m)
      /\ \A i \in 1..Len(down) : down'[i] = down[i]
  BY <1>3, <1>5, <1>6, DownEffect
<1>8. \A i \in 1..Len(down) : IsNote(i)' <=> IsNote(i)
  BY <1>7 DEF IsNote
<1>9. \A i \in 1..Len(down') : i > Len(down) => IsNote(i)'
  BY <1>6, <1>7, Lengths DEF IsNote
<1>10. /\ down'[Len(down) + 1].message = pipes[p][1]
       /\ \A i \in 1..Len(down) : down'[i] = down[i]
  BY <1>2, <1>5, <1>6, <1>7
<1>11. /\ Len(pipes'[p]) = Len(pipes[p]) - 1
       /\ \A j \in 1..Len(pipes'[p]) : pipes'[p][j] = pipes[p][j + 1]
  BY <1>2, <1>4
<1> QED BY <1>2, <1>4, <1>7, <1>8, <1>9, <1>10, <1>11 DEF Forward

\* The reader thread takes what the server wrote first: a notification of the
\* open chat it is going to append, another one only goes to the status line.
LEMMA HandleEffect ==
  ASSUME TypeInv, WaySound, Handle
  PROVE  /\ Len(down) > 0 /\ Len(down') = Len(down) - 1 /\ reader = None
         /\ \A i \in 1..Len(down') : down'[i] = down[i + 1] /\ (IsNote(i)' <=> IsNote(i + 1))
         /\ IsNote(1) =>
              /\ reader' = None \/ reader' = down[1].message
              /\ reader' # None => reader'.route = current
              /\ down[1].message.route = current
                 /\ (down[1].message.by # Me \/ current \in Chats) => reader' = down[1].message
              /\ slot' = slot
         /\ ~IsNote(1) => reader' = None /\ slot' = down[1]
         /\ UNCHANGED <<server, up, main, worker, view, bounds>>
<1>1. /\ Len(down) > 0 /\ Len(down') = Len(down) - 1 /\ Head(down) = down[1]
      /\ \A i \in 1..Len(down') : down'[i] = down[i + 1]
  BY DownEffect DEF Handle
<1>2. \A i \in 1..Len(down') : IsNote(i)' <=> IsNote(i + 1)
  BY <1>1 DEF IsNote
<1>3. CASE IsNote(1)
  <2>1. 1 \in 1..Len(down) /\ Len(down) \in Nat
    BY <1>1, Lengths
  <2>2. PICK m \in Message : m = down[1].message
    BY <1>3, <2>1, Lengths
  <2>3. Fits(m)
    BY <1>3, <2>1, <2>2 DEF WaySound
  <2>4. reader' = (IF LiveRoute(m) = current THEN m ELSE None) /\ slot' = slot
    BY <1>1, <1>3, <2>2 DEF Handle, IsNote
  <2>5. m.route \in Routes /\ m.by \in Posters /\ current \in Routes \cup {None}
    BY DEF Message, TypeInv
  <2>6. LiveRoute(m) = current => m.route = current
    BY <2>3, <2>5, ViewAssumption DEF LiveRoute, Fits, Routes, Posters
  <2>7. m.route = current /\ (m.by # Me \/ current \in Chats) => LiveRoute(m) = current
    BY <2>3, <2>5, ViewAssumption DEF LiveRoute, Fits, Routes, Posters
  <2> QED BY <1>1, <1>2, <1>3, <2>2, <2>4, <2>6, <2>7 DEF Handle
<1>4. CASE ~IsNote(1)
  BY <1>1, <1>2, <1>4 DEF Handle, IsNote
<1> QED BY <1>3, <1>4

\* The reader thread appends to what is shown, if there is room.
LEMMA AppendEffect ==
  ASSUME TypeInv, AppendMessage
  PROVE  /\ reader \in Message /\ reader' = None
         /\ \A i \in 1..Len(shown) : shown'[i] = shown[i]
         /\ Len(shown) < MaxMessages =>
              Len(shown') = Len(shown) + 1 /\ shown'[Len(shown) + 1] = reader
         /\ ~(Len(shown) < MaxMessages) => shown' = shown
         /\ UNCHANGED <<server, up, down, slot, main, worker, current, read, set, base, right,
                        bounds>>
<1>1. reader \in Message /\ shown \in Seq(Message)
  BY DEF AppendMessage, TypeInv
<1>2. /\ Len(Append(shown, reader)) = Len(shown) + 1
      /\ Append(shown, reader)[Len(shown) + 1] = reader
      /\ \A i \in 1..Len(shown) : Append(shown, reader)[i] = shown[i]
  BY <1>1, AppendProperties
<1>3. CASE Len(shown) < MaxMessages
  <2>1. shown' = Append(shown, reader)
    BY <1>3 DEF AppendMessage, Room
  <2> QED BY <1>1, <1>2, <1>3, <2>1 DEF AppendMessage
<1>4. CASE ~(Len(shown) < MaxMessages)
  BY <1>1, <1>4 DEF AppendMessage, Room
<1> QED BY <1>3, <1>4

\* The main thread shows what it was answered.
LEMMA OpenedEffect ==
  ASSUME TypeInv, Opened
  PROVE  /\ slot \in Response /\ main \in Routes /\ main' = None
         /\ UNCHANGED <<server, up, down, slot, worker, reader, bounds>>
         /\ \/ slot.kind = "refused" /\ UNCHANGED view
            \/ /\ slot.kind = "posted" /\ right' = FALSE /\ UNCHANGED read
               /\ current' = main /\ shown' = <<>> /\ base' = 0 /\ set' = posts
            \/ /\ slot.kind = "history" /\ right' = (slot.route = main)
               /\ slot.messages \in Seq(Message) /\ Len(slot.messages) \in Nat
               /\ read' = Len(slot.messages) /\ current' = main /\ set' = posts
               /\ base' = Len(shown') /\ Len(shown') <= Len(slot.messages)
               /\ Len(shown') <= MaxMessages
               /\ \A k \in 1..Len(shown') : shown'[k] = slot.messages[k]
<1>1. slot \in Response /\ main \in Routes /\ main' = None
  BY DEF Opened, TypeInv
<1>2. UNCHANGED <<server, up, down, slot, worker, reader, bounds>>
  BY DEF Opened
<1>3. CASE slot.kind = "refused"
  BY <1>1, <1>2, <1>3 DEF Opened
<1>4. CASE slot.kind = "posted"
  <2>1. current' = main /\ shown' = <<>> /\ base' = Len(<<>>) /\ set' = posts
    BY <1>4 DEF Opened, SetChat
  <2>2. right' = FALSE /\ UNCHANGED read
    BY <1>4 DEF Opened
  <2> QED BY <1>1, <1>2, <1>4, <2>1, <2>2
<1>5. CASE slot.kind = "history"
  <2>1. PICK ms \in Seq(Message) : ms = slot.messages
    BY <1>1, <1>5, Kinds
  <2>2. /\ current' = main /\ shown' = Kept(ms) /\ base' = Len(Kept(ms))
        /\ set' = posts /\ right' = (slot.route = main) /\ read' = Len(ms)
    BY <1>5, <2>1 DEF Opened, SetChat
  <2>3. Len(ms) \in Nat /\ MaxMessages \in Nat
    BY ViewAssumption, LenProperties
  <2>4. PICK c \in Nat : c = (IF Len(ms) < MaxMessages THEN Len(ms) ELSE MaxMessages)
    BY <2>3
  <2>5. c <= Len(ms) /\ c <= MaxMessages
    BY <2>3, <2>4
  <2>6. \A i \in 1..c : ms[i] \in Message
    BY <2>3, <2>5, ElementOfSeq
  <2>7. shown' = SubSeq(ms, 1, c)
    BY <2>2, <2>4 DEF Kept
  <2>8. Len(shown') = c /\ \A k \in 1..c : shown'[k] = ms[k]
    <3>1. /\ Len(SubSeq(ms, 1, c)) = IF 1 <= c THEN c - 1 + 1 ELSE 0
          /\ \A k \in 1..(c - 1 + 1) : SubSeq(ms, 1, c)[k] = ms[1 + k - 1]
      BY <2>6, SubSeqProperties
    <3> QED BY <2>7, <3>1
  <2> QED BY <1>1, <1>2, <1>5, <2>1, <2>2, <2>3, <2>5, <2>8
<1> QED BY <1>1, <1>3, <1>4, <1>5, Kinds
\* The kinds of steps, as far as messages and what is shown are concerned.
LEMMA StepKinds ==
  ASSUME TypeInv, [Next]_vars
  PROVE  \/ /\ \E p \in Posters, r \in Routes : Posts(p, r)
            /\ UNCHANGED <<down, slot, main, worker, reader, view>>
         \/ Answer \/ (\E p \in Posters : Forward(p)) \/ Opened \/ Clear \/ Handle \/ AppendMessage
         \/ UNCHANGED <<log, posts, pipes, down, reader, view>>
<1>1. CASE ~UNCHANGED <<log, posts>>
  BY <1>1, OnlyPosts
<1>2. CASE UNCHANGED <<log, posts>> /\ Serve
  <2>1. Head(up) \in Request /\ posts \in Nat
    BY <1>2, HeadTailProperties DEF Serve, TypeInv
  <2>2. PICK q \in Request : q = Head(up)
    BY <2>1
  <2>3. UNCHANGED <<log, posts, pipes, down, reader, view>>
    BY <1>2, <2>1, <2>2 DEF Serve, Store
  <2> QED BY <2>3
<1>3. ASSUME UNCHANGED <<log, posts>>, NEW p \in Others, NEW r \in Routes, OtherPosts(p, r)
      PROVE  FALSE
  BY <1>3 DEF OtherPosts, Store, TypeInv
<1> QED
  BY <1>1, <1>2, <1>3 DEF Next, Child, Read, Open, Send, Sent, server, vars

\* What is on its way keeps being sound.
LEMMA NextWaySound ==
  ASSUME TypeInv, LogSound, WaySound, HistoriesSound, [Next]_vars
  PROVE  WaySound'
<1> USE Lengths
<1>1. ASSUME NEW p \in Posters, NEW r \in Routes, Posts(p, r),
             UNCHANGED <<down, reader, shown>>
      PROVE  WaySound'
  <2>1. PICK m \in Message :
          /\ m.by = p /\ m.n = posts + 1 /\ Fits(m) /\ posts' = posts + 1
          /\ \A q \in Posters : q # p => pipes'[q] = pipes[q]
          /\ Len(pipes'[p]) = Len(pipes[p]) + 1 /\ pipes'[p][Len(pipes[p]) + 1] = m
          /\ \A j \in 1..Len(pipes[p]) : pipes'[p][j] = pipes[p][j]
    BY <1>1, PostEffect
  <2>2. posts \in Nat
    BY DEF TypeInv
  <2>3. ASSUME NEW q \in Posters, NEW j \in 1..Len(pipes'[q])
        PROVE  pipes'[q][j].by = q /\ pipes'[q][j].n \in 1..posts' /\ Fits(pipes'[q][j])
    <3>1. CASE q # p \/ j \in 1..Len(pipes[p])
      <4>1. pipes'[q][j] = pipes[q][j] /\ j \in 1..Len(pipes[q])
        BY <2>1, <3>1
      <4> QED BY <4>1, <2>1, <2>2 DEF WaySound
    <3>2. CASE q = p /\ j = Len(pipes[p]) + 1
      BY <2>1, <2>2, <3>2, SMTT(30)
    <3> QED BY <2>1, <3>1, <3>2
  <2>4. \A i \in 1..Len(down') :
          IsNote(i)' => down'[i].message.n \in 1..posts' /\ Fits(down'[i].message)
    BY <1>1, <2>1, <2>2 DEF WaySound, IsNote
  <2>5. /\ reader' # None => reader'.n \in 1..posts'
        /\ \A i \in 1..Len(shown') : shown'[i].n \in 1..posts'
    BY <1>1, <2>1, <2>2 DEF WaySound
  <2> QED BY <2>3, <2>4, <2>5 DEF WaySound, Fits
<1>2. CASE Answer
  <2>1. UNCHANGED <<posts, pipes, reader, shown>>
    BY <1>2 DEF Answer, view
  <2>2. \A i \in 1..Len(down') :
          IsNote(i)' => down'[i].message.n \in 1..posts /\ Fits(down'[i].message)
    BY <1>2, AnswerEffect DEF WaySound
  <2> QED BY <2>1, <2>2 DEF WaySound, Fits
<1>3. ASSUME NEW p \in Posters, Forward(p) PROVE WaySound'
  <2>1. UNCHANGED <<posts, reader, shown>>
    BY <1>3 DEF Forward, view
  <2>2. /\ Len(pipes[p]) > 0
        /\ Len(down') = Len(down) + 1 /\ down'[Len(down) + 1].message = pipes[p][1]
        /\ \A i \in 1..Len(down) : down'[i] = down[i] /\ (IsNote(i)' <=> IsNote(i))
        /\ Len(pipes'[p]) = Len(pipes[p]) - 1
        /\ \A j \in 1..Len(pipes'[p]) : pipes'[p][j] = pipes[p][j + 1]
        /\ \A q \in Posters : q # p => pipes'[q] = pipes[q]
    BY <1>3, ForwardEffect
  <2>3. pipes[p][1].n \in 1..posts /\ Fits(pipes[p][1])
    BY <2>2 DEF WaySound
  <2>4. ASSUME NEW i \in 1..Len(down'), IsNote(i)'
        PROVE  down'[i].message.n \in 1..posts /\ Fits(down'[i].message)
    <3>1. CASE i \in 1..Len(down)
      BY <2>2, <2>4, <3>1 DEF WaySound
    <3>2. CASE i = Len(down) + 1
      BY <2>2, <2>3, <3>2
    <3> QED BY <2>2, <3>1, <3>2
  <2>5. ASSUME NEW q \in Posters, NEW j \in 1..Len(pipes'[q])
        PROVE  pipes'[q][j].by = q /\ pipes'[q][j].n \in 1..posts /\ Fits(pipes'[q][j])
    <3>1. CASE q = p
      <4>1. pipes'[q][j] = pipes[q][j + 1] /\ j + 1 \in 1..Len(pipes[q])
        BY <2>2, <3>1, SMTT(30)
      <4> QED BY <4>1 DEF WaySound
    <3>2. CASE q # p
      BY <2>2, <3>2 DEF WaySound
    <3> QED BY <3>1, <3>2
  <2> QED BY <2>1, <2>4, <2>5 DEF WaySound, Fits
<1>4. CASE Opened
  <2>1. UNCHANGED <<posts, pipes, down, reader>>
    BY <1>4, OpenedEffect DEF server
  <2>2. \A i \in 1..Len(shown') : shown'[i].n \in 1..posts
    <3>1. CASE UNCHANGED view
      BY <3>1 DEF view, WaySound
    <3>2. CASE shown' = <<>>
      BY <3>2, EmptySeq
    <3>3. ASSUME slot.kind = "history", slot \in Response, slot.messages \in Seq(Message),
                 Len(slot.messages) \in Nat, Len(shown') <= Len(slot.messages),
                 \A k \in 1..Len(shown') : shown'[k] = slot.messages[k]
          PROVE  \A i \in 1..Len(shown') : shown'[i].n \in 1..posts
      <4>1. Begins(slot.messages, slot.route) /\ slot.route \in Routes
        BY <3>3, Kinds, ViewAssumption DEF HistoriesSound, Sound
      <4>2. \A k \in 1..Len(slot.messages) :
              k \in 1..Len(log[slot.route]) /\ slot.messages[k] = log[slot.route][k]
        BY <4>1, <3>3 DEF Begins
      <4>3. \A k \in 1..Len(slot.messages) : slot.messages[k].n \in 1..posts
        BY <4>1, <4>2 DEF LogSound
      <4>4. Len(shown') \in Nat
        BY <1>4, NextTypes, LenProperties DEF TypeInv
      <4> QED BY <3>3, <4>3, <4>4
    <3> QED BY <1>4, <3>1, <3>2, <3>3, OpenedEffect
  <2> QED BY <2>1, <2>2 DEF WaySound, IsNote, Fits
<1>5. CASE Clear
  <2>1. UNCHANGED <<posts, pipes, down, reader>> /\ shown' = <<>>
    BY <1>5 DEF Clear, server
  <2> QED BY <2>1, EmptySeq DEF WaySound, IsNote, Fits
<1>6. CASE Handle
  <2>1. UNCHANGED <<posts, pipes, shown>>
    BY <1>6, HandleEffect DEF server, view
  <2>2. /\ Len(down) > 0 /\ Len(down') = Len(down) - 1
        /\ \A i \in 1..Len(down') : down'[i] = down[i + 1] /\ (IsNote(i)' <=> IsNote(i + 1))
        /\ reader' = None \/ (IsNote(1) /\ reader' = down[1].message)
    BY <1>6, HandleEffect
  <2>3. \A i \in 1..Len(down') :
          IsNote(i)' => down'[i].message.n \in 1..posts /\ Fits(down'[i].message)
    BY <2>2 DEF WaySound
  <2>4. reader' # None => reader'.n \in 1..posts
    BY <2>2 DEF WaySound
  <2> QED BY <2>1, <2>3, <2>4 DEF WaySound, Fits
<1>7. CASE AppendMessage
  <2>1. UNCHANGED <<posts, pipes, down>> /\ reader' = None
    BY <1>7, AppendEffect DEF server
  <2>2. reader.n \in 1..posts
    BY <1>7, AppendEffect DEF WaySound, AppendMessage
  <2>3. \A i \in 1..Len(shown') : shown'[i].n \in 1..posts
    BY <1>7, <2>2, AppendEffect, SMTT(30) DEF WaySound
  <2> QED BY <2>1, <2>3 DEF WaySound, IsNote, Fits
<1>8. CASE UNCHANGED <<log, posts, pipes, down, reader, view>>
  BY <1>8 DEF WaySound, IsNote, Fits, view
<1> QED
  BY <1>1, <1>2, <1>3, <1>4, <1>5, <1>6, <1>7, <1>8, StepKinds DEF view
-----------------------------------------------------------------------------
(* Histories, and what is shown of them. *)

\* Logs only grow.
LEMMA LogsGrow ==
  ASSUME TypeInv, [Next]_vars
  PROVE  \A r \in Routes : /\ Len(log[r]) <= Len(log'[r])
                           /\ \A k \in 1..Len(log[r]) : log'[r][k] = log[r][k]
<1> USE Lengths
<1>1. CASE UNCHANGED <<log, posts>>
  BY <1>1
<1>2. ASSUME NEW p \in Posters, NEW s \in Routes, Posts(p, s), NEW r \in Routes
      PROVE  Len(log[r]) <= Len(log'[r]) /\ \A k \in 1..Len(log[r]) : log'[r][k] = log[r][k]
  <2>1. /\ \A q \in Routes : q # s => log'[q] = log[q]
        /\ Len(log'[s]) = Len(log[s]) + 1
        /\ \A k \in 1..Len(log[s]) : log'[s][k] = log[s][k]
    BY <1>2, PostEffect
  <2> QED BY <2>1
<1> QED BY <1>1, <1>2, OnlyPosts

\* The beginning of a log stays its beginning.
LEMMA BeginningsStay ==
  ASSUME TypeInv, [Next]_vars
  PROVE  /\ \A r \in Routes : \A ms \in Seq(Message) : Begins(ms, r) => Begins(ms, r)'
         /\ \A a \in Response : Sound(a) => Sound(a)'
<1>1. ASSUME NEW r \in Routes, NEW ms \in Seq(Message), Begins(ms, r) PROVE Begins(ms, r)'
  <2>1. Len(ms) \in Nat /\ Len(log[r]) \in Nat /\ Len(log'[r]) \in Nat
    BY Lengths, NextTypes, LenProperties DEF TypeInv
  <2>2. /\ Len(log[r]) <= Len(log'[r])
        /\ \A k \in 1..Len(log[r]) : log'[r][k] = log[r][k]
    BY LogsGrow
  <2> QED BY <1>1, <2>1, <2>2 DEF Begins
<1>2. ASSUME NEW a \in Response, Sound(a) PROVE Sound(a)'
  BY <1>1, <1>2, Kinds DEF Sound
<1> QED BY <1>1, <1>2

\* An answered history stays a beginning of its route's log.
LEMMA NextHistoriesSound ==
  ASSUME TypeInv, HistoriesSound, [Next]_vars
  PROVE  HistoriesSound'
<1> USE Lengths
<1>1. child' # None => Sound(child)'
  <2>1. CASE child' = child
    <3>1. child # None => child \in Response /\ Sound(child)
      BY DEF TypeInv, HistoriesSound
    <3> QED BY <2>1, <3>1, BeginningsStay DEF Sound, Begins
  <2>2. CASE Serve
    <3>1. Head(up) \in Request
      BY <2>2, HeadTailProperties DEF Serve, TypeInv
    <3>2. PICK q \in Request : q = Head(up)
      BY <3>1
    <3>3. q.route \in Routes
      BY DEF Request
    <3>4. CASE child' = Posted(q.route) \/ child' = Refused(q.route)
      BY <3>4 DEF Posted, Refused, Sound
    <3>5. CASE child' = History(q.route, log[q.route])
      <4>1. Begins(log[q.route], q.route)
        BY <3>3 DEF Begins
      <4>2. Sound(History(q.route, log[q.route])) /\ History(q.route, log[q.route]) \in Response
        BY <3>3, <4>1, AnswerTypes DEF History, Sound
      <4>3. PICK a \in Response : a = History(q.route, log[q.route])
        BY <4>2
      <4>4. Sound(a)'
        BY <4>2, <4>3, BeginningsStay
      <4> QED BY <3>5, <4>3, <4>4 DEF Sound, Begins
    <3> QED BY <2>2, <3>2, <3>4, <3>5 DEF Serve
  <2>3. CASE child' = None
    BY <2>3
  <2> QED
    BY <2>1, <2>2, <2>3 DEF Next, Child, Read, OtherPosts, Answer, Forward, Open,
       Send, Opened,
       Sent, Clear, Handle, AppendMessage, server, vars
<1>2. slot' # None => Sound(slot)'
  <2>1. CASE slot' = slot
    <3>1. slot # None => slot \in Response /\ Sound(slot)
      BY DEF TypeInv, HistoriesSound
    <3> QED BY <2>1, <3>1, BeginningsStay DEF Sound, Begins
  <2>2. CASE Handle
    <3>1. Head(down) = down[1] /\ 1 \in 1..Len(down)
      <4>1. Len(down) > 0 /\ Head(down) = down[1] /\ Len(down) \in Nat
        BY <2>2, DownEffect, Lengths DEF Handle
      <4> QED BY <4>1
    <3>2. CASE IsNote(1)
      BY <2>1, <2>2, <3>1, <3>2 DEF Handle, IsNote
    <3>3. CASE ~IsNote(1)
      <4>1. PICK a \in Response : a = down[1]
        BY <3>1, <3>3
      <4>2. Sound(a)
        BY <3>1, <3>3, <4>1 DEF HistoriesSound
      <4>3. slot' = a
        BY <2>2, <3>1, <3>3, <4>1 DEF Handle, IsNote
      <4>4. Sound(a)'
        BY <4>2, BeginningsStay
      <4> QED BY <4>3, <4>4 DEF Sound, Begins
    <3> QED BY <3>2, <3>3
  <2>3. CASE slot' = None
    BY <2>3
  <2> QED
    BY <2>1, <2>2, <2>3 DEF Next, Child, Read, OtherPosts, Serve, Answer, Forward,
       Open, Send,
       Ask, Opened, Sent, Clear, AppendMessage, vars
<1>3. ASSUME NEW i \in 1..Len(down'), ~IsNote(i)' PROVE Sound(down[i])'
  <2>1. ASSUME NEW a \in Response, Sound(a), down'[i] = a PROVE Sound(down[i])'
    <3>1. Sound(a)'
      BY <2>1, BeginningsStay
    <3> QED BY <2>1, <3>1 DEF Sound, Begins
  <2>2. \A j \in 1..Len(down) : ~IsNote(j) => down[j] \in Response /\ Sound(down[j])
    BY DEF HistoriesSound
  <2>3. CASE Answer
    <3>1. Len(down') = Len(down) + 1 /\ child \in Response /\ down'[Len(down) + 1] = child
      BY <2>3, AnswerEffect
    <3>2. i \in 1..Len(down) => down'[i] = down[i] /\ ~IsNote(i)
      BY <1>3, <2>3, AnswerEffect
    <3>3. Sound(child)
      BY <2>3 DEF Answer, HistoriesSound
    <3> QED BY <2>1, <2>2, <3>1, <3>2, <3>3
  <2>4. ASSUME NEW p \in Posters, Forward(p) PROVE Sound(down[i])'
    <3>1. i \in 1..Len(down) /\ down'[i] = down[i] /\ ~IsNote(i)
      BY <1>3, <2>4, ForwardEffect
    <3> QED BY <2>1, <2>2, <3>1
  <2>5. CASE Handle
    <3>1. /\ Len(down') = Len(down) - 1
          /\ \A j \in 1..Len(down') : down'[j] = down[j + 1]
      BY <2>5, DownEffect DEF Handle
    <3>2. down'[i] = down[i + 1] /\ i + 1 \in 1..Len(down) /\ ~IsNote(i + 1)
      BY <1>3, <3>1 DEF IsNote
    <3> QED BY <2>1, <2>2, <3>2
  <2>6. CASE down' = down
    BY <1>3, <2>1, <2>2, <2>6 DEF IsNote
  <2> QED
    BY <2>3, <2>4, <2>5, <2>6, StepKinds DEF Opened, Clear, AppendMessage
<1> QED BY <1>1, <1>2, <1>3 DEF HistoriesSound
\* The history shown stays the beginning of the open chat's log.
LEMMA NextHistoryShown ==
  ASSUME TypeInv, WaySound, HistoriesSound, HistoryShown, [Next]_vars
  PROVE  HistoryShown'
<1> USE Lengths
<1>1. Len(shown) \in Nat /\ base \in Nat /\ Len(shown') \in Nat
  BY NextTypes, LenProperties DEF TypeInv
<1>2. \A r \in Routes : /\ Len(log[r]) \in Nat /\ Len(log'[r]) \in Nat
                        /\ Len(log[r]) <= Len(log'[r])
                        /\ \A k \in 1..Len(log[r]) : log'[r][k] = log[r][k]
  BY LogsGrow, NextTypes, LenProperties DEF TypeInv
<1>3. ASSUME UNCHANGED <<current, read, base, right>>, base <= Len(shown'),
             \A k \in 1..base : shown'[k] = shown[k],
             reader' # None /\ reader'.route # current => Len(shown') = base
      PROVE  HistoryShown'
  <2>1. right /\ current # None => \A k \in 1..base :
          k <= Len(log'[current]) /\ shown'[k] = log'[current][k]
    <3>1. SUFFICES ASSUME right, current # None, NEW k \in 1..base
                   PROVE  k <= Len(log'[current]) /\ shown'[k] = log'[current][k]
      OBVIOUS
    <3>2. current \in Routes /\ k <= Len(log[current]) /\ shown[k] = log[current][k]
      BY <3>1 DEF HistoryShown, TypeInv
    <3>3. k \in 1..Len(log[current])
      BY <1>1, <1>2, <3>2
    <3> QED BY <1>1, <1>2, <1>3, <3>2, <3>3
  <2> QED BY <1>3, <2>1 DEF HistoryShown
<1>4. CASE UNCHANGED <<reader, view>>
  BY <1>1, <1>3, <1>4 DEF view, HistoryShown
<1>5. CASE Opened
  <2>1. CASE UNCHANGED view
    BY <1>4, <1>5, <2>1 DEF Opened
  <2>2. CASE /\ right' = FALSE /\ UNCHANGED read
             /\ current' = main /\ shown' = <<>> /\ base' = 0
    BY <1>1, <2>2, EmptySeq DEF HistoryShown
  <2>3. ASSUME slot.kind = "history", slot \in Response, right' = (slot.route = main),
               slot.messages \in Seq(Message), Len(slot.messages) \in Nat,
               main \in Routes,
               read' = Len(slot.messages), current' = main, base' = Len(shown'),
               Len(shown') <= Len(slot.messages),
               \A k \in 1..Len(shown') : shown'[k] = slot.messages[k]
        PROVE  HistoryShown'
    <3>1. Begins(slot.messages, slot.route) /\ slot.route \in Routes
      BY <2>3, Kinds, ViewAssumption DEF HistoriesSound, Sound
    <3>2. UNCHANGED log
      BY <1>5 DEF Opened, server
    <3>3. right' => \A k \in 1..base' :
            k <= Len(log'[current']) /\ shown'[k] = log'[current'][k]
      <4>1. SUFFICES ASSUME right', NEW k \in 1..base'
                     PROVE  k <= Len(log'[current']) /\ shown'[k] = log'[current'][k]
        OBVIOUS
      <4>2. k \in 1..Len(slot.messages) /\ shown'[k] = slot.messages[k]
        BY <1>1, <2>3
      <4>3. k <= Len(log[slot.route]) /\ slot.messages[k] = log[slot.route][k]
        BY <1>2, <2>3, <3>1, <4>2 DEF Begins
      <4>4. slot.route = current'
        BY <2>3, <4>1
      <4> QED BY <3>2, <4>2, <4>3, <4>4
    <3>4. current' # None
      BY <2>3, Kinds
    <3> QED BY <1>1, <2>3, <3>3, <3>4 DEF HistoryShown
  <2> QED BY <1>5, <2>1, <2>2, <2>3, OpenedEffect
<1>6. CASE Clear
  <2>1. current' = None /\ shown' = <<>> /\ base' = 0
    BY <1>6 DEF Clear
  <2> QED BY <1>1, <2>1, EmptySeq DEF HistoryShown
<1>7. CASE Handle
  <2>1. /\ UNCHANGED <<current, shown, read, base, right>>
        /\ reader' # None => reader'.route = current
    BY <1>7, HandleEffect DEF view
  <2> QED BY <1>1, <1>3, <2>1 DEF HistoryShown
<1>8. CASE AppendMessage
  <2>1. /\ UNCHANGED <<current, read, base, right>> /\ reader' = None
        /\ Len(shown') >= Len(shown) /\ \A k \in 1..Len(shown) : shown'[k] = shown[k]
    BY <1>1, <1>8, AppendEffect
  <2> QED BY <1>1, <1>3, <2>1 DEF HistoryShown
<1> QED
  BY <1>4, <1>5, <1>6, <1>7, <1>8, StepKinds DEF Answer, Forward

\* Only a message another chat was opened over is shown where it does not
\* belong, and as the first one after the history.
LEMMA NextStray ==
  ASSUME TypeInv, LogSound, HistoriesSound, HistoryShown, StrayIsFirst, [Next]_vars
  PROVE  StrayIsFirst'
<1>1. Len(shown) \in Nat /\ base \in Nat /\ Len(shown') \in Nat
  BY NextTypes, LenProperties DEF TypeInv
<1>2. CASE UNCHANGED view
  BY <1>2 DEF view, StrayIsFirst
<1>3. CASE Opened
  <2>1. CASE right' = FALSE
    BY <2>1 DEF StrayIsFirst
  <2>2. ASSUME slot.kind = "history", slot \in Response, right' = (slot.route = main),
               slot.messages \in Seq(Message), Len(slot.messages) \in Nat,
               current' = main, Len(shown') <= Len(slot.messages),
               \A k \in 1..Len(shown') : shown'[k] = slot.messages[k]
        PROVE  StrayIsFirst'
    <3>1. Begins(slot.messages, slot.route) /\ slot.route \in Routes
      BY <2>2, Kinds, ViewAssumption DEF HistoriesSound, Sound
    <3>2. \A k \in 1..Len(shown') : k \in 1..Len(slot.messages)
      BY <1>1, <2>2
    <3>3. \A k \in 1..Len(slot.messages) :
            k \in 1..Len(log[slot.route]) /\ slot.messages[k] = log[slot.route][k]
      BY <3>1, <2>2, Lengths DEF Begins
    <3>4. \A k \in 1..Len(slot.messages) : slot.messages[k].route = slot.route
      BY <3>1, <3>3 DEF LogSound
    <3> QED BY <2>2, <3>2, <3>4 DEF StrayIsFirst
  <2> QED BY <1>2, <1>3, <2>1, <2>2, OpenedEffect
<1>4. CASE Clear
  BY <1>1, <1>4, EmptySeq DEF Clear, StrayIsFirst
<1>5. CASE AppendMessage
  <2>1. SUFFICES ASSUME right, NEW i \in 1..Len(shown'), shown'[i].route # current
                 PROVE  i = base + 1
    BY <1>5, AppendEffect DEF StrayIsFirst
  <2>2. CASE i \in 1..Len(shown)
    BY <1>5, <2>1, <2>2, AppendEffect DEF StrayIsFirst
  <2>3. CASE i \notin 1..Len(shown)
    <3>1. i = Len(shown) + 1 /\ shown'[i] = reader
      BY <1>1, <1>5, <2>3, AppendEffect
    <3>2. reader # None /\ reader.route # current
      BY <1>5, <2>1, <3>1 DEF AppendMessage
    <3> QED BY <3>1, <3>2 DEF HistoryShown
  <2> QED BY <2>2, <2>3
<1> QED
  BY <1>2, <1>3, <1>4, <1>5, StepKinds DEF Answer, Forward, Handle
-----------------------------------------------------------------------------
(* One answer at a time. *)

\* That the threads waited together is never forgotten.
LEMMA OverlapStays ==
  ASSUME [Next]_vars, overlap
  PROVE  overlap'
<1>1. ASSUME NEW r \in Routes, Open(r) PROVE overlap'
  BY <1>1 DEF Open
<1>2. CASE overlap' = overlap
  BY <1>2
<1> QED
  BY <1>1, <1>2 DEF Next, OtherPosts, Child, Serve, Answer, Forward, Send, Opened,
     Sent,
     Clear, Read, Handle, AppendMessage, bounds, vars

\* What is awaited is under way in one place, and stays so.
LEMMA NextOneAnswer ==
  ASSUME TypeInv, WaySound, OneAnswer, [Next]_vars
  PROVE  OneAnswer'
<1> USE Lengths
<1>1. SUFFICES ASSUME ~overlap, ~overlap' PROVE OneAnswer'
  BY OverlapStays DEF OneAnswer
<1>2. /\ main = None \/ worker = None
      /\ main = None /\ worker = None => up = <<>> /\ child = None /\ NoneDown
      /\ main # None => Awaited("main", main)
      /\ worker # None => Awaited("worker", worker)
  BY <1>1 DEF OneAnswer
<1>3. CASE UNCHANGED <<up, child, down, slot, main, worker>>
  BY <1>2, <1>3 DEF OneAnswer, Awaited, NoneDown, OneDown, IsNote
\* what is awaited moves on
<1>4. ASSUME UNCHANGED <<main, worker>>, main # None \/ worker # None,
             \A b, r : Awaited(b, r) => Awaited(b, r)'
      PROVE  OneAnswer'
  BY <1>2, <1>4 DEF OneAnswer
<1>5. CASE Serve
  <2>1. up # <<>> /\ up' = Tail(up) /\ child = None /\ UNCHANGED <<down, slot, main, worker>>
    BY <1>5 DEF Serve
  <2>2. Head(up) \in Request
    BY <2>1, HeadTailProperties DEF TypeInv
  <2>3. PICK q \in Request : q = Head(up)
    BY <2>2
  <2>4. child' \in Response /\ child'.by = q.by /\ child'.route = q.route
    <3>1. q.route \in Routes /\ log[q.route] \in Seq(Message) /\ q.by \in {"main", "worker"}
      BY DEF Request
    <3>2. CASE q.by = "worker"
      <4>1. child' = Posted(q.route)
        BY <1>5, <2>3, <3>2 DEF Serve
      <4> QED BY <3>1, <3>2, <4>1, AnswerTypes DEF Posted
    <3>3. CASE q.by = "main"
      <4>1. child' = History(q.route, log[q.route]) \/ child' = Refused(q.route)
        BY <1>5, <2>3, <3>3 DEF Serve
      <4>2. child' \in Response
        BY <3>1, <4>1, AnswerTypes
      <4> QED BY <3>3, <4>1, <4>2 DEF History, Refused
    <3> QED BY <3>1, <3>2, <3>3
  <2>5. ASSUME NEW b, NEW r, Awaited(b, r) PROVE Awaited(b, r)'
    <3>1. up = <<[by |-> b, route |-> r]>> /\ NoneDown /\ slot = None
      BY <2>1, <2>5 DEF Awaited
    <3>2. q = [by |-> b, route |-> r] /\ up' = <<>>
      BY <2>1, <2>3, <3>1
    <3>3. child' # None /\ child'.by = b /\ child'.route = r
      BY <2>4, <3>2, Kinds
    <3>4. NoneDown'
      BY <2>1, <3>1 DEF NoneDown, IsNote
    <3> QED BY <2>1, <3>1, <3>2, <3>3, <3>4 DEF Awaited
  <2>6. main # None \/ worker # None
    BY <1>2, <2>1
  <2> QED BY <1>4, <2>1, <2>5, <2>6
<1>6. CASE Answer
  <2>1. /\ Len(down') = Len(down) + 1 /\ child \in Response /\ down'[Len(down) + 1] = child
        /\ \A i \in 1..Len(down) : IsNote(i)' <=> IsNote(i)
        /\ \A i \in 1..Len(down') : i > Len(down) => ~IsNote(i)'
        /\ child' = None /\ UNCHANGED <<up, slot, main, worker>>
    BY <1>6, AnswerEffect
  <2>2. ASSUME NEW b, NEW r, Awaited(b, r) PROVE Awaited(b, r)'
    <3>1. up = <<>> /\ child.by = b /\ child.route = r /\ NoneDown /\ slot = None
      BY <1>6, <2>2 DEF Answer, Awaited
    <3>2. OneDown(b, r)'
      <4>1. Len(down) + 1 \in 1..Len(down')
        BY <2>1
      <4>2. PICK i \in 1..Len(down') : i = Len(down) + 1
        BY <4>1
      <4>3. ~IsNote(i)' /\ down'[i].by = b /\ down'[i].route = r
        BY <2>1, <3>1, <4>2
      <4>4. \A j \in 1..Len(down') : j # i => IsNote(j)'
        BY <2>1, <3>1, <4>2 DEF NoneDown
      <4> QED BY <4>3, <4>4 DEF OneDown
    <3> QED BY <2>1, <3>1, <3>2 DEF Awaited
  <2>3. main # None \/ worker # None
    BY <1>2, <1>6 DEF Answer
  <2> QED BY <1>4, <2>1, <2>2, <2>3
\* a notification more or less leaves the answers as they are
<1>7. ASSUME UNCHANGED <<up, child, slot, main, worker>>,
             NoneDown => NoneDown', \A b, r : OneDown(b, r) => OneDown(b, r)'
      PROVE  OneAnswer'
  BY <1>2, <1>7 DEF OneAnswer, Awaited
<1>8. ASSUME NEW p \in Posters, Forward(p) PROVE OneAnswer'
  <2>1. /\ Len(down') = Len(down) + 1
        /\ \A i \in 1..Len(down) : down'[i] = down[i] /\ (IsNote(i)' <=> IsNote(i))
        /\ \A i \in 1..Len(down') : i > Len(down) => IsNote(i)'
        /\ UNCHANGED <<up, child, slot, main, worker>>
    BY <1>8, ForwardEffect
  <2>2. NoneDown => NoneDown'
    BY <2>1 DEF NoneDown
  <2>3. ASSUME NEW b, NEW r, OneDown(b, r) PROVE OneDown(b, r)'
    <3>1. PICK i \in 1..Len(down) :
            /\ ~IsNote(i) /\ down[i].by = b /\ down[i].route = r
            /\ \A j \in 1..Len(down) : j # i => IsNote(j)
      BY <2>3 DEF OneDown
    <3>2. i \in 1..Len(down') /\ ~IsNote(i)' /\ down'[i].by = b /\ down'[i].route = r
      BY <2>1, <3>1
    <3>3. \A j \in 1..Len(down') : j # i => IsNote(j)'
      BY <2>1, <3>1
    <3> QED BY <3>2, <3>3 DEF OneDown
  <2> QED BY <1>7, <2>1, <2>2, <2>3
<1>9. CASE Handle
  <2>1. /\ Len(down) > 0 /\ Len(down') = Len(down) - 1
        /\ \A i \in 1..Len(down') : down'[i] = down[i + 1] /\ (IsNote(i)' <=> IsNote(i + 1))
        /\ UNCHANGED <<up, child, main, worker>>
        /\ IsNote(1) => slot' = slot
        /\ ~IsNote(1) => slot' = down[1]
    BY <1>9, HandleEffect DEF server
  <2>2. CASE IsNote(1)
    <3>1. NoneDown => NoneDown'
      BY <2>1 DEF NoneDown
    <3>2. ASSUME NEW b, NEW r, OneDown(b, r) PROVE OneDown(b, r)'
      <4>1. PICK i \in 1..Len(down) :
              /\ ~IsNote(i) /\ down[i].by = b /\ down[i].route = r
              /\ \A j \in 1..Len(down) : j # i => IsNote(j)
        BY <3>2 DEF OneDown
      <4>2. PICK k \in 1..Len(down') : k = i - 1
        BY <2>1, <2>2, <4>1
      <4>3. ~IsNote(k)' /\ down'[k].by = b /\ down'[k].route = r
        BY <2>1, <4>1, <4>2
      <4>4. \A j \in 1..Len(down') : j # k => IsNote(j)'
        BY <2>1, <4>1, <4>2
      <4> QED BY <4>3, <4>4 DEF OneDown
    <3> QED BY <1>7, <2>1, <2>2, <3>1, <3>2
  <2>3. CASE ~IsNote(1)
    <3>1. 1 \in 1..Len(down) /\ down[1] \in Response
      BY <2>1, <2>3
    <3>2. ASSUME NEW b, NEW r, Awaited(b, r) PROVE Awaited(b, r)'
      <4>1. up = <<>> /\ child = None /\ OneDown(b, r) /\ slot = None
        BY <2>3, <3>1, <3>2 DEF Awaited, NoneDown
      <4>2. PICK i \in 1..Len(down) :
              /\ ~IsNote(i) /\ down[i].by = b /\ down[i].route = r
              /\ \A j \in 1..Len(down) : j # i => IsNote(j)
        BY <4>1 DEF OneDown
      <4>3. i = 1
        BY <2>3, <3>1, <4>2
      <4>4. NoneDown'
        BY <2>1, <4>2, <4>3 DEF NoneDown
      <4>5. slot' # None /\ slot'.by = b /\ slot'.route = r
        BY <2>1, <2>3, <3>1, <4>2, <4>3, Kinds
      <4> QED BY <2>1, <4>1, <4>4, <4>5 DEF Awaited
    <3>3. main # None \/ worker # None
      BY <1>2, <2>3, <3>1 DEF NoneDown
    <3> QED BY <1>4, <2>1, <3>2, <3>3
  <2> QED BY <2>2, <2>3
<1>10. ASSUME NEW r \in Routes, Open(r) PROVE OneAnswer'
  <2>1. /\ main = None /\ worker = None /\ main' = r /\ UNCHANGED <<child, down, worker>>
        /\ up' = Append(up, Get(r)) /\ slot' = None
    BY <1>1, <1>10 DEF Open, Ask, server
  <2>2. up' = <<[by |-> "main", route |-> r]>> /\ child' = None /\ NoneDown'
    BY <1>2, <2>1 DEF Get, NoneDown, IsNote
  <2>3. Awaited("main", main)'
    BY <2>1, <2>2 DEF Awaited
  <2> QED BY <2>1, <2>3, Kinds DEF OneAnswer
<1>11. CASE Send
  <2>1. /\ main = None /\ worker = None /\ worker' = current /\ UNCHANGED <<child, down, main>>
        /\ up' = Append(up, Post(current)) /\ slot' = None
    BY <1>11 DEF Send, Ask, server
  <2>2. up' = <<[by |-> "worker", route |-> current]>> /\ child' = None /\ NoneDown'
    BY <1>2, <2>1 DEF Post, NoneDown, IsNote
  <2>3. current # None
    BY <1>11 DEF Send
  <2>4. Awaited("worker", worker)'
    BY <2>1, <2>2 DEF Awaited
  <2> QED BY <2>1, <2>3, <2>4 DEF OneAnswer
\* a call returns
<1>12. ASSUME slot # None, UNCHANGED <<up, child, down>>, main' = None, worker' = None,
              main # None \/ worker # None
       PROVE  OneAnswer'
  <2>1. up = <<>> /\ child = None /\ NoneDown
    BY <1>2, <1>12 DEF Awaited
  <2> QED BY <1>12, <2>1 DEF OneAnswer, NoneDown, IsNote
<1>13. CASE Opened
  BY <1>2, <1>12, <1>13 DEF Opened, server
<1>14. CASE Sent
  BY <1>2, <1>12, <1>14 DEF Sent, server
<1>15. ASSUME NEW p \in Others, NEW r \in Routes, OtherPosts(p, r) PROVE OneAnswer'
  BY <1>3, <1>15 DEF OtherPosts
<1>16. CASE Clear
  BY <1>3, <1>16 DEF Clear, server
<1>17. CASE AppendMessage
  BY <1>3, <1>17 DEF AppendMessage, server
<1>18. CASE UNCHANGED vars
  BY <1>3, <1>18 DEF vars, server
<1> QED
  BY <1>5, <1>6, <1>8, <1>9, <1>10, <1>11, <1>13, <1>14, <1>15, <1>16, <1>17, <1>18
  DEF Next, Child, Read

\* A history is shown under its own route, unless the threads waited together.
LEMMA NextRight ==
  ASSUME TypeInv, OneAnswer, RightUnlessOverlap, [Next]_vars
  PROVE  RightUnlessOverlap'
<1>1. CASE Opened
  <2>1. SUFFICES ASSUME ~overlap PROVE right'
    BY <1>1 DEF Opened, bounds, RightUnlessOverlap
  <2>2. slot \in Response /\ slot.by = "main" /\ slot.route = main
    BY <1>1, <2>1 DEF OneAnswer, Awaited, Opened, TypeInv
  <2>3. slot.kind # "posted"
    BY <2>2, Kinds
  <2>4. right
    BY <2>1 DEF RightUnlessOverlap
  <2> QED BY <1>1, <2>2, <2>3, <2>4, OpenedEffect DEF view
<1>2. CASE Clear
  BY <1>2 DEF Clear, RightUnlessOverlap
<1>3. CASE UNCHANGED right
  BY <1>3, OverlapStays DEF RightUnlessOverlap
<1> QED
  BY <1>1, <1>2, <1>3 DEF Next, OtherPosts, Child, Serve, Answer, Forward, Open,
     Send, Sent,
     Read, Handle, AppendMessage, view, bounds, vars
-----------------------------------------------------------------------------
(* No message is lost. *)

\* What is due is on its way until it is shown or the client is full.
LEMMA NextOnTheWay ==
  ASSUME TypeInv, LogSound, WaySound, OnTheWay, [Next]_vars
  PROVE  OnTheWay'
<1> USE Lengths
<1>1. /\ TypeInv' /\ LogSound' /\ Len(shown) \in Nat /\ Len(shown') \in Nat /\ MaxMessages \in Nat
      /\ set \in Nat /\ posts \in Nat
  BY NextTypes, NextLogSound, LenProperties, ViewAssumption DEF TypeInv
<1>2. ASSUME Len(shown') <= MaxMessages, set' <= posts',
             \A m \in Message :
               /\ current' # None /\ ~Full' /\ m.route = current' /\ m.n > set'
               /\ m.by # Me \/ current' \in Chats
               /\ \E k \in 1..Len(log'[current']) : m = log'[current'][k]
               => Comes(m)'
      PROVE  OnTheWay'
  <2>1. ASSUME current' # None, ~Full', NEW k \in 1..Len(log'[current']),
               NEW m, m = log'[current'][k], m.n > set', m.by # Me \/ current' \in Chats
        PROVE  Comes(m)'
    <3>1. current' \in Routes /\ log' \in [Routes -> Seq(Message)]
      BY <1>1, <2>1 DEF TypeInv
    <3>2. log'[current'] \in Seq(Message)
      BY <3>1
    <3>3. m \in Message
      BY <2>1, <3>2, ElementOfSeq
    <3>4. m.route = current'
      BY <1>1, <2>1, <3>1 DEF LogSound
    <3> QED BY <1>2, <2>1, <3>3, <3>4
  <2> QED BY <1>2, <2>1 DEF OnTheWay, Comes, IsNote, Full
\* a step that stores nothing and shows the same chat
<1>3. ASSUME UNCHANGED <<log, posts, current, set>>, Len(shown') <= MaxMessages, Full => Full',
             \A m \in Message :
               /\ m.route = current /\ (m.by # Me \/ current \in Chats) /\ ~Full' /\ Comes(m)
               => Comes(m)'
      PROVE  OnTheWay'
  <2>1. ASSUME NEW m \in Message, current' # None, ~Full', m.route = current', m.n > set',
               m.by # Me \/ current' \in Chats,
               NEW k \in 1..Len(log'[current']), m = log'[current'][k]
        PROVE  Comes(m)'
    <3>1. Comes(m)
      BY <1>3, <2>1 DEF OnTheWay
    <3> QED BY <1>3, <2>1, <3>1
  <2> QED BY <1>2, <1>3, <2>1 DEF OnTheWay
<1>4. CASE UNCHANGED <<log, posts, pipes, down, reader, view>>
  BY <1>3, <1>4 DEF view, OnTheWay, Full, Comes, IsNote
<1>5. ASSUME NEW p \in Posters, NEW r \in Routes, Posts(p, r), UNCHANGED <<down, reader, view>>
      PROVE  OnTheWay'
  <2>1. PICK x \in Message :
          /\ x.by = p /\ posts' = posts + 1
          /\ \A s \in Routes : s # r => log'[s] = log[s]
          /\ Len(log'[r]) = Len(log[r]) + 1 /\ log'[r][Len(log[r]) + 1] = x
          /\ \A k \in 1..Len(log[r]) : log'[r][k] = log[r][k]
          /\ \A q \in Posters : q # p => pipes'[q] = pipes[q]
          /\ Len(pipes'[p]) = Len(pipes[p]) + 1 /\ pipes'[p][Len(pipes[p]) + 1] = x
          /\ \A j \in 1..Len(pipes[p]) : pipes'[p][j] = pipes[p][j]
    BY <1>5, PostEffect
  <2>2. Comes(x)'
    BY <2>1 DEF Comes
  <2>3. ASSUME NEW m \in Message, Comes(m) PROVE Comes(m)'
    <3>1. CASE \E j \in 1..Len(pipes[m.by]) : pipes[m.by][j] = m
      <4>1. \E j \in 1..Len(pipes'[m.by]) : pipes'[m.by][j] = m
        <5>1. m.by \in Posters
          BY DEF Message
        <5>2. CASE m.by = p
          <6>1. PICK j \in 1..Len(pipes[p]) : pipes[p][j] = m
            BY <3>1, <5>2
          <6>2. j \in 1..Len(pipes'[p]) /\ pipes'[p][j] = m
            BY <2>1, <6>1
          <6> QED BY <5>2, <6>2
        <5>3. CASE m.by # p
          BY <2>1, <3>1, <5>1, <5>3
        <5> QED BY <5>2, <5>3
      <4> QED BY <4>1 DEF Comes
    <3>2. CASE ~(\E j \in 1..Len(pipes[m.by]) : pipes[m.by][j] = m)
      BY <1>5, <2>3, <3>2 DEF Comes, IsNote, view
    <3> QED BY <3>1, <3>2
  <2>4. ASSUME NEW m \in Message, current' # None, ~Full', m.n > set',
               m.by # Me \/ current' \in Chats,
               NEW k \in 1..Len(log'[current']), m = log'[current'][k]
        PROVE  Comes(m)'
    <3>1. current' = current /\ current \in Routes /\ ~Full /\ set' = set
      BY <1>5, <2>4 DEF view, Full, TypeInv
    <3>2. CASE k \in 1..Len(log[current])
      <4>1. m = log[current][k]
        BY <2>1, <2>4, <3>1, <3>2
      <4> QED BY <2>3, <2>4, <3>1, <3>2, <4>1 DEF OnTheWay
    <3>3. CASE k \notin 1..Len(log[current])
      <4>1. current = r
        BY <2>1, <2>4, <3>1, <3>3
      <4>2. k = Len(log[r]) + 1
        BY <2>1, <2>4, <3>1, <3>3, <4>1
      <4>3. m = x
        BY <2>1, <2>4, <3>1, <4>1, <4>2
      <4> QED BY <2>2, <4>3
    <3> QED BY <3>2, <3>3
  <2>5. Len(shown') <= MaxMessages /\ set' <= posts'
    BY <1>1, <1>5, <2>1 DEF OnTheWay, view
  <2> QED BY <1>2, <2>4, <2>5
<1>6. CASE Answer
  <2>1. /\ UNCHANGED <<log, posts, pipes, reader, view>> /\ Len(down') = Len(down) + 1
        /\ \A i \in 1..Len(down) : down'[i] = down[i] /\ (IsNote(i)' <=> IsNote(i))
    BY <1>6, AnswerEffect
  <2>2. ASSUME NEW m \in Message, Comes(m) PROVE Comes(m)'
    BY <2>1, <2>2 DEF Comes, view
  <2> QED BY <1>3, <2>1, <2>2 DEF view, OnTheWay, Full
<1>7. ASSUME NEW p \in Posters, Forward(p) PROVE OnTheWay'
  <2>1. /\ UNCHANGED <<log, posts, reader, view>> /\ Len(down') = Len(down) + 1
        /\ \A i \in 1..Len(down') : i > Len(down) => IsNote(i)'
        /\ down'[Len(down) + 1].message = pipes[p][1]
        /\ \A i \in 1..Len(down) : down'[i] = down[i] /\ (IsNote(i)' <=> IsNote(i))
        /\ Len(pipes'[p]) = Len(pipes[p]) - 1
        /\ \A j \in 1..Len(pipes'[p]) : pipes'[p][j] = pipes[p][j + 1]
        /\ \A q \in Posters : q # p => pipes'[q] = pipes[q]
    BY <1>7, ForwardEffect
  <2>2. ASSUME NEW m \in Message, Comes(m) PROVE Comes(m)'
    <3>1. m.by \in Posters
      BY DEF Message
    <3>2. ASSUME NEW j \in 1..Len(pipes[m.by]), pipes[m.by][j] = m PROVE Comes(m)'
      <4>1. CASE m.by # p
        BY <2>1, <3>1, <3>2, <4>1 DEF Comes
      <4>2. CASE m.by = p /\ j = 1
        <5>1. Len(down) + 1 \in 1..Len(down')
          BY <2>1
        <5>2. PICK i \in 1..Len(down') : i = Len(down) + 1
          BY <5>1
        <5>3. IsNote(i)' /\ down'[i].message = m
          BY <2>1, <3>2, <4>2, <5>2
        <5> QED BY <5>3 DEF Comes
      <4>3. CASE m.by = p /\ j # 1
        <5>1. PICK l \in 1..Len(pipes'[p]) : l = j - 1
          BY <2>1, <3>1, <3>2, <4>3
        <5>2. pipes'[m.by][l] = m
          BY <2>1, <3>2, <4>3, <5>1
        <5> QED BY <4>3, <5>1, <5>2 DEF Comes
      <4> QED BY <4>1, <4>2, <4>3
    <3>3. CASE \E i \in 1..Len(down) : IsNote(i) /\ down[i].message = m
      BY <2>1, <3>3 DEF Comes
    <3>4. CASE reader = m \/ \E i \in 1..Len(shown) : shown[i] = m
      BY <2>1, <3>4 DEF Comes, view
    <3> QED BY <2>2, <3>2, <3>3, <3>4 DEF Comes
  <2> QED BY <1>3, <2>1, <2>2 DEF view, OnTheWay, Full
<1>8. CASE Handle
  <2>1. /\ Len(down) > 0 /\ Len(down') = Len(down) - 1 /\ reader = None
        /\ \A i \in 1..Len(down') : down'[i] = down[i + 1] /\ (IsNote(i)' <=> IsNote(i + 1))
        /\ IsNote(1) /\ down[1].message.route = current
           /\ (down[1].message.by # Me \/ current \in Chats) => reader' = down[1].message
        /\ UNCHANGED <<log, posts, pipes, view>>
    BY <1>8, HandleEffect DEF server
  <2>2. ASSUME NEW m \in Message, m.route = current, m.by # Me \/ current \in Chats, Comes(m)
        PROVE  Comes(m)'
    <3>1. ASSUME NEW i \in 1..Len(down), IsNote(i), down[i].message = m PROVE Comes(m)'
      <4>1. CASE i = 1
        BY <2>1, <2>2, <3>1, <4>1 DEF Comes
      <4>2. CASE i # 1
        <5>1. PICK j \in 1..Len(down') : j = i - 1
          BY <2>1, <3>1, <4>2
        <5>2. IsNote(j)' /\ down'[j].message = m
          BY <2>1, <3>1, <5>1, SMTT(30)
        <5> QED BY <5>2 DEF Comes
      <4> QED BY <4>1, <4>2
    <3>2. reader # m
      BY <2>1, Kinds
    <3>3. CASE \E j \in 1..Len(pipes[m.by]) : pipes[m.by][j] = m
      BY <2>1, <3>3 DEF Comes
    <3>4. CASE \E i \in 1..Len(shown) : shown[i] = m
      BY <2>1, <3>4 DEF Comes, view
    <3> QED BY <2>2, <3>1, <3>2, <3>3, <3>4 DEF Comes
  <2> QED BY <1>3, <2>1, <2>2 DEF view, OnTheWay, Full
<1>9. CASE AppendMessage
  <2>1. /\ \A i \in 1..Len(shown) : shown'[i] = shown[i]
        /\ Len(shown) < MaxMessages =>
             Len(shown') = Len(shown) + 1 /\ shown'[Len(shown) + 1] = reader
        /\ ~(Len(shown) < MaxMessages) => shown' = shown
        /\ UNCHANGED <<log, posts, pipes, down, current, set>>
    BY <1>9, AppendEffect DEF server
  <2>2. Len(shown') <= MaxMessages /\ (Full => Full') /\ Len(shown) <= Len(shown')
    BY <1>1, <2>1 DEF OnTheWay, Full
  <2>3. ASSUME NEW m \in Message, ~Full', Comes(m) PROVE Comes(m)'
    <3>1. CASE reader = m
      <4>1. Len(shown) < MaxMessages
        BY <1>1, <2>1, <2>3 DEF OnTheWay, Full
      <4>2. Len(shown) + 1 \in 1..Len(shown') /\ shown'[Len(shown) + 1] = m
        BY <1>1, <2>1, <3>1, <4>1
      <4> QED BY <4>2 DEF Comes
    <3>2. CASE \E i \in 1..Len(shown) : shown[i] = m
      BY <1>1, <2>1, <2>2, <3>2 DEF Comes
    <3>3. CASE \/ \E j \in 1..Len(pipes[m.by]) : pipes[m.by][j] = m
               \/ \E i \in 1..Len(down) : IsNote(i) /\ down[i].message = m
      BY <2>1, <3>3 DEF Comes, IsNote
    <3> QED BY <2>3, <3>1, <3>2, <3>3 DEF Comes
  <2> QED BY <1>3, <2>1, <2>2, <2>3
\* a chat that is opened or closed has seen all that was posted
<1>10. ASSUME set' = posts, Len(shown') <= MaxMessages, UNCHANGED <<log, posts>>
       PROVE  OnTheWay'
  <2>1. ASSUME NEW m \in Message, m.n > set', current' # None, m.route = current',
               NEW k \in 1..Len(log'[current']), m = log'[current'][k]
        PROVE  FALSE
    <3>1. current' \in Routes
      BY <1>1, <2>1 DEF TypeInv
    <3>2. m.n \in 1..posts'
      BY <1>1, <2>1, <3>1 DEF LogSound
    <3> QED BY <1>1, <1>10, <2>1, <3>2
  <2> QED BY <1>1, <1>2, <1>10, <2>1
<1>11. CASE Opened
  <2>1. UNCHANGED <<log, posts, pipes, down, reader>>
    BY <1>11, OpenedEffect DEF server
  <2>2. CASE UNCHANGED view
    BY <1>4, <2>1, <2>2
  <2>3. CASE set' = posts /\ Len(shown') <= MaxMessages
    BY <1>10, <2>1, <2>3
  <2>4. shown' = <<>> => Len(shown') <= MaxMessages
    BY <1>1, EmptySeq
  <2> QED BY <1>11, <2>2, <2>3, <2>4, OpenedEffect
<1>12. CASE Clear
  BY <1>1, <1>10, <1>12, EmptySeq DEF Clear, server
<1> QED
  BY <1>4, <1>5, <1>6, <1>7, <1>8, <1>9, <1>11, <1>12, StepKinds
-----------------------------------------------------------------------------
(* The order of one user's messages. *)

\* What a message came before stays after it, and what is posted is after all.
LEMMA AfterStays ==
  ASSUME TypeInv, WaySound, [Next]_vars,
         NEW m \in Message, m.n \in 1..posts, AllAfter(m)
  PROVE  AllAfter(m)'
<1> USE Lengths
<1>1. /\ \A i \in 1..Len(down) : IsNote(i) => Before(m, down[i].message)
      /\ \A p \in Posters : \A j \in 1..Len(pipes[p]) : Before(m, pipes[p][j])
  BY DEF AllAfter
<1>2. CASE UNCHANGED <<pipes, down>>
  BY <1>1, <1>2 DEF AllAfter, IsNote, Before
<1>3. ASSUME NEW p \in Posters, NEW r \in Routes, Posts(p, r), UNCHANGED down
      PROVE  AllAfter(m)'
  <2>1. PICK x \in Message :
          /\ x.n = posts + 1
          /\ \A q \in Posters : q # p => pipes'[q] = pipes[q]
          /\ Len(pipes'[p]) = Len(pipes[p]) + 1 /\ pipes'[p][Len(pipes[p]) + 1] = x
          /\ \A j \in 1..Len(pipes[p]) : pipes'[p][j] = pipes[p][j]
    BY <1>3, PostEffect
  <2>2. posts \in Nat /\ m.n < x.n
    BY <2>1 DEF TypeInv
  <2>3. ASSUME NEW q \in Posters, NEW j \in 1..Len(pipes'[q])
        PROVE  Before(m, pipes'[q][j])
    <3>1. CASE q # p \/ j \in 1..Len(pipes[p])
      BY <1>1, <2>1, <3>1
    <3>2. CASE q = p /\ j \notin 1..Len(pipes[p])
      <4>1. pipes'[q][j] = x
        BY <2>1, <3>2
      <4> QED BY <2>2, <4>1 DEF Before
    <3> QED BY <3>1, <3>2
  <2> QED BY <1>1, <1>3, <2>3 DEF AllAfter, IsNote, Before
<1>4. CASE Answer
  <2>1. /\ UNCHANGED pipes /\ Len(down') = Len(down) + 1
        /\ \A i \in 1..Len(down) : down'[i] = down[i] /\ (IsNote(i)' <=> IsNote(i))
        /\ \A i \in 1..Len(down') : i > Len(down) => ~IsNote(i)'
    BY <1>4, AnswerEffect
  <2> QED BY <1>1, <2>1 DEF AllAfter, Before
<1>5. ASSUME NEW p \in Posters, Forward(p) PROVE AllAfter(m)'
  <2>1. /\ Len(down') = Len(down) + 1 /\ Len(pipes[p]) > 0
        /\ down'[Len(down) + 1].message = pipes[p][1]
        /\ \A i \in 1..Len(down) : down'[i] = down[i] /\ (IsNote(i)' <=> IsNote(i))
        /\ Len(pipes'[p]) = Len(pipes[p]) - 1
        /\ \A j \in 1..Len(pipes'[p]) : pipes'[p][j] = pipes[p][j + 1]
        /\ \A q \in Posters : q # p => pipes'[q] = pipes[q]
    BY <1>5, ForwardEffect
  <2>2. ASSUME NEW i \in 1..Len(down'), IsNote(i)' PROVE Before(m, down'[i].message)
    <3>1. CASE i \in 1..Len(down)
      BY <1>1, <2>1, <2>2, <3>1
    <3>2. CASE i \notin 1..Len(down)
      <4>1. down'[i].message = pipes[p][1]
        BY <2>1, <3>2
      <4> QED BY <1>1, <2>1, <4>1
    <3> QED BY <3>1, <3>2
  <2>3. ASSUME NEW q \in Posters, NEW j \in 1..Len(pipes'[q])
        PROVE  Before(m, pipes'[q][j])
    <3>1. CASE q # p
      BY <1>1, <2>1, <3>1
    <3>2. CASE q = p
      <4>1. pipes'[q][j] = pipes[q][j + 1] /\ j + 1 \in 1..Len(pipes[q])
        BY <2>1, <3>2
      <4> QED BY <1>1, <4>1
    <3> QED BY <3>1, <3>2
  <2> QED BY <2>2, <2>3 DEF AllAfter, Before
<1>6. CASE Handle
  <2>1. /\ UNCHANGED pipes /\ Len(down) > 0 /\ Len(down') = Len(down) - 1
        /\ \A i \in 1..Len(down') : down'[i] = down[i + 1] /\ (IsNote(i)' <=> IsNote(i + 1))
    BY <1>6, HandleEffect DEF server
  <2>2. ASSUME NEW i \in 1..Len(down'), IsNote(i)' PROVE Before(m, down'[i].message)
    <3>1. down'[i] = down[i + 1] /\ i + 1 \in 1..Len(down) /\ IsNote(i + 1)
      BY <2>1, <2>2
    <3> QED BY <1>1, <3>1
  <2> QED BY <1>1, <2>1, <2>2 DEF AllAfter, Before
<1> QED
  BY <1>2, <1>3, <1>4, <1>5, <1>6, StepKinds DEF Opened, Clear, AppendMessage,
     server

\* The messages in a pipe are in order.
LEMMA NextPipesInOrder ==
  ASSUME TypeInv, WaySound, PipesInOrder, [Next]_vars
  PROVE  PipesInOrder'
<1> USE Lengths
<1>1. CASE UNCHANGED pipes
  BY <1>1 DEF PipesInOrder
<1>2. ASSUME NEW p \in Posters, NEW r \in Routes, Posts(p, r) PROVE PipesInOrder'
  <2>1. PICK x \in Message :
          /\ x.n = posts + 1
          /\ \A q \in Posters : q # p => pipes'[q] = pipes[q]
          /\ Len(pipes'[p]) = Len(pipes[p]) + 1 /\ pipes'[p][Len(pipes[p]) + 1] = x
          /\ \A j \in 1..Len(pipes[p]) : pipes'[p][j] = pipes[p][j]
    BY <1>2, PostEffect
  <2>2. \A j \in 1..Len(pipes[p]) : pipes[p][j].n < x.n
    BY <2>1 DEF WaySound, TypeInv
  <2>3. ASSUME NEW q \in Posters, NEW i \in 1..Len(pipes'[q]), NEW j \in 1..Len(pipes'[q]), i < j
        PROVE  pipes'[q][i].n < pipes'[q][j].n
    <3>1. CASE q # p
      BY <2>1, <2>3, <3>1 DEF PipesInOrder
    <3>2. CASE q = p /\ j \in 1..Len(pipes[p])
      <4>1. i \in 1..Len(pipes[p])
        BY <2>3, <3>2
      <4> QED BY <2>1, <2>3, <3>2, <4>1 DEF PipesInOrder
    <3>3. CASE q = p /\ j \notin 1..Len(pipes[p])
      <4>1. pipes'[q][j] = x /\ i \in 1..Len(pipes[p])
        BY <2>1, <2>3, <3>3
      <4> QED BY <2>1, <2>2, <3>3, <4>1
    <3> QED BY <3>1, <3>2, <3>3
  <2> QED BY <2>3 DEF PipesInOrder
<1>3. ASSUME NEW p \in Posters, Forward(p) PROVE PipesInOrder'
  <2>1. /\ Len(pipes'[p]) = Len(pipes[p]) - 1
        /\ \A j \in 1..Len(pipes'[p]) : pipes'[p][j] = pipes[p][j + 1]
        /\ \A q \in Posters : q # p => pipes'[q] = pipes[q]
    BY <1>3, ForwardEffect
  <2>2. ASSUME NEW q \in Posters, NEW i \in 1..Len(pipes'[q]), NEW j \in 1..Len(pipes'[q]), i < j
        PROVE  pipes'[q][i].n < pipes'[q][j].n
    <3>1. CASE q # p
      BY <2>1, <2>2, <3>1 DEF PipesInOrder
    <3>2. CASE q = p
      <4>1. /\ i + 1 \in 1..Len(pipes[p]) /\ j + 1 \in 1..Len(pipes[p]) /\ i + 1 < j + 1
            /\ pipes'[q][i] = pipes[p][i + 1] /\ pipes'[q][j] = pipes[p][j + 1]
        BY <2>1, <2>2, <3>2
      <4> QED BY <4>1 DEF PipesInOrder
    <3> QED BY <3>1, <3>2
  <2> QED BY <2>2 DEF PipesInOrder
<1> QED
  BY <1>1, <1>2, <1>3, StepKinds DEF Answer, Opened, Clear, Handle, AppendMessage,
     server

\* Each message in what the server wrote comes before what follows it there and
\* in the pipes.
LEMMA NextDownInOrder ==
  ASSUME TypeInv, WaySound, PipesInOrder, DownInOrder, DownThenPipes, [Next]_vars
  PROVE  DownInOrder' /\ DownThenPipes'
<1> USE Lengths
<1>1. CASE UNCHANGED <<pipes, down>>
  BY <1>1 DEF DownInOrder, DownThenPipes, IsNote, Before
<1>2. ASSUME NEW p \in Posters, NEW r \in Routes, Posts(p, r), UNCHANGED down
      PROVE  DownInOrder' /\ DownThenPipes'
  <2>1. DownInOrder'
    BY <1>2 DEF DownInOrder, IsNote, Before
  <2>2. PICK x \in Message :
          /\ x.n = posts + 1
          /\ \A q \in Posters : q # p => pipes'[q] = pipes[q]
          /\ Len(pipes'[p]) = Len(pipes[p]) + 1 /\ pipes'[p][Len(pipes[p]) + 1] = x
          /\ \A j \in 1..Len(pipes[p]) : pipes'[p][j] = pipes[p][j]
    BY <1>2, PostEffect
  <2>3. ASSUME NEW i \in 1..Len(down'), NEW q \in Posters, NEW j \in 1..Len(pipes'[q]), IsNote(i)'
        PROVE  Before(down'[i].message, pipes'[q][j])
    <3>1. i \in 1..Len(down) /\ IsNote(i) /\ down'[i] = down[i]
      BY <1>2, <2>3 DEF IsNote
    <3>2. CASE q # p \/ j \in 1..Len(pipes[p])
      BY <2>2, <3>1, <3>2 DEF DownThenPipes
    <3>3. CASE q = p /\ j \notin 1..Len(pipes[p])
      <4>1. pipes'[q][j] = x
        BY <2>2, <3>3
      <4>2. down[i].message.n < x.n
        BY <2>2, <3>1, SMTT(30) DEF WaySound, TypeInv
      <4> QED BY <3>1, <4>1, <4>2 DEF Before
    <3> QED BY <3>2, <3>3
  <2> QED BY <2>1, <2>3 DEF DownThenPipes, Before
<1>3. CASE Answer
  <2>1. /\ UNCHANGED pipes /\ Len(down') = Len(down) + 1
        /\ \A i \in 1..Len(down) : down'[i] = down[i] /\ (IsNote(i)' <=> IsNote(i))
        /\ \A i \in 1..Len(down') : i > Len(down) => ~IsNote(i)'
    BY <1>3, AnswerEffect
  <2>2. DownInOrder'
    BY <2>1 DEF DownInOrder, Before
  <2>3. DownThenPipes'
    BY <2>1, SMTT(30) DEF DownThenPipes, Before
  <2> QED BY <2>2, <2>3
<1>4. ASSUME NEW p \in Posters, Forward(p) PROVE DownInOrder' /\ DownThenPipes'
  <2>1. /\ Len(down') = Len(down) + 1 /\ Len(pipes[p]) > 0
        /\ down'[Len(down) + 1].message = pipes[p][1]
        /\ \A i \in 1..Len(down) : down'[i] = down[i] /\ (IsNote(i)' <=> IsNote(i))
        /\ Len(pipes'[p]) = Len(pipes[p]) - 1
        /\ \A j \in 1..Len(pipes'[p]) : pipes'[p][j] = pipes[p][j + 1]
        /\ \A q \in Posters : q # p => pipes'[q] = pipes[q]
    BY <1>4, ForwardEffect
  <2>2. ASSUME NEW i \in 1..Len(down'), NEW j \in 1..Len(down'), i < j, IsNote(i)', IsNote(j)'
        PROVE  Before(down'[i].message, down'[j].message)
    <3>1. i \in 1..Len(down) /\ down'[i] = down[i] /\ IsNote(i)
      BY <2>1, <2>2
    <3>2. CASE j \in 1..Len(down)
      BY <2>1, <2>2, <3>1, <3>2 DEF DownInOrder
    <3>3. CASE j \notin 1..Len(down)
      <4>1. down'[j].message = pipes[p][1] /\ 1 \in 1..Len(pipes[p])
        BY <2>1, <3>3
      <4> QED BY <3>1, <4>1 DEF DownThenPipes
    <3> QED BY <3>2, <3>3
  <2>3. ASSUME NEW i \in 1..Len(down'), NEW q \in Posters, NEW j \in 1..Len(pipes'[q]), IsNote(i)'
        PROVE  Before(down'[i].message, pipes'[q][j])
    <3>1. PICK k \in 1..Len(pipes[q]) :
            pipes'[q][j] = pipes[q][k] /\ (q = p => k = j + 1)
      <4>1. CASE q = p
        <5>1. j + 1 \in 1..Len(pipes[q]) /\ pipes'[q][j] = pipes[q][j + 1]
          BY <2>1, <4>1
        <5> QED BY <5>1
      <4>2. CASE q # p
        <5>1. j \in 1..Len(pipes[q]) /\ pipes'[q][j] = pipes[q][j]
          BY <2>1, <4>2
        <5> QED BY <4>2, <5>1
      <4> QED BY <4>1, <4>2
    <3>2. CASE i \in 1..Len(down)
      BY <2>1, <2>3, <3>1, <3>2 DEF DownThenPipes
    <3>3. CASE i \notin 1..Len(down)
      <4>1. down'[i].message = pipes[p][1] /\ pipes[p][1].by = p /\ pipes[q][k].by = q
        BY <2>1, <3>1, <3>3 DEF WaySound
      <4>2. q = p => pipes[p][1].n < pipes[q][k].n
        BY <2>1, <3>1 DEF PipesInOrder
      <4> QED BY <3>1, <4>1, <4>2 DEF Before
    <3> QED BY <3>2, <3>3
  <2> QED BY <2>2, <2>3 DEF DownInOrder, DownThenPipes, Before
<1>5. CASE Handle
  <2>1. /\ UNCHANGED pipes /\ Len(down) > 0 /\ Len(down') = Len(down) - 1
        /\ \A i \in 1..Len(down') : down'[i] = down[i + 1] /\ (IsNote(i)' <=> IsNote(i + 1))
    BY <1>5, HandleEffect DEF server
  <2>2. \A i \in 1..Len(down') : i + 1 \in 1..Len(down)
    BY <2>1
  <2>3. DownInOrder'
    BY <2>1, <2>2 DEF DownInOrder, Before
  <2>4. DownThenPipes'
    BY <2>1, <2>2 DEF DownThenPipes, Before
  <2> QED BY <2>3, <2>4
<1> QED
  BY <1>1, <1>2, <1>3, <1>4, <1>5, StepKinds DEF Opened, Clear, AppendMessage,
     server
\* The message in the reader thread's hands comes before what is on its way.
LEMMA NextReaderThenRest ==
  ASSUME TypeInv, WaySound, InOrder, [Next]_vars
  PROVE  ReaderThenRest'
<1> USE Lengths
<1>1. CASE UNCHANGED reader
  <2>1. CASE reader # None
    <3>1. reader \in Message /\ reader.n \in 1..posts /\ AllAfter(reader)
      BY <2>1 DEF TypeInv, WaySound, InOrder, ReaderThenRest
    <3>2. PICK m \in Message : m = reader
      BY <3>1
    <3>3. AllAfter(m)'
      BY <3>1, <3>2, AfterStays
    <3> QED BY <1>1, <3>2, <3>3 DEF ReaderThenRest, AllAfter, IsNote, Before
  <2> QED BY <1>1, <2>1 DEF ReaderThenRest
<1>2. CASE Handle /\ reader' # None
  <2>1. Len(down) > 0 /\ IsNote(1) /\ reader' = down[1].message /\ 1 \in 1..Len(down)
    BY <1>2, HandleEffect
  <2>2. PICK m \in Message : m = down[1].message
    BY <2>1
  <2>3. UNCHANGED pipes
    BY <1>2, HandleEffect DEF server
  <2>4. /\ Len(down') = Len(down) - 1
        /\ \A i \in 1..Len(down') : down'[i] = down[i + 1] /\ (IsNote(i)' <=> IsNote(i + 1))
    BY <1>2, HandleEffect
  <2>5. ASSUME NEW i \in 1..Len(down'), IsNote(i)' PROVE Before(m, down'[i].message)
    <3>1. i + 1 \in 1..Len(down) /\ 1 < i + 1 /\ IsNote(i + 1) /\ down'[i] = down[i + 1]
      BY <2>4, <2>5
    <3> QED BY <2>1, <2>2, <3>1 DEF InOrder, DownInOrder
  <2>6. \A p \in Posters : \A j \in 1..Len(pipes'[p]) : Before(m, pipes'[p][j])
    BY <2>1, <2>2, <2>3 DEF InOrder, DownThenPipes
  <2> QED BY <2>1, <2>2, <2>5, <2>6 DEF ReaderThenRest, AllAfter, IsNote, Before
<1>3. CASE reader' = None
  BY <1>3 DEF ReaderThenRest
<1> QED
  BY <1>1, <1>2, <1>3, StepKinds DEF Answer, Forward, Opened, Clear, AppendMessage

\* The messages shown since the chat was opened are in order, and come before
\* what is on its way.
LEMMA NextLiveOrder ==
  ASSUME TypeInv, WaySound, InOrder, LiveOrder, HistoryShown, [Next]_vars
  PROVE  LiveThenRest' /\ LiveOrder'
<1> USE Lengths
<1>1. /\ Len(shown) \in Nat /\ base \in Nat /\ Len(shown') \in Nat /\ base' \in Nat
      /\ base <= Len(shown)
  BY NextTypes, LenProperties DEF TypeInv, HistoryShown
<1>2. ASSUME NEW k \in (base + 1)..Len(shown)
      PROVE  /\ shown[k] \in Message /\ AllAfter(shown[k])
             /\ \A m \in Message : m = shown[k] => AllAfter(m)'
             /\ reader # None => Before(shown[k], reader)
  <2>1. k \in 1..Len(shown)
    BY <1>1
  <2>2. shown[k] \in Message /\ shown[k].n \in 1..posts
    BY <2>1 DEF WaySound
  <2>3. AllAfter(shown[k]) /\ (reader # None => Before(shown[k], reader))
    BY DEF InOrder, LiveThenRest
  <2> QED BY <2>2, <2>3, AfterStays
\* a chat that is opened or closed shows nothing live
<1>3. ASSUME base' = Len(shown') PROVE LiveThenRest' /\ LiveOrder'
  BY <1>1, <1>3 DEF LiveThenRest, LiveOrder
\* what stays shown stays in order
<1>4. ASSUME NEW k \in (base + 1)..Len(shown), shown'[k] = shown[k],
             reader' # None => Before(shown[k], reader')
      PROVE  AllAfter(shown[k])' /\ (reader' # None => Before(shown[k], reader)')
  <2>1. PICK m \in Message : m = shown[k]
    BY <1>2
  <2>2. AllAfter(m)'
    BY <1>2, <2>1
  <2> QED BY <1>4, <2>1, <2>2 DEF AllAfter, IsNote, Before
<1>5. ASSUME UNCHANGED <<shown, base>>,
             \A k \in (base + 1)..Len(shown) : reader' # None => Before(shown[k],
             reader')
      PROVE  LiveThenRest' /\ LiveOrder'
  <2>1. LiveOrder'
    BY <1>5 DEF LiveOrder
  <2>2. LiveThenRest'
    BY <1>4, <1>5 DEF LiveThenRest
  <2> QED BY <2>1, <2>2
<1>6. CASE UNCHANGED <<reader, view>>
  BY <1>2, <1>5, <1>6 DEF view
<1>7. CASE Opened
  <2>1. UNCHANGED reader
    BY <1>7 DEF Opened
  <2>2. CASE UNCHANGED view
    BY <1>6, <2>1, <2>2
  <2>3. CASE base' = Len(shown')
    BY <1>3, <2>3
  <2>4. shown' = <<>> /\ base' = 0 => base' = Len(shown')
    BY EmptySeq
  <2> QED BY <1>7, <2>2, <2>3, <2>4, OpenedEffect
<1>8. CASE Clear
  <2>1. base' = Len(shown')
    BY <1>8, EmptySeq DEF Clear
  <2> QED BY <1>3, <2>1
<1>9. CASE Handle
  <2>1. UNCHANGED <<shown, base>>
    BY <1>9 DEF Handle, view
  <2>2. ASSUME NEW k \in (base + 1)..Len(shown), reader' # None
        PROVE  Before(shown[k], reader')
    <3>1. Len(down) > 0 /\ IsNote(1) /\ reader' = down[1].message /\ 1 \in 1..Len(down)
      BY <1>9, <2>2, HandleEffect
    <3> QED BY <1>2, <3>1 DEF AllAfter
  <2> QED BY <1>5, <2>1, <2>2
<1>10. CASE AppendMessage
  <2>1. /\ reader \in Message /\ reader' = None /\ UNCHANGED <<base, down, pipes>>
        /\ \A i \in 1..Len(shown) : shown'[i] = shown[i]
        /\ \/ Len(shown') = Len(shown) + 1 /\ shown'[Len(shown) + 1] = reader
           \/ shown' = shown
    BY <1>10, AppendEffect DEF server
  <2>2. CASE shown' = shown
    BY <1>5, <2>1, <2>2
  <2>3. CASE Len(shown') = Len(shown) + 1 /\ shown'[Len(shown) + 1] = reader
    <3>1. ASSUME NEW k \in (base + 1)..Len(shown') PROVE AllAfter(shown[k])'
      <4>1. CASE k \in (base + 1)..Len(shown)
        BY <1>1, <1>4, <2>1, <4>1
      <4>2. CASE k \notin (base + 1)..Len(shown)
        <5>1. shown'[k] = reader
          BY <1>1, <2>1, <2>3, <4>2
        <5>2. AllAfter(reader)
          BY <1>10 DEF AppendMessage, InOrder, ReaderThenRest
        <5> QED BY <2>1, <5>1, <5>2 DEF AllAfter, IsNote, Before
      <4> QED BY <4>1, <4>2
    <3>2. LiveThenRest'
      BY <2>1, <3>1 DEF LiveThenRest
    <3>3. ASSUME NEW i \in (base + 1)..Len(shown'), NEW j \in (base + 1)..Len(shown'),
                 i < j, shown'[i].by = shown'[j].by
          PROVE  shown'[i].n < shown'[j].n
      <4>1. i \in (base + 1)..Len(shown) /\ shown'[i] = shown[i]
        BY <1>1, <2>1, <2>3, <3>3
      <4>2. CASE j \in (base + 1)..Len(shown)
        <5>1. shown'[j] = shown[j]
          BY <1>1, <2>1, <4>2
        <5> QED BY <3>3, <4>1, <4>2, <5>1 DEF LiveOrder
      <4>3. CASE j \notin (base + 1)..Len(shown)
        <5>1. shown'[j] = reader
          BY <1>1, <2>1, <2>3, <4>3
        <5>2. Before(shown[i], reader)
          BY <1>2, <1>10, <4>1 DEF AppendMessage
        <5> QED BY <3>3, <4>1, <5>1, <5>2 DEF Before
      <4> QED BY <4>2, <4>3
    <3>4. LiveOrder'
      BY <2>1, <3>3 DEF LiveOrder
    <3> QED BY <3>2, <3>4
  <2> QED BY <2>1, <2>2, <2>3
<1> QED
  BY <1>6, <1>7, <1>8, <1>9, <1>10, StepKinds DEF Answer, Forward, view
-----------------------------------------------------------------------------
(* The theorems. *)

\* The invariant holds at the start, and every step keeps it.
LEMMA Invariant == Spec => []IInv
<1>1. Init => IInv
  <2> SUFFICES ASSUME Init PROVE IInv
    OBVIOUS
  <2> USE EmptySeq
  <2>1. /\ log \in [Routes -> Seq(Message)] /\ pipes \in [Posters -> Seq(Message)]
        /\ up \in Seq(Request) /\ down \in Seq(Response \cup Notice) /\ shown \in Seq(Message)
        /\ Len(down) = 0 /\ Len(shown) = 0
        /\ \A r \in Routes : Len(log[r]) = 0
        /\ \A p \in Posters : Len(pipes[p]) = 0
    BY DEF Init
  <2>2. TypeInv
    BY <2>1 DEF Init, TypeInv
  <2>3. LogSound /\ WaySound /\ HistoriesSound
    BY <2>1 DEF Init, LogSound, WaySound, HistoriesSound
  <2>4. InOrder
    BY <2>1 DEF Init, InOrder, PipesInOrder, DownInOrder, DownThenPipes,
       ReaderThenRest,
       LiveThenRest
  <2>5. OnTheWay /\ HistoryShown
    BY <2>1, ViewAssumption DEF Init, OnTheWay, HistoryShown
  <2>6. OneAnswer
    BY <2>1 DEF Init, OneAnswer, NoneDown
  <2>7. StrayIsFirst /\ LiveOrder /\ RightUnlessOverlap
    BY <2>1 DEF Init, StrayIsFirst, LiveOrder, RightUnlessOverlap
  <2> QED BY <2>2, <2>3, <2>4, <2>5, <2>6, <2>7 DEF IInv
<1>2. IInv /\ [Next]_vars => IInv'
  BY NextTypes, NextLogSound, NextWaySound, NextPipesInOrder, NextDownInOrder,
     NextReaderThenRest, NextLiveOrder, NextOnTheWay, NextHistoriesSound,
     NextHistoryShown,
     NextStray, NextOneAnswer, NextRight
  DEF IInv, InOrder
<1> QED BY <1>1, <1>2, PTL DEF Spec

\* With nothing under way, a message that is due is shown.
THEOREM NothingIsLost == Spec => []NoneLost
<1>1. IInv => NoneLost
  <2>1. SUFFICES ASSUME IInv, AtRest, NEW n \in 1..posts, Due(n), ~Full PROVE Seen(n)
    BY DEF NoneLost
  <2> USE Lengths DEF IInv
  <2>2. current # None /\ current \in Routes
    BY <2>1 DEF Due, TypeInv
  <2>3. PICK m \in ToSet(log[current]) : m.n = n /\ (m.by # Me \/ current \in Chats)
    BY <2>1 DEF Due
  <2>4. PICK k \in 1..Len(log[current]) : m = log[current][k]
    BY <2>1, <2>2, LenProperties DEF ToSet
  <2>5. m \in Message /\ m.by \in Posters
    BY <2>1, <2>2, <2>4 DEF Message
  <2>6. Comes(m)
    BY <2>1, <2>2, <2>3, <2>4 DEF OnTheWay, Due
  <2>7. \E i \in 1..Len(shown) : shown[i] = m
    BY <2>1, <2>5, <2>6, EmptySeq, Kinds DEF Comes, AtRest
  <2> QED BY <2>3, <2>7 DEF Seen
<1> QED BY <1>1, Invariant, PTL

\* A message is shown once in the history and once after it, at most.
THEOREM ShownTwiceAtMost == Spec => []TwiceOnlyIfRead
<1>1. IInv => TwiceOnlyIfRead
  <2>1. SUFFICES ASSUME IInv, right, current # None, NEW k \in 1..Len(log[current])
                 PROVE  Cardinality({i \in 1..Len(shown) : shown[i] = log[current][k]})
                          <= IF k <= read THEN 2 ELSE 1
    BY DEF TwiceOnlyIfRead
  <2> USE Lengths DEF IInv
  <2> DEFINE S == {i \in 1..Len(shown) : shown[i] = log[current][k]}
  <2>2. /\ current \in Routes /\ base \in Nat /\ read \in Nat /\ Len(shown) \in Nat
        /\ Len(log[current]) \in Nat
    BY <2>1 DEF TypeInv
  <2>3. \A i \in S : i <= base => i = k /\ k <= read
    <3>1. SUFFICES ASSUME NEW i \in 1..Len(shown), shown[i] = log[current][k], i <= base
                   PROVE  i = k /\ k <= read
      OBVIOUS
    <3>2. i \in 1..Len(log[current]) /\ shown[i] = log[current][i] /\ base <= read
      BY <2>1, <2>2, <3>1 DEF HistoryShown
    <3>3. i = k
      BY <2>1, <2>2, <3>1, <3>2 DEF LogSound
    <3> QED BY <2>2, <3>1, <3>2, <3>3
  <2>4. \A i, j \in S : i > base /\ j > base => i = j
    <3>1. SUFFICES ASSUME NEW i \in S, NEW j \in S, i > base, j > base, i < j PROVE FALSE
      BY <2>2
    <3>2. /\ i \in (base + 1)..Len(shown) /\ j \in (base + 1)..Len(shown)
          /\ shown[i] = shown[j]
      BY <2>2, <3>1
    <3>3. shown[i].n < shown[j].n /\ shown[i] \in Message
      BY <2>1, <2>2, <3>1, <3>2 DEF LiveOrder
    <3> QED BY <3>2, <3>3 DEF Message
  <2>5. PICK l : \A i \in S : i > base => i = l
    BY <2>4
  <2>6. S \subseteq {k, l} /\ (~(k <= read) => S \subseteq {l})
    BY <2>2, <2>3, <2>5
  <2>7. IsFiniteSet({k, l}) /\ Cardinality({k, l}) <= 2
    <3>1. IsFiniteSet({l}) /\ Cardinality({l}) = 1
      BY FS_Singleton
    <3>2. {k, l} = {l} \cup {k}
      OBVIOUS
    <3>3. IsFiniteSet({l} \cup {k}) /\ Cardinality({l} \cup {k}) <= 2
      <4>1. PICK T : T = {l}
        OBVIOUS
      <4>2. IsFiniteSet(T) /\ Cardinality(T) = 1
        BY <3>1, <4>1
      <4>3. /\ IsFiniteSet(T \cup {k})
            /\ Cardinality(T \cup {k}) = IF k \in T THEN Cardinality(T) ELSE Cardinality(T) + 1
        BY <4>2, FS_AddElement
      <4>4. Cardinality(T \cup {k}) <= 2
        BY <4>2, <4>3
      <4> QED BY <4>1, <4>3, <4>4
    <3> QED BY <3>2, <3>3
  <2>8. IsFiniteSet({l}) /\ Cardinality({l}) = 1
    BY FS_Singleton
  <2>9. /\ Cardinality(S) \in Nat /\ Cardinality({k, l}) \in Nat
        /\ Cardinality(S) <= Cardinality({k, l})
        /\ ~(k <= read) => Cardinality(S) <= 1
    BY <2>6, <2>7, <2>8, FS_Subset, FS_CardinalityType
  <2> QED BY <2>7, <2>9
<1> QED BY <1>1, Invariant, PTL

\* One message at most is shown in a chat it does not belong to.
THEOREM OneStrayAtMost == Spec => []StrayIsFirst
<1>1. IInv => StrayIsFirst
  BY DEF IInv
<1> QED BY <1>1, Invariant, PTL

\* The live messages of a user are shown in the order he posted them.
THEOREM LiveInOrder == Spec => []LiveOrder
<1>1. IInv => LiveOrder
  BY DEF IInv
<1> QED BY <1>1, Invariant, PTL

\* Without a post during the loading of a history, the history is the right one.
THEOREM RightHistory == Spec => []RightUnlessOverlap
<1>1. IInv => RightUnlessOverlap
  BY DEF IInv
<1> QED BY <1>1, Invariant, PTL
=============================================================================
