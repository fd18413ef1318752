----------------------------- MODULE ClientView -----------------------------
(***************************************************************************)
(* What the client shows of a chat (client/logic, client/ui).  Opening a   *)
(* chat asks for its history and shows the answer; messages posted later   *)
(* reach the reader thread as notifications, which it appends to the open  *)
(* chat.  The history is read by the client's own child, a notification    *)
(* comes from the child of whoever posts through that child's pipe and the *)
(* parent: nothing orders the two, and the reader thread looks at the open *)
(* chat without a lock before it appends to it.                            *)
(*                                                                         *)
(* The client posts from a thread of its own; its calls share the response *)
(* slot with the main thread's (ClientApi has the details of a call).      *)
(***************************************************************************)
EXTENDS Naturals, Sequences, FiniteSets, SequencesExt

CONSTANTS
  Me,          \* this client's user
  Others,      \* the users it has dialogs with; each names its dialog's route
  Chats,       \* the chats it is a member of
  None,        \* no route, no answer, no message
  MaxMessages, \* messages the client keeps
  MaxPosts, MaxSwitches  \* bounds on what users do

Routes == Chats \cup Others
Posters == Others \cup {Me}
Message == [route : Routes, by : Posters, n : Nat]
Response ==
  [kind : {"history"}, by : {"main"}, route : Routes, messages : Seq(Message)]
  \cup [kind : {"refused"}, by : {"main"}, route : Routes]
  \cup [kind : {"posted"}, by : {"worker"}, route : Routes]

\* a route tells a chat from a dialog, whatever their names are
ASSUME ViewAssumption ==
  /\ Me \notin Routes /\ Chats \cap Others = {}
  /\ None \notin Routes \cup {Me} \cup Message \cup Response
  /\ MaxMessages \in Nat \ {0} /\ MaxPosts \in Nat /\ MaxSwitches \in Nat

\* requests of the client: by is the thread that waits for the answer
Get(r) == [by |-> "main", route |-> r]
Post(r) == [by |-> "worker", route |-> r]
\* answers to them
History(r, ms) == [kind |-> "history", by |-> "main", route |-> r, messages |-> ms]
Refused(r) == [kind |-> "refused", by |-> "main", route |-> r]
Posted(r) == [kind |-> "posted", by |-> "worker", route |-> r]
Note(m) == [kind |-> "note", message |-> m]

VARIABLES
  log,     \* the stored messages of each route
  posts,   \* messages posted so far
  pipes,   \* notifications for this client its poster's child wrote
  up,      \* requests on their way to the client's child
  child,   \* the answer the child is about to write
  down,    \* what the server wrote to the client
  slot,    \* g_pending_response, if g_response_ready
  main,    \* the route whose history the main thread waits for
  worker,  \* the route the posting thread posts to
  reader,  \* the message the reader thread is about to append
  current, shown,  \* g_current_chat, g_messages
  switches,  \* chats opened and closed so far
  read,    \* the length of the history that was answered
  set,     \* posts when it was shown, or the chat closed
  base,    \* its length
  right,   \* whether it was the answer to the request for it
  overlap  \* whether both threads ever waited at once

server == <<log, posts, pipes, child>>
view == <<current, shown, read, set, base, right>>
bounds == <<switches, overlap>>
vars == <<server, up, down, slot, main, worker, reader, view, bounds>>

Init ==
  /\ log = [r \in Routes |-> <<>>] /\ posts = 0
  /\ pipes = [p \in Posters |-> <<>>]
  /\ up = <<>> /\ child = None /\ down = <<>> /\ slot = None
  /\ main = None /\ worker = None /\ reader = None
  /\ current = None /\ shown = <<>>
  /\ switches = 0
  /\ read = 0 /\ set = 0 /\ base = 0 /\ right = TRUE /\ overlap = FALSE
-----------------------------------------------------------------------------
(* The server. *)

Store(p, r) ==
  LET m == [route |-> r, by |-> p, n |-> posts + 1] IN
  /\ posts' = posts + 1
  /\ log' = [log EXCEPT ![r] = Append(@, m)]
  /\ pipes' = [pipes EXCEPT ![p] = Append(@, m)]

\* the bound, the posts under way included
MayPost == posts + Cardinality({i \in 1..Len(up) : up[i].by = "worker"}) < MaxPosts

\* somebody else posts to a chat, or to this client
OtherPosts(p, r) ==
  /\ MayPost /\ r \in Chats \cup {p}
  /\ Store(p, r)
  /\ UNCHANGED <<up, child, down, slot, main, worker, reader, view, bounds>>

\* the client's child takes a request; a chat may have been deleted
Serve ==
  /\ child = None /\ up # <<>> /\ up' = Tail(up)
  /\ LET q == Head(up) IN
       IF q.by = "worker"
       THEN Store(Me, q.route) /\ child' = Posted(q.route)
       ELSE /\ child' \in {History(q.route, log[q.route])}
                          \cup (IF q.route \in Chats THEN {Refused(q.route)} ELSE {})
            /\ UNCHANGED <<log, posts, pipes>>
  /\ UNCHANGED <<down, slot, main, worker, reader, view, bounds>>

Answer ==
  /\ child # None /\ child' = None /\ down' = Append(down, child)
  /\ UNCHANGED <<log, posts, pipes, up, slot, main, worker, reader, view, bounds>>

\* mutant: the notification stays in the pipe
Keep(q) == q
Taken(q) == Tail(q)

Forward(p) ==
  /\ pipes[p] # <<>>
  /\ pipes' = [pipes EXCEPT ![p] = Taken(@)] /\ down' = Append(down, Note(Head(pipes[p])))
  /\ UNCHANGED <<log, posts, up, child, slot, main, worker, reader, view, bounds>>
-----------------------------------------------------------------------------
(* The main thread and the thread that posts. *)

\* send_and_wait until it waits
\* mutant: the answer of an earlier call stays
AskStale(q) == up' = Append(up, q) /\ UNCHANGED slot
Ask(q) == up' = Append(up, q) /\ slot' = None

\* open_selected_item, load_and_set_chat_messages
Open(r) ==
  /\ main = None /\ switches < MaxSwitches
  /\ main' = r /\ Ask(Get(r)) /\ switches' = switches + 1
  /\ overlap' = (overlap \/ worker # None)
  /\ UNCHANGED <<server, down, worker, reader, view>>

\* Enter in the chat panel: a thread posts the text to the open chat
Send ==
  /\ main = None /\ worker = None /\ current # None
  /\ MayPost
  /\ worker' = current /\ Ask(Post(current))
  /\ UNCHANGED <<server, down, main, reader, view, bounds>>

\* api_get_chat_messages keeps the first of them
Kept(ms) == SubSeq(ms, 1, IF Len(ms) < MaxMessages THEN Len(ms) ELSE MaxMessages)

\* ui_set_chat
SetChat(r, ms) ==
  /\ current' = r /\ shown' = ms /\ base' = Len(ms) /\ set' = posts

\* an answer without content that is no error counts as an empty history
Opened ==
  /\ main # None /\ slot # None /\ main' = None
  /\ CASE slot.kind = "refused" -> UNCHANGED view
       [] slot.kind = "posted"  -> SetChat(main, <<>>) /\ right' = FALSE /\ UNCHANGED read
       [] slot.kind = "history" ->
            /\ SetChat(main, Kept(slot.messages)) /\ right' = (slot.route = main)
            /\ read' = Len(slot.messages)
  /\ UNCHANGED <<server, up, down, slot, worker, reader, bounds>>

Sent ==
  /\ worker # None /\ slot # None /\ worker' = None
  /\ UNCHANGED <<server, up, down, slot, main, reader, view, bounds>>

\* /leave, and /delete of the open chat before the server agreed
Clear ==
  /\ main = None /\ current \in Chats /\ switches < MaxSwitches /\ switches' = switches + 1
  /\ current' = None /\ shown' = <<>> /\ base' = 0 /\ set' = posts /\ right' = TRUE
  /\ UNCHANGED <<server, up, down, slot, main, worker, reader, read, overlap>>
-----------------------------------------------------------------------------
(* The reader thread. *)

\* mutant: the open chat is not compared
OpenRoute(m) == current
\* mutant: always named by the sender
SenderRoute(m) == m.by
\* the route a message is shown under: a dialog is named by the sender, which
\* nobody can open when that is the client's own user
LiveRoute(m) == IF m.route \in Chats THEN m.route
                ELSE IF m.by = Me THEN Me ELSE m.by

\* handle_notification compares with the open chat; other messages go to the
\* status line
Handle ==
  /\ reader = None /\ down # <<>> /\ down' = Tail(down)
  /\ LET i == Head(down) IN
       IF i.kind = "note"
       THEN /\ reader' = IF LiveRoute(i.message) = current THEN i.message ELSE None
            /\ UNCHANGED slot
       ELSE slot' = i /\ UNCHANGED reader
  /\ UNCHANGED <<server, up, main, worker, view, bounds>>

\* mutant: the last place stays free
RoomForTwo == Len(shown) + 1 < MaxMessages
Room == Len(shown) < MaxMessages

\* ui_append_message
AppendMessage ==
  /\ reader # None /\ reader' = None
  /\ shown' = IF Room THEN Append(shown, reader) ELSE shown
  /\ UNCHANGED <<server, up, down, slot, main, worker, current, read, set, base, right, bounds>>

Read == Handle \/ AppendMessage
Child == Serve \/ Answer

Next ==
  \/ \E p \in Others, r \in Routes : OtherPosts(p, r)
  \/ \E p \in Posters : Forward(p)
  \/ \E r \in Routes : Open(r)
  \/ Child \/ Send \/ Opened \/ Sent \/ Clear \/ Read

Spec == Init /\ [][Next]_vars

\* the server serves and forwards, and the reader thread runs
FairSpec ==
  /\ Spec
  /\ WF_vars(Child) /\ WF_vars(Read) /\ \A p \in Posters : WF_vars(Forward(p))
-----------------------------------------------------------------------------
(* What is shown.  A message posted between the reading of the history and  *)
(* its display may be missing, one posted before may be shown twice.        *)

\* Full is when as many are shown as the client keeps; due are the messages
\* posted to the open chat, but one's own in a dialog show up in the history only
Full == Len(shown) = MaxMessages
Due(n) == /\ right /\ current # None /\ n > set
          /\ \E m \in ToSet(log[current]) : m.n = n /\ (m.by # Me \/ current \in Chats)
Seen(n) == \E i \in 1..Len(shown) : shown[i].n = n
AtRest == down = <<>> /\ reader = None /\ \A p \in Posters : pipes[p] = <<>>

\* Once everything under way has arrived, no message is missing that was
\* posted to the open chat after it was shown, unless the client holds as many
\* as it can: no order of history, notifications and switches loses one.
NoneLost == AtRest => \A n \in 1..posts : Due(n) => Seen(n) \/ Full

\* A message is shown at most twice, and twice only if it was in the history
\* that was read when the chat was opened.
TwiceOnlyIfRead ==
  right /\ current # None =>
    \A k \in 1..Len(log[current]) :
      Cardinality({i \in 1..Len(shown) : shown[i] = log[current][k]})
        <= IF k <= read THEN 2 ELSE 1

\* The check without a lock lets one message into a chat it does not belong
\* to: the first that is appended after the switch, and no other.
StrayIsFirst ==
  right => \A i \in 1..Len(shown) : shown[i].route # current => i = base + 1

\* The messages of one user that arrive while a chat is open are shown in the
\* order they were posted.
LiveOrder ==
  \A i, j \in (base + 1)..Len(shown) :
    i < j /\ shown[i].by = shown[j].by => shown[i].n < shown[j].n

\* A client that never posts while a history is being loaded shows under a
\* route nothing but that route's history.
RightUnlessOverlap == ~overlap => right

\* A message posted to the open chat is shown sooner or later, unless the
\* client is full or the chat is closed or loaded anew.
MessagesShown ==
  \A n \in 1..MaxPosts : Due(n) ~> (Seen(n) \/ Full \/ ~Due(n))
=============================================================================
