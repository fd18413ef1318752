----------------------------- MODULE ClientApi -----------------------------
(***************************************************************************)
(* The client's end of its connection (client/api): callers of             *)
(* send_and_wait share the socket and one response slot, and one reader    *)
(* thread takes lines off the socket, stores responses in the slot and     *)
(* runs the notification callback, which may itself call send_and_wait.    *)
(*                                                                         *)
(* write_message writes the data of a message and its newline separately,  *)
(* and nothing orders two writers of one socket: neither the client's      *)
(* threads, nor at the other end the child that answers and the parent     *)
(* that notifies.  A line can so hold the data of several messages, or of  *)
(* none; whoever parses it sees the first.                                 *)
(***************************************************************************)
EXTENDS Naturals, Sequences, SequencesExt

CONSTANTS
  Threads,      \* the main thread and the threads of commands and messages
  Reader,       \* the reader thread
  MaxCalls,     \* bounds on the calls of each thread
  MaxNotes,     \* bound on the notifications of the parent
  NoteKinds,    \* which of them come: a subset of {"message", "members"}
  LongAnswers,  \* whether an answer may be longer than the client's buffer
  ServerEnds    \* whether the server may close the connection

ASSUME ApiAssumption ==
  /\ Reader \notin Threads /\ MaxCalls \in [Threads -> Nat] /\ MaxNotes \in Nat
  /\ NoteKinds \subseteq {"message", "members"}
  /\ LongAnswers \in BOOLEAN /\ ServerEnds \in BOOLEAN

Callers == Threads \cup {Reader}

\* what is written at once: the data of a message, or a newline
Request(c, n) == [kind |-> "request", by |-> c, n |-> n]
Response(c, n, long) == [kind |-> "response", by |-> c, n |-> n, long |-> long]
BadRequest == [kind |-> "bad"]   \* the answer to a line that does not parse
Note(k) == [kind |-> k]
Newline == [kind |-> "newline"]
Idle == [kind |-> "idle"]        \* the child writes nothing

VARIABLES
  pc,      \* where each caller is in send_and_wait, or "idle"
  calls,   \* its calls so far
  ready, pending,  \* g_response_ready, g_pending_response
  up,      \* what was written to the server and not read
  down,    \* what was written to the client and not read
  child,   \* the answer the child is writing, and whether its data is out
  parent,  \* whether the parent has a newline to write
  notes,   \* notifications sent so far
  reading, \* whether the reader thread is running
  open,    \* whether the server has the connection open
  fresh,   \* callers since whose reset the reader stored a response
  clean    \* callers whose call nothing has disturbed

slot == <<ready, pending>>
server == <<child, parent, notes, open>>
vars == <<pc, calls, slot, up, down, server, reading, fresh, clean>>

Init ==
  /\ pc = [c \in Callers |-> "idle"] /\ calls = [c \in Callers |-> 0]
  /\ ready = FALSE /\ pending = Idle
  /\ up = <<>> /\ down = <<>>
  /\ child = [answer |-> Idle, sent |-> FALSE] /\ parent = FALSE /\ notes = 0
  /\ reading = TRUE /\ open = TRUE
  /\ fresh = {} /\ clean = {}

InCall == {c \in Callers : pc[c] # "idle"}
Goto(c, from, to) == pc[c] = from /\ pc' = [pc EXCEPT ![c] = to]
Disturb == clean' = {}
-----------------------------------------------------------------------------
(* Lines. *)

Newlines(s) == {i \in 1..Len(s) : s[i] = Newline}
HasLine(s) == Newlines(s) # {}
LineEnd(s) == CHOOSE i \in Newlines(s) : \A j \in Newlines(s) : i <= j
DropLine(s) == SubSeq(s, LineEnd(s) + 1, Len(s))
\* what the parser makes of the first line
Parsed(s) == s[1]

\* no more than the buffer holds comes before the first newline
Overflows(s) ==
  \E i \in 1..Len(s) : /\ s[i].kind = "response" /\ s[i].long
                       /\ \A j \in 1..i : s[j] # Newline
-----------------------------------------------------------------------------
(* send_and_wait. *)

\* the first lock: g_response_ready = 0
ResetForgotten == UNCHANGED slot
Reset == ready' = FALSE /\ UNCHANGED pending

\* nothing else is under way that could disturb the call
Quiet ==
  /\ InCall = {} /\ up = <<>> /\ child.answer = Idle /\ reading /\ open
  /\ ~parent /\ \A i \in 1..Len(down) : down[i].kind \in {"message", "newline"}

Enter(c) ==
  /\ Goto(c, "idle", "data") /\ Reset
  /\ calls' = [calls EXCEPT ![c] = @ + 1]
  /\ fresh' = fresh \ {c} /\ clean' = IF Quiet THEN {c} ELSE {}

Begin(t) ==
  /\ calls[t] < MaxCalls[t] /\ Enter(t)
  /\ UNCHANGED <<up, down, server, reading>>

\* writing to a closed connection goes nowhere, or ends the client
Sent(c, from, to, piece) ==
  /\ Goto(c, from, to)
  /\ up' = IF open THEN Append(up, piece) ELSE up
  /\ UNCHANGED <<calls, slot, down, server, reading, fresh, clean>>

SendData(c) == Sent(c, "data", "newline", Request(c, calls[c]))
SendNewline(c) == Sent(c, "newline", "check", Newline)

\* the second lock: take the response that is there, or wait for the signal
Take(c) ==
  /\ ready /\ Goto(c, "check", "idle")
  /\ UNCHANGED <<calls, slot, up, down, server, reading, fresh, clean>>

Sleep(c) ==
  /\ ~ready /\ Goto(c, "check", "asleep")
  /\ UNCHANGED <<calls, slot, up, down, server, reading, fresh, clean>>

\* pthread_cond_wait may also return without a signal
Spurious(c) ==
  /\ Goto(c, "asleep", "check")
  /\ UNCHANGED <<calls, slot, up, down, server, reading, fresh, clean>>
-----------------------------------------------------------------------------
(* The reader thread. *)

\* parse_message_kind; mutant: whatever is not a request is a response
NoRequest(m) == m # Newline
IsResponse(m) == m.kind \in {"response", "bad"}

\* reader_on_response: store it and wake one of those that wait
\* mutant: nobody is woken
SignalForgotten == UNCHANGED pc
Signal ==
  LET asleep == {c \in Callers : pc[c] = "asleep"} IN
  IF asleep = {} THEN UNCHANGED pc
  ELSE \E c \in asleep : pc' = [pc EXCEPT ![c] = "check"]

Store(r) ==
  /\ ready' = TRUE /\ pending' = r /\ Signal /\ fresh' = Callers
  /\ UNCHANGED <<calls, clean>>

\* handle_notification of a message, or of members of a chat that is not open
Show == UNCHANGED <<pc, calls, slot, fresh, clean>>

\* members of the open chat changed: api_get_member_list on this thread
Refresh == Enter(Reader)

ReaderCanRead == reading /\ pc[Reader] = "idle"

ReadLine ==
  /\ ReaderCanRead /\ HasLine(down) /\ ~Overflows(down)
  /\ down' = DropLine(down)
  /\ LET m == Parsed(down) IN
       \/ IsResponse(m) /\ Store(m)
       \/ m.kind = "message" /\ Show
       \/ m.kind = "members" /\ Refresh
       \/ m = Newline /\ UNCHANGED <<pc, calls, slot, fresh, clean>>
  /\ UNCHANGED <<up, server, reading>>

\* read_message fails: the buffer is full, or the server is gone
StopReading ==
  /\ ReaderCanRead /\ (Overflows(down) \/ (~open /\ ~HasLine(down)))
  /\ reading' = FALSE /\ Disturb
  /\ UNCHANGED <<pc, calls, slot, up, down, server, fresh>>
-----------------------------------------------------------------------------
(* The server: the child answers line by line, the parent notifies. *)

\* the child reads a line and answers the first request in it
Answer ==
  /\ open /\ child.answer = Idle /\ HasLine(up)
  /\ up' = DropLine(up)
  /\ LET r == Parsed(up) IN
       IF r = Newline
       THEN child' = [child EXCEPT !.answer = BadRequest] /\ UNCHANGED clean
       ELSE \E long \in {FALSE, LongAnswers} :
              /\ child' = [child EXCEPT !.answer = Response(r.by, r.n, long)]
              /\ clean' = IF long THEN {} ELSE clean
  /\ UNCHANGED <<pc, calls, slot, down, parent, notes, open, reading, fresh>>

\* the two writers of the client's socket get into one line
AnswerData ==
  /\ open /\ child.answer # Idle /\ ~child.sent
  /\ down' = Append(down, child.answer) /\ child' = [child EXCEPT !.sent = TRUE]
  /\ clean' = IF parent THEN {} ELSE clean
  /\ UNCHANGED <<pc, calls, slot, up, parent, notes, open, reading, fresh>>

AnswerNewline ==
  /\ open /\ child.sent
  /\ down' = Append(down, Newline) /\ child' = [answer |-> Idle, sent |-> FALSE]
  /\ UNCHANGED <<pc, calls, slot, up, parent, notes, open, reading, fresh, clean>>

NotifyData(k) ==
  /\ open /\ ~parent /\ notes < MaxNotes
  /\ notes' = notes + 1 /\ parent' = TRUE
  /\ down' = Append(down, Note(k))
  /\ clean' = IF child.sent \/ k = "members" THEN {} ELSE clean
  /\ UNCHANGED <<pc, calls, slot, up, child, open, reading, fresh>>

NotifyNewline ==
  /\ open /\ parent /\ parent' = FALSE /\ down' = Append(down, Newline)
  /\ UNCHANGED <<pc, calls, slot, up, child, notes, open, reading, fresh, clean>>

Close ==
  /\ ServerEnds /\ open /\ open' = FALSE /\ up' = <<>> /\ Disturb
  /\ UNCHANGED <<pc, calls, slot, down, child, parent, notes, reading, fresh>>

Call(c) == SendData(c) \/ SendNewline(c) \/ Take(c) \/ Sleep(c)
Read == ReadLine \/ StopReading
Child == Answer \/ AnswerData \/ AnswerNewline
Notify == NotifyNewline \/ \E k \in NoteKinds : NotifyData(k)

Next ==
  \/ \E t \in Threads : Begin(t)
  \/ \E c \in Callers : Call(c) \/ Spurious(c)
  \/ Read \/ Child \/ Notify \/ Close

Spec == Init /\ [][Next]_vars

\* threads run, and the server answers; nobody has to call, notify or wake up
FairSpec ==
  /\ Spec
  /\ \A c \in Callers : WF_vars(Call(c))
  /\ WF_vars(Read) /\ WF_vars(Child) /\ WF_vars(NotifyNewline)
-----------------------------------------------------------------------------
(* What the client's end promises. *)

Answers == [kind : {"response"}, by : Callers, n : Nat, long : BOOLEAN] \cup {BadRequest}
Notes == [kind : {"message", "members"}]

\* The types of the client's and the server's ends of the connection.
TypeOK ==
  /\ pc \in [Callers -> {"idle", "data", "newline", "check", "asleep"}]
  /\ calls \in [Callers -> Nat]
  /\ ready \in BOOLEAN /\ pending \in Answers \cup {Idle}
  /\ up \in Seq([kind : {"request"}, by : Callers, n : Nat] \cup {Newline})
  /\ down \in Seq(Answers \cup Notes \cup {Newline})
  /\ child \in [answer : Answers \cup {Idle}, sent : BOOLEAN]
  /\ parent \in BOOLEAN /\ notes \in Nat
  /\ reading \in BOOLEAN /\ open \in BOOLEAN
  /\ fresh \subseteq Callers /\ clean \subseteq Callers

\* What a caller of send_and_wait finds in the slot the reader stored after
\* the caller's own reset, even when several callers reset and wait at once:
\* no call returns a response that was there before it began.
FreshAnswer ==
  /\ \A c \in InCall : ready => c \in fresh
  /\ ready => pending # Idle

\* A call that nothing disturbed (no other call at the time, no response of an
\* earlier one still under way, no notification mixed into its answer) returns
\* the answer to its own request, whatever earlier calls went wrong.
OwnAnswer == [][\A c \in Callers : Take(c) /\ c \in clean =>
                   pending = Response(c, calls[c], FALSE)]_vars

\* A call that nothing disturbs returns.
CallsReturn ==
  \A c \in Callers : (c \in clean /\ pc[c] # "idle") ~> (c \notin clean \/ pc[c] = "idle")

\* The comment "Update member list panel if the affected chat is currently
\* open" (client/logic/notification.c): the reader thread comes back from the
\* request it makes for that.
MembersUpdated == pc[Reader] # "idle" ~> pc[Reader] = "idle"
=============================================================================
