-------------------------- MODULE MessageHandlers --------------------------
(***************************************************************************)
(* The request handlers for messages (server/handlers/message_handler.c),  *)
(* executed by the children next to the handlers of ChatHandlers, on whose *)
(* files they look.  A history is a file of its own; what a child notifies *)
(* is what it writes to its pipe (NotifyServer takes it from there).       *)
(***************************************************************************)
EXTENDS ChatHandlers, SequencesExt

CONSTANTS
  Served,    \* the requests of ChatHandlers that occur
  Messages   \* the requests of this module that occur

MessageRequest == [kind : {"post", "read"}, chat : BOOLEAN, to : Names \cup Logins, by : Logins]

ASSUME MessagesAssumption ==
  /\ Served \subseteq Kinds /\ Messages \subseteq MessageRequest
  /\ \A r \in Messages : r.to \in (IF r.chat THEN Names ELSE Logins)

VARIABLES
  history,  \* the array of each history's file
  mreq,     \* the message request each child handles
  told      \* notifications written: who is told of which message

mvars == <<history, mreq, told>>
allvars == <<vars, mvars>>

\* two users share one history; a chat's is named by the chat
Dialog(a, b) == {a, b}
Histories == Names \cup {Dialog(a, b) : a \in Logins, b \in Logins}
HistoryOf(r) == IF r.chat THEN r.to ELSE Dialog(r.by, r.to)
\* one message: the child that stored it and which of its requests that was
Message == [by : Logins, child : Procs, n : 1..MaxCalls]
Mine(p) == [by |-> mreq[p].by, child |-> p, n |-> calls[p]]

MInit ==
  /\ Init
  /\ history = [h \in Histories |-> <<>>] /\ told = {}
  /\ mreq = [p \in Procs |-> CHOOSE r \in MessageRequest : TRUE]
-----------------------------------------------------------------------------
\* dispatch: /chats/{name}/messages and /users/{login}/messages, with a token
ReceiveMessage(p, r) ==
  /\ calls[p] < MaxCalls /\ r.by \in tokens
  /\ Goto(p, "idle", "target") /\ mreq' = [mreq EXCEPT ![p] = r]
  /\ calls' = [calls EXCEPT ![p] = @ + 1]
  /\ code' = [code EXCEPT ![p] = "none"] /\ answer' = [answer EXCEPT ![p] = {}]
  /\ UNCHANGED <<files, req, info, history, told>>

TargetExists(r, us, cs) == IF r.chat THEN ChatExists(cs, r.to) ELSE UserExists(us, r.to)
\* mutant: the notification comes before the message is stored
TellFirst(r) == IF r.kind = "post" THEN "tell" ELSE "load"
AfterCheck(r) == IF r.kind = "post" THEN "store" ELSE "load"

\* repo_chat_exists, repo_user_exists
CheckTarget(p) ==
  /\ \E us \in Loaded(users), cs \in Loaded(chats) :
       IF TargetExists(mreq[p], us, cs) THEN Continue(p, "target", AfterCheck(mreq[p]))
                                        ELSE Reply(p, "target", "notfound")
  /\ UNCHANGED <<files, req, answer, info, calls, mvars>>

\* mutant: the newest message replaces the history
Replaced(h, m) == <<m>>
Stored(h, m) == Append(h, m)

\* repo_msg_save_chat, repo_msg_save_private; what is not stored is not notified
StoreMessage(p) ==
  /\ \/ /\ history' = [history EXCEPT ![HistoryOf(mreq[p])] = Stored(@, Mine(p))]
        /\ Continue(p, "store", "tell")
     \/ FilesFail /\ Reply(p, "store", "internal") /\ UNCHANGED history
  /\ UNCHANGED <<files, req, answer, info, calls, mreq, told>>

\* who is told: both users of a dialog, or whom the chat has as members by now
Audience(r, cs) ==
  IF r.chat THEN UNION {MembersOf(cs[i]) : i \in {j \in 1..Len(cs) : IsFirstChat(cs, j, r.to)}}
            ELSE {r.to, r.by}

\* notify_new_chat_message, notify_new_private_message
TellMessage(p) ==
  /\ Reply(p, "tell", "ok")
  /\ \E cs \in Loaded(chats) :
       told' = told \cup {[to |-> l, history |-> HistoryOf(mreq[p]), message |-> Mine(p)] :
                            l \in Audience(mreq[p], cs)}
  /\ UNCHANGED <<files, req, answer, info, calls, history, mreq>>

\* repo_msg_get_chat, repo_msg_get_private
LoadHistory(p) ==
  /\ Reply(p, "load", "ok")
  /\ \E h \in Loaded(history[HistoryOf(mreq[p])]) : answer' = [answer EXCEPT ![p] = ToSet(h)]
  /\ UNCHANGED <<files, req, info, calls, mvars>>

HandleMessage(p) == CheckTarget(p) \/ StoreMessage(p) \/ TellMessage(p) \/ LoadHistory(p)

MNext ==
  \E p \in Procs :
    \/ HandleMessage(p) \/ \E r \in Messages : ReceiveMessage(p, r)
    \/ Handle(p) /\ UNCHANGED mvars
    \/ \E r \in {q \in Requests : q.kind \in Served} : Receive(p, r) /\ UNCHANGED mvars

MSpec == MInit /\ [][MNext]_allvars
-----------------------------------------------------------------------------
\* The types of the variables, and that of one child's requests each is stored
\* once at most.
MTypeOK ==
  /\ TypeOK
  /\ \A h \in Histories : history[h] \in Seq(Message) /\ IsInjective(history[h])
  /\ mreq \in [Procs -> MessageRequest]
  /\ told \subseteq [to : Logins, history : Histories, message : Message]

\* Whoever is told of a message finds it in the history: no notification is
\* written of a message that was not stored, or that another child's post to
\* the same history has replaced.
ToldIsStored == \A t \in told : t.message \in ToSet(history[t.history])

\* A history only grows, by one message at a time, whatever happens to its
\* chat meanwhile: posts that overlap are not lost.
HistoryGrows ==
  [][\A h \in Histories :
       \/ history'[h] = history[h]
       \/ \E m \in Message : history'[h] = Append(history[h], m)]_allvars
=============================================================================
