------------------------------- MODULE Names -------------------------------
(***************************************************************************)
(* How the names of users and chats travel: in a token (shared/auth.c), in *)
(* the routes the client makes (client/api, client/logic) and the server   *)
(* takes apart (server/client_handler.c), and in the path of the history   *)
(* two users share (server/repositories/message_repository.c).  Names may  *)
(* contain the characters these use as separators, and buffers cut them.   *)
(*                                                                         *)
(* A text is a sequence of characters, which are numbers in the order      *)
(* strcmp gives them; of the fixed words each part that can be cut off is  *)
(* one character.                                                          *)
(***************************************************************************)
EXTENDS Naturals, Sequences, FiniteSets, SequencesExt

CONSTANTS
  Users,     \* the logins
  ChatNames,
  MaxLogin,  \* MAX_LOGIN_LEN
  MaxRoute   \* MAX_ROUTE_LEN

Dash == 1
Slash == 2
Colon == 3
Letters == 4..9
Time == 10      \* a timestamp, printed
Sealed == 11    \* a signature, printed
ChatsWord == <<12>>
UsersWord == <<13, 14>>
MessagesWord == <<15, 16>>

ASSUME NamesAssumption ==
  /\ Users \cup ChatNames \subseteq Seq({Dash, Slash, Colon} \cup Letters \cup {13, 14})
  /\ MaxLogin \in Nat /\ MaxRoute \in Nat /\ <<>> \notin Users \cup ChatNames

\* strncpy and snprintf into a buffer of that size
Cut(s, size) == SubSeq(s, 1, IF Len(s) < size THEN Len(s) ELSE size - 1)
Occurs(c, s) == \E i \in 1..Len(s) : s[i] = c
\* strchr, and strrchr
FirstAt(s, c) == CHOOSE i \in 1..Len(s) : s[i] = c /\ \A j \in 1..(i - 1) : s[j] # c
LastAt(s, c) == CHOOSE i \in 1..Len(s) : s[i] = c /\ \A j \in (i + 1)..Len(s) : s[j] # c
-----------------------------------------------------------------------------
(* Tokens: "login:timestamp:signature", signed over login and timestamp.    *)

Nobody == <<>>
Sign(login, time) == <<login, time>>
Token(login) == login \o <<Colon, Time, Colon, Sealed>>

\* atol reads the timestamp only if it comes first
Number(s) == IF s # <<>> /\ Head(s) = Time THEN Time ELSE 0

\* mutant: the signature is not compared
SealIgnored(login, time, token, owner) == TRUE
\* owner is the login the signature at the end of the token was made for
SealMatches(login, time, token, owner) == Sign(login, time) = Sign(owner, Time)

\* validate_token: the login is what comes before the first colon
TokenLogin(token, owner) ==
  LET c == FirstAt(token, Colon)
      login == SubSeq(token, 1, c - 1) IN
  IF /\ c # LastAt(token, Colon) /\ Len(login) < MaxLogin
     /\ SealMatches(login, Number(SubSeq(token, c + 1, Len(token))), token, owner)
  THEN login ELSE Nobody
-----------------------------------------------------------------------------
(* Routes. *)

ChatRoute(n, words) == <<Slash>> \o ChatsWord \o <<Slash>> \o n \o words
DialogRoute(n) == <<Slash>> \o UsersWord \o <<Slash>> \o n \o <<Slash>> \o MessagesWord
Under(word) == <<Slash>> \o word

\* route_segment and route_depth, after the leading slash
Relative(route) == IF route # <<>> /\ Head(route) = Slash THEN Tail(route) ELSE route
SlashesIn(s) == {i \in 1..Len(s) : s[i] = Slash}
\* mutant: the last segment is not counted
DepthShort(route) == Cardinality(SlashesIn(Relative(route)))
Depth(route) == IF Relative(route) = <<>> THEN 0 ELSE Cardinality(SlashesIn(Relative(route))) + 1
\* where the i-th segment starts, counted from 0
Start(s, i) == IF i = 0 THEN 1
               ELSE 1 + CHOOSE k \in SlashesIn(s) : Cardinality({j \in SlashesIn(s) : j <= k}) = i
Segment(route, i) ==
  LET s == Relative(route)
      from == SubSeq(s, Start(s, i), Len(s))
      seg == IF Occurs(Slash, from) THEN SubSeq(from, 1, FirstAt(from, Slash) - 1) ELSE from
  IN IF i < Depth(route) /\ Len(seg) < MaxRoute THEN seg ELSE <<>>

\* dispatch, for the routes with a name in them
Handler(type, route) ==
  LET s0 == Segment(route, 0)  s2 == Segment(route, 2)  d == Depth(route) IN
  CASE s0 = UsersWord /\ d = 3 /\ s2 = MessagesWord /\ type = "GET"  -> "readuser"
    [] s0 = UsersWord /\ d = 3 /\ s2 = MessagesWord /\ type = "POST" -> "postuser"
    [] s0 = ChatsWord /\ d = 2 /\ type = "DELETE"                    -> "delete"
    [] s0 = ChatsWord /\ d = 3 /\ s2 = UsersWord /\ type = "GET"     -> "members"
    [] s0 = ChatsWord /\ d = 3 /\ s2 = UsersWord /\ type = "POST"    -> "add"
    [] s0 = ChatsWord /\ d = 3 /\ s2 = UsersWord /\ type = "DELETE"  -> "remove"
    [] s0 = ChatsWord /\ d = 3 /\ s2 = MessagesWord /\ type = "GET"  -> "read"
    [] s0 = ChatsWord /\ d = 3 /\ s2 = MessagesWord /\ type = "POST" -> "post"
    [] OTHER -> "notfound"
-----------------------------------------------------------------------------
(* The history two users share. *)

Before(s, t) ==
  \E i \in 0..Len(s) :
    /\ i <= Len(t) /\ SubSeq(s, 1, i) = SubSeq(t, 1, i)
    /\ i < Len(t) /\ (i = Len(s) \/ s[i + 1] < t[i + 1])

\* mutant: the logins are not ordered
PathAsGiven(a, b) == a \o <<Dash>> \o b
\* get_private_path
PrivatePath(a, b) == IF Before(a, b) THEN a \o <<Dash>> \o b ELSE b \o <<Dash>> \o a
-----------------------------------------------------------------------------
VARIABLES
  login,    \* who is logged in, and has a token
  opened,   \* the chat or user whose chat is open
  current,  \* g_current_chat
  req,      \* the last request: what was meant, and the route it became
  handled,  \* what the server made of it
  written   \* a history that was written before: the path and the two users

vars == <<login, opened, current, req, handled, written>>

NoRequest == [op |-> "none", name |-> <<>>, type |-> "GET", route |-> <<>>]
NothingWritten == [path |-> <<>>, users |-> {}]
NotHandled == [op |-> "none", name |-> <<>>, by |-> Nobody]

Init ==
  /\ login \in Users /\ opened = <<>> /\ current = <<>>
  /\ req = NoRequest /\ handled = NotHandled /\ written = NothingWritten

Asking(op, n, type, route) ==
  /\ handled # NotHandled \/ req = NoRequest
  /\ req' = [op |-> op, name |-> n, type |-> type, route |-> route]
  /\ handled' = NotHandled
  /\ UNCHANGED <<login, opened, current, written>>

\* open_selected_item: the lists cut names; the route of a chat has room to spare
OpenChat(n) == Asking("read", n, "GET", ChatRoute(Cut(n, MaxRoute), Under(MessagesWord)))
OpenDialog(l) ==
  /\ Cut(l, MaxLogin) # Cut(login, MaxLogin)
  /\ Asking("readuser", l, "GET", Cut(DialogRoute(Cut(l, MaxLogin)), MaxRoute))

\* what current_chat_name finds in g_current_chat
InChat == Len(current) > 2 /\ SubSeq(current, 1, 3) = ChatRoute(<<>>, <<>>)
InDialog == current # <<>> /\ ~InChat
CurrentName ==
  LET p == SubSeq(current, 4, Len(current)) IN
  IF Occurs(Slash, p) THEN SubSeq(p, 1, FirstAt(p, Slash) - 1) ELSE p

\* api_get_member_list has twice the room of the others
Members == InChat /\ Asking("members", opened, "GET",
                            Cut(ChatRoute(CurrentName, Under(UsersWord)), 2 * MaxRoute))
\* api_add_chat_user, api_remove_chat_user, api_leave_chat
Change(op, type) == InChat /\ Asking(op, opened, type,
                                     Cut(ChatRoute(CurrentName, Under(UsersWord)), MaxRoute))
\* api_delete_chat
Delete(n) == Asking("delete", n, "DELETE", Cut(ChatRoute(Cut(n, MaxRoute), <<>>), MaxRoute))
\* api_send_message, to the open route as it is
PostToChat == InChat /\ Asking("post", opened, "POST", current)
PostToUser == InDialog /\ Asking("postuser", opened, "POST", current)

\* the history file of a message from one user to another
Written(by, name) == [path |-> PrivatePath(by, name), users |-> {by, name}]

Reading == {"read", "readuser"}

\* handle_client: the token, then the route; ui_set_chat if it was to read, and was read
Serve ==
  LET by == TokenLogin(Token(login), login)
      op == IF by = Nobody THEN "unauthorized" ELSE Handler(req.type, req.route)
      name == Segment(req.route, 1) IN
  /\ req # NoRequest /\ handled = NotHandled
  /\ handled' = [op |-> op, name |-> name, by |-> by]
  /\ IF req.op \in Reading /\ op \in Reading
     THEN current' = Cut(req.route, MaxRoute) /\ opened' = req.name
     ELSE UNCHANGED <<current, opened>>
  /\ written' \in {written} \cup IF op = "postuser" THEN {Written(by, name)} ELSE {}
  /\ UNCHANGED <<login, req>>

\* another user logs in
Login(l) ==
  /\ handled # NotHandled /\ login' = l /\ current' = <<>> /\ opened' = <<>>
  /\ req' = NoRequest /\ handled' = NotHandled /\ UNCHANGED written

Next ==
  \/ \E n \in ChatNames : OpenChat(n) \/ Delete(n)
  \/ \E l \in Users : OpenDialog(l) \/ Login(l)
  \/ Members \/ Change("add", "POST") \/ Change("remove", "DELETE") \/ Change("leave", "DELETE")
  \/ PostToChat \/ PostToUser \/ Serve

Spec == Init /\ [][Next]_vars
-----------------------------------------------------------------------------
(* Which names arrive as they were meant. *)

Meant == IF req.op = "leave" THEN "remove" ELSE req.op
\* names without separators that fit, also with what routes add to them
PlainLogin(l) == ~Occurs(Colon, l) /\ Len(l) < MaxLogin
PlainName(n) ==
  /\ ~Occurs(Slash, n)
  /\ IF req.op \in {"readuser", "postuser"} THEN Len(n) < MaxLogin /\ Len(n) + 7 < MaxRoute
                                            ELSE Len(n) + 6 < MaxRoute

\* A request about a plain name by a plain login reaches the handler it was
\* made for, with that name and that login, also when the name is one of the
\* words of the routes.
ReachesHandler ==
  handled # NotHandled /\ PlainLogin(login) /\ PlainName(req.name)
    => handled = [op |-> Meant, name |-> req.name, by |-> login]

\* Whatever its login contains, a token is good for its owner or for nobody.
TokenOfOwner == handled.by \in {login, Nobody}

\* Two users have one history, whoever of them writes, and nobody else writes
\* to it, as long as logins have no dash (and fit, without the separators of
\* tokens and routes).
DialogsApart ==
  handled.op = "postuser" /\ written # NothingWritten =>
    LET now == Written(handled.by, handled.name) IN
    (\A l \in now.users \cup written.users : ~Occurs(Dash, l))
      => (now.path = written.path <=> now.users = written.users)

\* The client says "Left the chat" (client/logic/commands.c:136): what leaves
\* a chat does not delete it.
LeavingKeepsChat == req.op = "leave" => handled.op # "delete"
=============================================================================
