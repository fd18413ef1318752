---------------------------- MODULE ChatHandlers ----------------------------
(***************************************************************************)
(* The request handlers for users and chats (server/handlers), executed by *)
(* the server's children concurrently.  A handler is a sequence of         *)
(* repository calls; each call is atomic (JsonFile implements AtomicFile), *)
(* a sequence of them is not, so every call is a step of its own and acts  *)
(* on what the earlier ones saw.                                           *)
(*                                                                         *)
(* With FilesFail a call may find its file impossible to open: a reading   *)
(* call then sees an empty array, a changing call changes nothing and      *)
(* returns -1.                                                             *)
(***************************************************************************)
EXTENDS Naturals, Sequences, FiniteSets

CONSTANTS
  Procs,      \* the children
  Logins, Passwords, Names,
  InitialUsers, InitialChats,  \* what the files hold when the server starts
  FilesFail,  \* whether files may fail to open
  MaxCalls    \* bound on the requests of each child

Kinds == {"register", "login", "create", "delete", "add", "remove", "host",
          "members", "list", "users", "info"}
Open == {"register", "login", "info"}   \* routes that need no token
Request == [kind : Kinds, name : Names, login : Logins, pass : Passwords, by : Logins]
User == [login : Logins, pass : Passwords]
Chat == [name : Names, creator : Logins, users : Seq(Logins)]

ASSUME HandlersAssumption ==
  /\ Logins # {} /\ Passwords # {} /\ Names # {}
  /\ InitialUsers \in Seq(User) /\ InitialChats \in Seq(Chat)
  /\ FilesFail \in BOOLEAN /\ MaxCalls \in Nat

Codes == {"none", "ok", "conflict", "notfound", "forbidden", "unauthorized", "internal"}

VARIABLES
  users,   \* the array of users.json
  chats,   \* the array of chats.json
  tokens,  \* logins a token was issued for; it stays valid
  pc,      \* the repository call each child makes next
  req,     \* the request it handles
  code,    \* the code of its last response
  answer,  \* what that response says: logins, chat names or a number
  seen,    \* handle_info's seen_chats
  todo,    \* the logins handle_info has not come to
  calls    \* requests handled, bounded by MaxCalls

vars == <<users, chats, tokens, pc, req, code, answer, seen, todo, calls>>
files == <<users, chats, tokens>>
info == <<seen, todo>>

NoRequest == [kind |-> "info", name |-> CHOOSE n \in Names : TRUE,
              login |-> CHOOSE l \in Logins : TRUE,
              pass |-> CHOOSE w \in Passwords : TRUE, by |-> CHOOSE l \in Logins : TRUE]

\* of what a request does not use, one value stands for all
Requests == {r \in Request :
  /\ r.kind \in {"register", "login"} \/ r.pass = NoRequest.pass
  /\ r.kind \in {"register", "login", "add", "remove"} \/ r.login = NoRequest.login
  /\ r.kind \notin Open \cup {"list", "users"} \/ r.name = NoRequest.name
  /\ r.kind \notin Open \cup {"users"} \/ r.by = NoRequest.by}

\* tokens of an earlier run are still good
Init ==
  /\ users = InitialUsers /\ chats = InitialChats
  /\ tokens \in SUBSET {users[i].login : i \in 1..Len(users)}
  /\ pc = [p \in Procs |-> "idle"]
  /\ req = [p \in Procs |-> NoRequest]
  /\ code = [p \in Procs |-> "none"] /\ answer = [p \in Procs |-> {}]
  /\ seen = [p \in Procs |-> {}] /\ todo = [p \in Procs |-> <<>>]
  /\ calls = [p \in Procs |-> 0]
-----------------------------------------------------------------------------
(* The repositories. *)

\* what a reading call loads
Loaded(file) == {file} \cup (IF FilesFail THEN {<<>>} ELSE {})

\* mutant: looks at the first user only
FirstUserIs(us, l) == us # <<>> /\ us[1].login = l
UserExists(us, l) == \E i \in 1..Len(us) : us[i].login = l
\* repo_user_get_hash: the first user with the login counts
HashOf(us, l) == us[CHOOSE i \in 1..Len(us) :
                      us[i].login = l /\ \A j \in 1..(i - 1) : us[j].login # l].pass

\* find_chat: the first chat with the name counts
IsFirstChat(cs, i, n) ==
  i \in 1..Len(cs) /\ cs[i].name = n /\ \A j \in 1..(i - 1) : cs[j].name # n
\* mutant: looks at the first chat only
FirstChatIs(cs, n) == cs # <<>> /\ cs[1].name = n
ChatExists(cs, n) == \E i \in 1..Len(cs) : cs[i].name = n

IsMember(c, l) == \E k \in 1..Len(c.users) : c.users[k] = l
\* mutant: does not look whether the user is in already
AddedAgain(c, l) == [c EXCEPT !.users = Append(@, l)]
Added(c, l) == IF IsMember(c, l) THEN c ELSE [c EXCEPT !.users = Append(@, l)]
Removed(c, l) == [c EXCEPT !.users =
  LET i == CHOOSE k \in 1..Len(@) : @[k] = l /\ \A j \in 1..(k - 1) : @[j] # l
  IN SubSeq(@, 1, i - 1) \o SubSeq(@, i + 1, Len(@))]

\* mutant: asks for the creator
ChatsCreatedBy(cs, l) == {cs[i].name : i \in {k \in 1..Len(cs) : cs[k].creator = l}}
ChatsOf(cs, l) == {cs[i].name : i \in {k \in 1..Len(cs) : IsMember(cs[k], l)}}
MembersOf(c) == {c.users[k] : k \in 1..Len(c.users)}
-----------------------------------------------------------------------------
(* The handlers. *)

Goto(p, from, to) == pc[p] = from /\ pc' = [pc EXCEPT ![p] = to]
Reply(p, from, c) == Goto(p, from, "idle") /\ code' = [code EXCEPT ![p] = c]
Continue(p, from, to) == Goto(p, from, to) /\ UNCHANGED code

FirstCall(k) == CASE k = "register" -> "userfree"
                  [] k = "login"    -> "userknown"
                  [] k = "create"   -> "chatfree"
                  [] k = "list"     -> "chatsof"
                  [] k = "users"    -> "userlist"
                  [] k = "info"     -> "count"
                  [] OTHER          -> "chatthere"

\* dispatch: the request is well formed, and its token names a login
Receive(p, r) ==
  /\ calls[p] < MaxCalls /\ (r.kind \in Open \/ r.by \in tokens)
  /\ Goto(p, "idle", FirstCall(r.kind)) /\ req' = [req EXCEPT ![p] = r]
  /\ calls' = [calls EXCEPT ![p] = @ + 1]
  /\ code' = [code EXCEPT ![p] = "none"] /\ answer' = [answer EXCEPT ![p] = {}]
  /\ UNCHANGED <<files, info>>

\* handle_register: is the login free?
UserFree(p) ==
  /\ \E us \in Loaded(users) :
       IF UserExists(us, req[p].login) THEN Reply(p, "userfree", "conflict")
                                       ELSE Continue(p, "userfree", "usercreate")
  /\ UNCHANGED <<files, req, answer, info, calls>>

NewUser(p) == [login |-> req[p].login, pass |-> req[p].pass]
\* mutant: the newest record comes first
UserPrepended(p) == <<NewUser(p)>> \o users
UserAppended(p) == Append(users, NewUser(p))

\* repo_user_create does not look again
UserCreate(p) ==
  /\ \/ Reply(p, "usercreate", "ok") /\ users' = UserAppended(p)
     \/ FilesFail /\ Reply(p, "usercreate", "internal") /\ UNCHANGED users
  /\ UNCHANGED <<chats, tokens, req, answer, info, calls>>

\* handle_login
UserKnown(p) ==
  /\ \E us \in Loaded(users) :
       IF UserExists(us, req[p].login) THEN Continue(p, "userknown", "password")
                                       ELSE Reply(p, "userknown", "notfound")
  /\ UNCHANGED <<files, req, answer, info, calls>>

Password(p) ==
  /\ \E us \in Loaded(users) :
       IF ~UserExists(us, req[p].login)
       THEN Reply(p, "password", "internal") /\ UNCHANGED tokens
       ELSE IF HashOf(us, req[p].login) # req[p].pass
       THEN Reply(p, "password", "unauthorized") /\ UNCHANGED tokens
       ELSE Reply(p, "password", "ok") /\ tokens' = tokens \cup {req[p].login}
  /\ UNCHANGED <<users, chats, req, answer, info, calls>>

\* handle_create_chat
ChatFree(p) ==
  /\ \E cs \in Loaded(chats) :
       IF ChatExists(cs, req[p].name) THEN Reply(p, "chatfree", "conflict")
                                      ELSE Continue(p, "chatfree", "chatcreate")
  /\ UNCHANGED <<files, req, answer, info, calls>>

\* mutant: the record does not say who created the chat
NewChatUnowned(p) == [name |-> req[p].name, users |-> <<req[p].by>>]
NewChat(p) == [name |-> req[p].name, creator |-> req[p].by, users |-> <<req[p].by>>]

ChatCreate(p) ==
  /\ \/ Continue(p, "chatcreate", "addcreator") /\ chats' = Append(chats, NewChat(p))
     \/ FilesFail /\ Reply(p, "chatcreate", "internal") /\ UNCHANGED chats
  /\ UNCHANGED <<users, tokens, req, answer, info, calls>>

\* repo_chat_add_user on the first chat of that name, if there is one
AddTo(n, l) == \E i \in 1..Len(chats) :
  IsFirstChat(chats, i, n) /\ chats' = [chats EXCEPT ![i] = Added(@, l)]

\* its result is not looked at
AddCreator(p) ==
  /\ Reply(p, "addcreator", "ok")
  /\ \/ AddTo(req[p].name, req[p].by)
     \/ (FilesFail \/ ~ChatExists(chats, req[p].name)) /\ UNCHANGED chats
  /\ UNCHANGED <<users, tokens, req, answer, info, calls>>

\* the check all the other handlers of a chat begin with
NextCall(k) == CASE k \in {"delete", "host"} -> "host"
                 [] k = "add"                -> "userthere"
                 [] k = "remove"             -> "removeuser"
                 [] k = "members"            -> "members"

ChatThere(p) ==
  /\ \E cs \in Loaded(chats) :
       IF ChatExists(cs, req[p].name)
       THEN Continue(p, "chatthere", NextCall(req[p].kind))
       ELSE Reply(p, "chatthere", "notfound")
  /\ UNCHANGED <<files, req, answer, info, calls>>

\* mutant: the requester is not compared with the creator
MayDeleteAnyone(host, l) == TRUE
MayDelete(host, l) == host = l

\* repo_chat_get_host, for the answer or for the check before a deletion
Host(p) ==
  /\ \E cs \in Loaded(chats) :
       \/ /\ ~ChatExists(cs, req[p].name) /\ Reply(p, "host", "internal")
          /\ UNCHANGED answer
       \/ \E i \in 1..Len(cs) :
            /\ IsFirstChat(cs, i, req[p].name)
            /\ IF req[p].kind = "host"
               THEN /\ Reply(p, "host", "ok")
                    /\ answer' = [answer EXCEPT ![p] = {cs[i].creator}]
               ELSE /\ IF MayDelete(cs[i].creator, req[p].by)
                       THEN Continue(p, "host", "chatdelete")
                       ELSE Reply(p, "host", "forbidden")
                    /\ UNCHANGED answer
  /\ UNCHANGED <<files, req, info, calls>>

\* repo_chat_delete: whichever chat is the first of that name by now
ChatDelete(p) ==
  /\ \/ \E i \in 1..Len(chats) :
          /\ IsFirstChat(chats, i, req[p].name)
          /\ chats' = SubSeq(chats, 1, i - 1) \o SubSeq(chats, i + 1, Len(chats))
          /\ Reply(p, "chatdelete", "ok")
     \/ /\ FilesFail \/ ~ChatExists(chats, req[p].name)
        /\ Reply(p, "chatdelete", "internal") /\ UNCHANGED chats
  /\ UNCHANGED <<users, tokens, req, answer, info, calls>>

\* handle_add_chat_user
UserThere(p) ==
  /\ \E us \in Loaded(users) :
       IF UserExists(us, req[p].login) THEN Continue(p, "userthere", "adduser")
                                       ELSE Reply(p, "userthere", "notfound")
  /\ UNCHANGED <<files, req, answer, info, calls>>

AddUser(p) ==
  /\ \/ AddTo(req[p].name, req[p].login) /\ Continue(p, "adduser", "members")
     \/ /\ FilesFail \/ ~ChatExists(chats, req[p].name)
        /\ Reply(p, "adduser", "conflict") /\ UNCHANGED chats
  /\ UNCHANGED <<users, tokens, req, answer, info, calls>>

\* handle_remove_chat_user: any member may remove any
RemoveUser(p) ==
  /\ \/ \E i \in 1..Len(chats) :
          /\ IsFirstChat(chats, i, req[p].name) /\ IsMember(chats[i], req[p].login)
          /\ chats' = [chats EXCEPT ![i] = Removed(@, req[p].login)]
          /\ Continue(p, "removeuser", "members")
     \/ /\ \/ FilesFail
           \/ \A i \in 1..Len(chats) :
                IsFirstChat(chats, i, req[p].name) => ~IsMember(chats[i], req[p].login)
        /\ Reply(p, "removeuser", "notfound") /\ UNCHANGED chats
  /\ UNCHANGED <<users, tokens, req, answer, info, calls>>

\* repo_chat_list_users: for the answer, or for whom to notify of the change
Members(p) ==
  /\ \E cs \in Loaded(chats) :
       \/ \E i \in 1..Len(cs) :
            /\ IsFirstChat(cs, i, req[p].name) /\ Reply(p, "members", "ok")
            /\ answer' = [answer EXCEPT ![p] = MembersOf(cs[i])]
       \/ /\ ~ChatExists(cs, req[p].name)
          /\ Reply(p, "members", IF req[p].kind = "members" THEN "internal" ELSE "ok")
          /\ UNCHANGED answer
  /\ UNCHANGED <<files, req, info, calls>>

\* handle_get_chats
List(p) ==
  /\ req[p].kind = "list" /\ Reply(p, "chatsof", "ok")
  /\ \E cs \in Loaded(chats) : answer' = [answer EXCEPT ![p] = ChatsOf(cs, req[p].by)]
  /\ UNCHANGED <<files, req, info, calls>>

\* GET /users, which dispatch answers itself
UserList(p) ==
  /\ Reply(p, "userlist", "ok")
  /\ \E us \in Loaded(users) :
       answer' = [answer EXCEPT ![p] = {us[i].login : i \in 1..Len(us)}]
  /\ UNCHANGED <<files, req, info, calls>>

(***************************************************************************)
(* handle_info reads the users twice, the second time for their logins,    *)
(* and then the chats of each login.  The count of users, which the first  *)
(* reading gives, is left out of the answer.                               *)
(***************************************************************************)
Count(p) == Continue(p, "count", "logins")
            /\ UNCHANGED <<files, req, answer, info, calls>>

InfoLogins(p) ==
  /\ Continue(p, "logins", "chatsof")
  /\ \E us \in Loaded(users) :
       todo' = [todo EXCEPT ![p] = [i \in 1..Len(us) |-> us[i].login]]
  /\ seen' = [seen EXCEPT ![p] = {}]
  /\ UNCHANGED <<files, req, answer, calls>>

InfoChats(p) ==
  /\ pc[p] = "chatsof" /\ req[p].kind = "info"
  /\ IF todo[p] = <<>>
     THEN /\ Reply(p, "chatsof", "ok")
          /\ answer' = [answer EXCEPT ![p] = {Cardinality(seen[p])}]
          /\ UNCHANGED info
     ELSE /\ \E cs \in Loaded(chats) :
               seen' = [seen EXCEPT ![p] = @ \cup ChatsOf(cs, Head(todo[p]))]
          /\ todo' = [todo EXCEPT ![p] = Tail(@)]
          /\ UNCHANGED <<pc, code, answer>>
  /\ UNCHANGED <<files, req, calls>>

Handle(p) ==
  \/ UserFree(p) \/ UserCreate(p) \/ UserKnown(p) \/ Password(p)
  \/ ChatFree(p) \/ ChatCreate(p) \/ AddCreator(p) \/ ChatThere(p) \/ Host(p)
  \/ ChatDelete(p) \/ UserThere(p) \/ AddUser(p) \/ RemoveUser(p) \/ Members(p)
  \/ List(p) \/ UserList(p) \/ Count(p) \/ InfoLogins(p) \/ InfoChats(p)

Next == \E p \in Procs : Handle(p) \/ \E r \in Requests : Receive(p, r)

Spec == Init /\ [][Next]_vars
-----------------------------------------------------------------------------
(* The types of the variables. *)
TypeOK ==
  /\ users \in Seq(User) /\ chats \in Seq(Chat) /\ tokens \subseteq Logins
  /\ req \in [Procs -> Request] /\ code \in [Procs -> Codes]
  /\ todo \in [Procs -> Seq(Logins)] /\ seen \in [Procs -> SUBSET Names]
  /\ calls \in [Procs -> 0..MaxCalls]

(***************************************************************************)
(* Whoever is in a chat is registered and is in it once, and whoever       *)
(* created one is registered: the check of the login in handle_add_chat_   *)
(* user is still true when the login is added, and the duplicate check     *)
(* under the lock makes up for the unlocked ones.                          *)
(***************************************************************************)
MembersSound ==
  \A i \in 1..Len(chats) :
    /\ \A l \in MembersOf(chats[i]) \cup {chats[i].creator} : UserExists(users, l)
    /\ Cardinality(MembersOf(chats[i])) = Len(chats[i].users)

(***************************************************************************)
(* Nobody can change the password of a login that is registered: although  *)
(* two registrations of it can both succeed, the first one keeps it.       *)
(***************************************************************************)
PasswordStable ==
  [][\A l \in Logins : UserExists(users, l) =>
        UserExists(users', l) /\ HashOf(users', l) = HashOf(users, l)]_vars

(***************************************************************************)
(* A login names one user, and a name one chat.  True while one child      *)
(* serves all requests; two that both find a login free both register it.  *)
(***************************************************************************)
LoginsUnique == \A i, j \in 1..Len(users) : users[i].login = users[j].login => i = j
NamesUnique == \A i, j \in 1..Len(chats) : chats[i].name = chats[j].name => i = j

(***************************************************************************)
(* "only the owner can delete the chat" (client/logic/commands.c:85): a    *)
(* chat that goes was created by the login whose request deletes it.       *)
(***************************************************************************)
Left(p, from) == pc[p] = from /\ pc'[p] # from
OwnerDeletes ==
  [][\A p \in Procs : Left(p, "chatdelete") /\ chats' # chats =>
       \E i \in 1..Len(chats) :
         IsFirstChat(chats, i, req[p].name) /\ chats[i].creator = req[p].by]_vars

(***************************************************************************)
(* While nobody else is served, the chat_count of /info is the number of   *)
(* chats that have members: each is counted once, however many of its      *)
(* members are registered, and whoever created it.  (A chat that all left  *)
(* stays in the file and is not counted.)                                  *)
(***************************************************************************)
WithMembers == {i \in 1..Len(chats) : chats[i].users # <<>>}
InfoCountsChats ==
  [][\A p \in Procs : pc[p] = "chatsof" /\ pc'[p] = "idle" /\ req[p].kind = "info" =>
       answer'[p] = {Cardinality({chats[i].name : i \in WithMembers})}]_vars
=============================================================================
