----------------------- MODULE MessageHandlersProofs -----------------------
(***************************************************************************)
(* All handlers together, for any children, users, chats and requests and  *)
(* whichever files fail: no post is lost, and nobody is told of a message  *)
(* that is not stored.  First what every step of the handlers for users    *)
(* and chats preserves (HInv), of which the handlers for messages change   *)
(* nothing; then the handlers for messages.                                *)
(***************************************************************************)
EXTENDS MessageHandlers, SequenceTheorems, FiniteSetTheorems, WellFoundedInduction, TLAPS

\* where a child can be: the calls of these handlers and of those for messages
Places == {"idle", "userfree", "usercreate", "userknown", "password", "chatfree",
           "chatcreate", "addcreator", "chatthere", "host", "chatdelete",
           "userthere", "adduser", "removeuser", "members", "chatsof", "userlist",
           "count", "logins", "target", "store", "tell", "load"}

\* a chat whose creator and members are among the users, each member once
Registered(us, c) == /\ UserExists(us, c.creator)
                     /\ \A k \in 1..Len(c.users) : UserExists(us, c.users[k])
Once(c) == \A j, k \in 1..Len(c.users) : c.users[j] = c.users[k] => j = k
ChatSound(us, c) == Registered(us, c) /\ Once(c)

\* the requests about a chat that should exist
OfAChat == {"delete", "host", "add", "remove", "members"}

\* The part of TypeOK the other invariants rest on.
Types == /\ users \in Seq(User) /\ chats \in Seq(Chat)
         /\ req \in [Procs -> Request] /\ pc \in [Procs -> Places]

\* Tokens are issued to users, and users are never removed: so a child that is
\* about to add somebody to a chat saw that login in the file, or has its token.
Known ==
  /\ \A l \in tokens : UserExists(users, l)
  /\ \A p \in Procs :
       /\ pc[p] \in {"chatfree", "chatcreate", "addcreator"} => UserExists(users, req[p].by)
       /\ pc[p] = "adduser" => UserExists(users, req[p].login)
       /\ pc[p] = "chatthere" => req[p].kind \in OfAChat

AllSound == \A i \in 1..Len(chats) : ChatSound(users, chats[i])

HInv == Types /\ Known /\ AllSound

\* the chats the server starts with
InitiallySound == \A i \in 1..Len(InitialChats) : ChatSound(InitialUsers, InitialChats[i])

-----------------------------------------------------------------------------
(* The operators. *)

\* Whoever was registered is, after a registration.
LEMMA StillExists ==
  ASSUME NEW us \in Seq(User), NEW u \in User, NEW l, UserExists(us, l)
  PROVE  UserExists(Append(us, u), l)
<1>1. /\ Len(Append(us, u)) = Len(us) + 1 /\ Len(us) \in Nat
      /\ \A i \in 1..Len(us) : Append(us, u)[i] = us[i]
  BY AppendProperties
<1>2. PICK i \in 1..Len(us) : us[i].login = l
  BY DEF UserExists
<1> QED
  BY <1>1, <1>2 DEF UserExists

\* A chat stays sound when somebody registers.
LEMMA StillSound ==
  ASSUME NEW us \in Seq(User), NEW u \in User, NEW c, ChatSound(us, c)
  PROVE  ChatSound(Append(us, u), c)
BY StillExists DEF ChatSound, Registered

\* chat_add_user keeps a chat sound, whoever is in it already.
LEMMA AddedSound ==
  ASSUME NEW us, NEW c \in Chat, NEW l \in Logins, ChatSound(us, c), UserExists(us, l)
  PROVE  Added(c, l) \in Chat /\ ChatSound(us, Added(c, l))
<1>1. CASE IsMember(c, l)
  BY <1>1 DEF Added
<1>2. CASE ~IsMember(c, l)
  <2> DEFINE a == Append(c.users, l)
  <2>1. c.users \in Seq(Logins) /\ Len(c.users) \in Nat
    BY DEF Chat
  <2>2. /\ a \in Seq(Logins) /\ Len(a) = Len(c.users) + 1
        /\ \A i \in 1..Len(c.users) : a[i] = c.users[i]
        /\ a[Len(c.users) + 1] = l
    BY <2>1, AppendProperties
  <2>3. Added(c, l) = [c EXCEPT !.users = a]
    BY <1>2 DEF Added
  <2>4. /\ Added(c, l) \in Chat /\ Added(c, l).users = a
        /\ Added(c, l).creator = c.creator
    BY <2>2, <2>3 DEF Chat
  <2>5. \A k \in 1..Len(a) : UserExists(us, a[k])
    BY <2>1, <2>2 DEF ChatSound, Registered
  <2>6. \A i \in 1..Len(c.users) : c.users[i] # l
    BY <1>2 DEF IsMember
  <2>7. \A j, k \in 1..Len(a) : a[j] = a[k] => j = k
    <3> SUFFICES ASSUME NEW j \in 1..Len(a), NEW k \in 1..Len(a), a[j] = a[k]
                 PROVE  j = k
      OBVIOUS
    <3>1. \A i \in 1..Len(a) : i \in 1..Len(c.users) \/ i = Len(c.users) + 1
      BY <2>1, <2>2
    <3>2. CASE j \in 1..Len(c.users) /\ k \in 1..Len(c.users)
      BY <3>2, <2>2 DEF ChatSound, Once
    <3>3. CASE j = Len(c.users) + 1 /\ k \in 1..Len(c.users)
      BY <3>3, <2>2, <2>6
    <3>4. CASE k = Len(c.users) + 1 /\ j \in 1..Len(c.users)
      BY <3>4, <2>2, <2>6
    <3> QED
      BY <3>1, <3>2, <3>3, <3>4
  <2> HIDE DEF a
  <2> QED
    BY <2>4, <2>5, <2>7 DEF ChatSound, Registered, Once
<1> QED
  BY <1>1, <1>2

\* What is left of a sequence without its i-th element.
LEMMA WithoutElement ==
  ASSUME NEW S, NEW s \in Seq(S), NEW i \in 1..Len(s)
  PROVE  LET t == SubSeq(s, 1, i - 1) \o SubSeq(s, i + 1, Len(s)) IN
         /\ t \in Seq(S) /\ Len(t) = Len(s) - 1
         /\ \A k \in 1..Len(t) : t[k] = IF k < i THEN s[k] ELSE s[k + 1]
<1> DEFINE a == SubSeq(s, 1, i - 1)
           b == SubSeq(s, i + 1, Len(s))
           t == a \o b
<1>1. Len(s) \in Nat /\ \A k \in 1..Len(s) : s[k] \in S
  BY ElementOfSeq
<1>2. /\ a \in Seq(S) /\ Len(a) = i - 1
      /\ \A k \in 1..(i - 1) : a[k] = s[k]
  BY <1>1, SubSeqProperties
<1>3. /\ b \in Seq(S) /\ Len(b) = Len(s) - i
      /\ \A k \in 1..(Len(s) - i) : b[k] = s[k + i]
  <2>1. /\ SubSeq(s, i + 1, Len(s)) \in Seq(S)
        /\ Len(SubSeq(s, i + 1, Len(s))) = IF i + 1 <= Len(s) THEN Len(s) - (i + 1) + 1 ELSE 0
        /\ \A k \in 1..(Len(s) - (i + 1) + 1) : SubSeq(s, i + 1, Len(s))[k] = s[(i + 1) + k - 1]
    BY <1>1, SubSeqProperties
  <2> QED
    BY <1>1, <2>1
<1> HIDE DEF a, b
<1>4. /\ t \in Seq(S) /\ Len(t) = Len(a) + Len(b)
      /\ \A k \in 1..(Len(a) + Len(b)) : t[k] = IF k <= Len(a) THEN a[k] ELSE b[k - Len(a)]
  BY <1>2, <1>3, ConcatProperties
<1> HIDE DEF t
<1>5. Len(t) = Len(s) - 1
  BY <1>1, <1>2, <1>3, <1>4
<1>6. ASSUME NEW k \in 1..Len(t) PROVE t[k] = IF k < i THEN s[k] ELSE s[k + 1]
  <2>1. CASE k < i
    BY <2>1, <1>1, <1>2, <1>3, <1>4
  <2>2. CASE ~(k < i)
    <3>1. k - (i - 1) \in 1..(Len(s) - i)
      BY <2>2, <1>1, <1>5
    <3>2. b[k - (i - 1)] = s[(k - (i - 1)) + i]
      BY <3>1, <1>3
    <3>3. t[k] = b[k - (i - 1)]
      BY <2>2, <1>1, <1>2, <1>3, <1>4, <1>5
    <3>4. (k - (i - 1)) + i = k + 1
      BY <1>1
    <3> QED
      BY <2>2, <3>2, <3>3, <3>4
  <2> QED
    BY <2>1, <2>2
<1> QED
  BY <1>4, <1>5, <1>6 DEF t, a, b

\* What holds at some index holds at a first one.
LEMMA FirstIndex ==
  ASSUME NEW n \in Nat, NEW T, T \subseteq 1..n, T # {}
  PROVE  \E i \in T : \A j \in 1..(i - 1) : j \notin T
<1>1. T \subseteq Nat
  OBVIOUS
<1>2. PICK i \in T : \A j \in T : ~(<<j, i>> \in OpToRel(<, Nat))
  BY <1>1, NatLessThanWellFounded, WFMin
<1>3. \A j \in T : ~(j < i)
  BY <1>1, <1>2 DEF OpToRel
<1> QED
  BY <1>1, <1>3

\* chat_remove_user takes out the one occurrence of a member.
LEMMA RemovedSound ==
  ASSUME NEW us, NEW c \in Chat, NEW l, ChatSound(us, c), IsMember(c, l)
  PROVE  Removed(c, l) \in Chat /\ ChatSound(us, Removed(c, l))
<1> DEFINE i == CHOOSE k \in 1..Len(c.users) :
                  c.users[k] = l /\ \A j \in 1..(k - 1) : c.users[j] # l
           t == SubSeq(c.users, 1, i - 1) \o SubSeq(c.users, i + 1, Len(c.users))
<1>1. c.users \in Seq(Logins) /\ Len(c.users) \in Nat
  BY DEF Chat
<1>2. \E k \in 1..Len(c.users) : c.users[k] = l /\ \A j \in 1..(k - 1) : c.users[j] # l
  <2> DEFINE T == {k \in 1..Len(c.users) : c.users[k] = l}
  <2>1. T \subseteq 1..Len(c.users) /\ T # {}
    BY DEF IsMember
  <2> HIDE DEF T
  <2>2. PICK k \in T : \A j \in 1..(k - 1) : j \notin T
    BY <1>1, <2>1, FirstIndex
  <2>3. k \in 1..Len(c.users) /\ c.users[k] = l
    BY <2>2 DEF T
  <2>4. \A j \in 1..(k - 1) : j \in 1..Len(c.users)
    BY <1>1, <2>3
  <2>5. \A j \in 1..(k - 1) : c.users[j] # l
    BY <2>2, <2>4 DEF T
  <2> QED
    BY <2>3, <2>5
<1>3. i \in 1..Len(c.users)
  BY <1>2
<1>4. Removed(c, l) = [c EXCEPT !.users = t]
  BY DEF Removed
<1> HIDE DEF i
<1>5. /\ t \in Seq(Logins) /\ Len(t) = Len(c.users) - 1
      /\ \A k \in 1..Len(t) : t[k] = IF k < i THEN c.users[k] ELSE c.users[k + 1]
  BY <1>1, <1>3, WithoutElement
<1> HIDE DEF t
<1>6. /\ Removed(c, l) \in Chat /\ Removed(c, l).users = t
      /\ Removed(c, l).creator = c.creator
  BY <1>4, <1>5 DEF Chat
<1>7. \A k \in 1..Len(t) : UserExists(us, t[k])
  BY <1>1, <1>3, <1>5 DEF ChatSound, Registered
<1>8. \A j, k \in 1..Len(t) : t[j] = t[k] => j = k
  <2> SUFFICES ASSUME NEW j \in 1..Len(t), NEW k \in 1..Len(t), t[j] = t[k]
               PROVE  j = k
    OBVIOUS
  <2> DEFINE from(m) == IF m < i THEN m ELSE m + 1
  <2>1. \A m \in 1..Len(t) : t[m] = c.users[from(m)] /\ from(m) \in 1..Len(c.users)
    BY <1>1, <1>3, <1>5
  <2>2. from(j) = from(k)
    BY <2>1 DEF ChatSound, Once
  <2> QED
    BY <1>3, <2>2
<1> QED
  BY <1>6, <1>7, <1>8 DEF ChatSound, Registered, Once

-----------------------------------------------------------------------------
(* The steps.  A request, a registration, a login, a change of the chats,  *)
(* and the steps that only look at the files.                              *)

\* A child that goes on to a call that adds nobody.
Elsewhere == Places \ {"chatthere", "chatfree", "chatcreate", "addcreator", "adduser"}

\* A call that changes no file, and goes on to one that adds nobody.
LEMMA LooksOnly ==
  ASSUME HInv, NEW p \in Procs, NEW from, NEW to \in Elsewhere, Goto(p, from, to),
         UNCHANGED <<users, chats, tokens, req>>
  PROVE  HInv'
<1>1. Types'
  BY DEF HInv, Types, Goto, Elsewhere
<1>2. Known'
  BY DEF HInv, Known, Types, Goto, Elsewhere, UserExists
<1>3. AllSound'
  BY DEF HInv, AllSound
<1> QED
  BY <1>1, <1>2, <1>3 DEF HInv

\* A request starts with a call that adds nobody.
LEMMA RequestArrives ==
  ASSUME HInv, NEW p \in Procs, NEW r \in Request, Receive(p, r)
  PROVE  HInv'
<1>1. /\ FirstCall(r.kind) \in Elsewhere \cup {"chatfree", "chatthere"}
      /\ FirstCall(r.kind) = "chatthere" => r.kind \in OfAChat
  BY DEF FirstCall, Elsewhere, Places, OfAChat, Request, Kinds
<1>2. FirstCall(r.kind) = "chatfree" => r.kind = "create"
  BY DEF FirstCall, Request, Kinds
<1>3. r.kind = "create" => r.by \in tokens
  BY DEF Receive, Open
<1>4. Types'
  BY <1>1 DEF HInv, Types, Receive, Goto, files, Elsewhere, Places
<1>5. Known'
  BY <1>1, <1>2, <1>3 DEF HInv, Types, Known, Receive, Goto, files, Elsewhere
<1>6. AllSound'
  BY DEF HInv, AllSound, Receive, files
<1> QED
  BY <1>4, <1>5, <1>6 DEF HInv

\* user_create: a further user disturbs nobody.
LEMMA UserRegisters ==
  ASSUME HInv, NEW p \in Procs, UserCreate(p)
  PROVE  HInv'
<1>1. CASE UNCHANGED users
  BY <1>1, LooksOnly DEF UserCreate, Reply, Elsewhere, Places
<1>2. CASE users' = Append(users, NewUser(p))
  <2>1. NewUser(p) \in User
    BY DEF NewUser, HInv, Types, Request, User
  <2>2. /\ \A l : UserExists(users, l) => UserExists(users', l)
        /\ \A c : ChatSound(users, c) => ChatSound(users', c)
    BY <1>2, <2>1, StillExists, StillSound DEF HInv, Types
  <2>3. pc' = [pc EXCEPT ![p] = "idle"] /\ UNCHANGED <<chats, tokens, req>>
    BY DEF UserCreate, Reply, Goto
  <2>4. Types'
    BY <1>2, <2>1, <2>3, AppendProperties DEF HInv, Types, Places
  <2>5. Known'
    BY <2>2, <2>3 DEF HInv, Known, Types
  <2>6. AllSound'
    BY <2>2, <2>3 DEF HInv, AllSound
  <2> QED
    BY <2>4, <2>5, <2>6 DEF HInv
<1> QED
  BY <1>1, <1>2 DEF UserCreate, UserAppended

\* The password is right: only a user gets a token.
LEMMA UserLogsIn ==
  ASSUME HInv, NEW p \in Procs, Password(p)
  PROVE  HInv'
<1>1. CASE UNCHANGED tokens
  BY <1>1, LooksOnly DEF Password, Reply, Elsewhere, Places
<1>2. CASE tokens' = tokens \cup {req[p].login} /\ UserExists(users, req[p].login)
  <2>1. pc' = [pc EXCEPT ![p] = "idle"] /\ UNCHANGED <<users, chats, req>>
    BY DEF Password, Reply, Goto
  <2>2. Types'
    BY <2>1 DEF HInv, Types, Places
  <2>3. Known'
    BY <1>2, <2>1 DEF HInv, Known, Types
  <2>4. AllSound'
    BY <2>1 DEF HInv, AllSound
  <2> QED
    BY <2>2, <2>3, <2>4 DEF HInv
<1>3. ASSUME NEW us \in Loaded(users), UserExists(us, req[p].login)
      PROVE  UserExists(users, req[p].login)
  BY <1>3 DEF Loaded, UserExists
<1> QED
  BY <1>1, <1>2, <1>3 DEF Password

\* A change of the chats that leaves sound chats.
LEMMA ChatsChange ==
  ASSUME HInv, NEW p \in Procs, NEW from, NEW to \in Elsewhere, Goto(p, from, to),
         chats' \in Seq(Chat),
         \A i \in 1..Len(chats') : ChatSound(users, chats'[i]),
         UNCHANGED <<users, tokens, req>>
  PROVE  HInv'
<1>1. Types'
  BY DEF HInv, Types, Goto, Elsewhere
<1>2. Known'
  BY DEF HInv, Known, Types, Goto, Elsewhere
<1>3. AllSound'
  BY DEF AllSound
<1> QED
  BY <1>1, <1>2, <1>3 DEF HInv

\* One chat replaced by a sound one.
LEMMA OneChatChanges ==
  ASSUME HInv, NEW i \in 1..Len(chats), NEW c \in Chat, ChatSound(users, c),
         chats' = [chats EXCEPT ![i] = c]
  PROVE  chats' \in Seq(Chat) /\ \A k \in 1..Len(chats') : ChatSound(users, chats'[k])
<1>1. chats \in Seq(Chat)
  BY DEF HInv, Types
<1>2. /\ chats' \in Seq(Chat) /\ Len(chats') = Len(chats)
      /\ \A k \in 1..Len(chats) : chats'[k] = IF k = i THEN c ELSE chats[k]
  BY <1>1, ExceptSeq
<1> QED
  BY <1>2 DEF HInv, AllSound

\* repo_chat_add_user for somebody registered.
LEMMA AddToSound ==
  ASSUME HInv, NEW n, NEW l \in Logins, UserExists(users, l), AddTo(n, l)
  PROVE  chats' \in Seq(Chat) /\ \A k \in 1..Len(chats') : ChatSound(users, chats'[k])
<1>1. PICK i \in 1..Len(chats) : chats' = [chats EXCEPT ![i] = Added(@, l)]
  BY DEF AddTo
<1>2. chats[i] \in Chat /\ ChatSound(users, chats[i])
  BY ElementOfSeq DEF HInv, Types, AllSound
<1>3. Added(chats[i], l) \in Chat /\ ChatSound(users, Added(chats[i], l))
  BY <1>2, AddedSound
<1>4. chats' = [chats EXCEPT ![i] = Added(chats[i], l)]
  BY <1>1
<1> QED
  BY <1>3, <1>4, OneChatChanges

\* chat_create: the creator of the new chat is a user.
LEMMA ChatIsCreated ==
  ASSUME HInv, NEW p \in Procs, ChatCreate(p)
  PROVE  HInv'
<1>1. CASE UNCHANGED chats /\ Reply(p, "chatcreate", "internal")
  BY <1>1, LooksOnly DEF ChatCreate, Reply, Elsewhere, Places
<1>2. CASE Continue(p, "chatcreate", "addcreator") /\ chats' = Append(chats, NewChat(p))
  <2>1. req[p].name \in Names /\ req[p].by \in Logins
    BY DEF HInv, Types, Request
  <2>2. UserExists(users, req[p].by)
    BY <1>2 DEF HInv, Known, Continue, Goto
  <2>3. /\ <<req[p].by>> \in Seq(Logins) /\ Len(<<req[p].by>>) = 1
        /\ <<req[p].by>>[1] = req[p].by
    BY <2>1
  <2>4. NewChat(p) \in Chat /\ ChatSound(users, NewChat(p))
    BY <2>1, <2>2, <2>3 DEF NewChat, Chat, ChatSound, Registered, Once
  <2>5. /\ chats' \in Seq(Chat) /\ Len(chats') = Len(chats) + 1 /\ Len(chats) \in Nat
        /\ \A k \in 1..Len(chats) : chats'[k] = chats[k]
        /\ chats'[Len(chats) + 1] = NewChat(p)
    BY <1>2, <2>4, AppendProperties DEF HInv, Types
  <2>6. UNCHANGED <<users, tokens, req>> /\ pc' = [pc EXCEPT ![p] = "addcreator"]
    BY <1>2 DEF ChatCreate, Continue, Goto
  <2>7. Types'
    BY <2>5, <2>6 DEF HInv, Types, Places
  <2>8. Known'
    BY <2>2, <2>6 DEF HInv, Types, Known
  <2>9. AllSound'
    <3> SUFFICES ASSUME NEW k \in 1..Len(chats') PROVE ChatSound(users, chats'[k])
      BY <2>6 DEF AllSound
    <3>1. CASE k \in 1..Len(chats)
      BY <3>1, <2>5 DEF HInv, AllSound
    <3>2. CASE k = Len(chats) + 1
      BY <3>2, <2>4, <2>5
    <3> QED
      BY <2>5, <3>1, <3>2
  <2> QED
    BY <2>7, <2>8, <2>9 DEF HInv
<1> QED
  BY <1>1, <1>2 DEF ChatCreate

\* The creator becomes a member of the chat, once.
LEMMA CreatorIsAdded ==
  ASSUME HInv, NEW p \in Procs, AddCreator(p)
  PROVE  HInv'
<1>1. CASE UNCHANGED chats
  BY <1>1, LooksOnly DEF AddCreator, Reply, Elsewhere, Places
<1>2. CASE AddTo(req[p].name, req[p].by)
  <2>1. UserExists(users, req[p].by) /\ req[p].by \in Logins
    BY DEF HInv, Known, Types, Request, AddCreator, Reply, Goto
  <2>2. chats' \in Seq(Chat) /\ \A k \in 1..Len(chats') : ChatSound(users, chats'[k])
    BY <1>2, <2>1, AddToSound
  <2> QED
    BY <2>2, ChatsChange DEF AddCreator, Reply, Elsewhere, Places
<1> QED
  BY <1>1, <1>2 DEF AddCreator

\* chat_add_user: who is added is a user, and becomes a member once.
LEMMA UserIsAdded ==
  ASSUME HInv, NEW p \in Procs, AddUser(p)
  PROVE  HInv'
<1>1. CASE UNCHANGED chats
  BY <1>1, LooksOnly DEF AddUser, Reply, Continue, Elsewhere, Places
<1>2. CASE AddTo(req[p].name, req[p].login) /\ Continue(p, "adduser", "members")
  <2>1. UserExists(users, req[p].login) /\ req[p].login \in Logins
    BY <1>2 DEF HInv, Known, Types, Request, Continue, Goto
  <2>2. chats' \in Seq(Chat) /\ \A k \in 1..Len(chats') : ChatSound(users, chats'[k])
    BY <1>2, <2>1, AddToSound
  <2> QED
    BY <1>2, <2>2, ChatsChange DEF AddUser, Continue, Elsewhere, Places
<1> QED
  BY <1>1, <1>2 DEF AddUser

\* chat_remove_user: the others stay, once each.
LEMMA UserIsRemoved ==
  ASSUME HInv, NEW p \in Procs, RemoveUser(p)
  PROVE  HInv'
<1>1. CASE UNCHANGED chats
  BY <1>1, LooksOnly DEF RemoveUser, Reply, Continue, Elsewhere, Places
<1>2. CASE \E i \in 1..Len(chats) :
             /\ IsMember(chats[i], req[p].login)
             /\ chats' = [chats EXCEPT ![i] = Removed(@, req[p].login)]
             /\ Continue(p, "removeuser", "members")
  <2>1. PICK i \in 1..Len(chats) :
             /\ IsMember(chats[i], req[p].login)
             /\ chats' = [chats EXCEPT ![i] = Removed(chats[i], req[p].login)]
    BY <1>2
  <2>2. chats[i] \in Chat /\ ChatSound(users, chats[i])
    BY ElementOfSeq DEF HInv, Types, AllSound
  <2>3. /\ Removed(chats[i], req[p].login) \in Chat
        /\ ChatSound(users, Removed(chats[i], req[p].login))
    BY <2>1, <2>2, RemovedSound
  <2>4. chats' \in Seq(Chat) /\ \A k \in 1..Len(chats') : ChatSound(users, chats'[k])
    BY <2>1, <2>3, OneChatChanges
  <2> QED
    BY <1>2, <2>4, ChatsChange DEF RemoveUser, Continue, Elsewhere, Places
<1> QED
  BY <1>1, <1>2 DEF RemoveUser

\* chat_delete: the other chats stay as they were.
LEMMA ChatIsDeleted ==
  ASSUME HInv, NEW p \in Procs, ChatDelete(p)
  PROVE  HInv'
<1>1. CASE UNCHANGED chats
  BY <1>1, LooksOnly DEF ChatDelete, Reply, Elsewhere, Places
<1>2. CASE \E i \in 1..Len(chats) :
             /\ chats' = SubSeq(chats, 1, i - 1) \o SubSeq(chats, i + 1, Len(chats))
             /\ Reply(p, "chatdelete", "ok")
  <2>1. PICK i \in 1..Len(chats) :
             chats' = SubSeq(chats, 1, i - 1) \o SubSeq(chats, i + 1, Len(chats))
    BY <1>2
  <2>2. chats \in Seq(Chat) /\ Len(chats) \in Nat
    BY DEF HInv, Types
  <2>3. /\ chats' \in Seq(Chat) /\ Len(chats') = Len(chats) - 1
        /\ \A k \in 1..Len(chats') : chats'[k] = IF k < i THEN chats[k] ELSE chats[k + 1]
    BY <2>1, <2>2, WithoutElement
  <2>4. \A k \in 1..Len(chats') : ChatSound(users, chats'[k])
    BY <2>2, <2>3 DEF HInv, AllSound
  <2> QED
    BY <1>2, <2>3, <2>4, ChatsChange DEF ChatDelete, Reply, Elsewhere, Places
<1> QED
  BY <1>1, <1>2 DEF ChatDelete

\* A request goes on when there is no such chat, and then it creates one.
LEMMA ChatIsLookedFor ==
  ASSUME HInv, NEW p \in Procs, ChatFree(p)
  PROVE  HInv'
<1>1. UNCHANGED <<users, chats, tokens, req>> /\ pc[p] = "chatfree"
  BY DEF ChatFree, Reply, Continue, Goto, files
<1>2. PICK to \in {"idle", "chatcreate"} : pc' = [pc EXCEPT ![p] = to]
  BY DEF ChatFree, Reply, Continue, Goto
<1>3. Types'
  BY <1>1, <1>2 DEF HInv, Types, Places
<1>4. Known'
  BY <1>1, <1>2 DEF HInv, Known, Types
<1>5. AllSound'
  BY <1>1 DEF HInv, AllSound
<1> QED
  BY <1>3, <1>4, <1>5 DEF HInv

\* A request that goes on to add a user has seen it in the file.
LEMMA UserIsLookedFor ==
  ASSUME HInv, NEW p \in Procs, UserThere(p)
  PROVE  HInv'
<1>1. UNCHANGED <<users, chats, tokens, req>>
  BY DEF UserThere, files
<1>2. CASE pc' = [pc EXCEPT ![p] = "idle"] /\ pc[p] = "userthere"
  BY <1>1, <1>2, LooksOnly DEF Goto, Elsewhere, Places
<1>3. CASE UserExists(users, req[p].login) /\ pc' = [pc EXCEPT ![p] = "adduser"]
  <2>1. Types'
    BY <1>1, <1>3 DEF HInv, Types, Places
  <2>2. Known'
    BY <1>1, <1>3 DEF HInv, Known, Types
  <2>3. AllSound'
    BY <1>1 DEF HInv, AllSound
  <2> QED
    BY <2>1, <2>2, <2>3 DEF HInv
<1>4. ASSUME NEW us \in Loaded(users), UserExists(us, req[p].login)
      PROVE  UserExists(users, req[p].login)
  BY <1>4 DEF Loaded, UserExists
<1> QED
  BY <1>2, <1>3, <1>4 DEF UserThere, Reply, Continue, Goto

\* The steps that change no file and lead to no call that adds anybody.
LEMMA OthersLook ==
  ASSUME HInv, NEW p \in Procs,
         \/ UserFree(p) \/ UserKnown(p) \/ ChatThere(p) \/ Host(p) \/ Members(p)
         \/ List(p) \/ UserList(p) \/ Count(p) \/ InfoLogins(p)
  PROVE  HInv'
<1> USE DEF Reply, Continue, files
<1>1. CASE UserFree(p)
  BY <1>1, LooksOnly DEF UserFree, Elsewhere, Places
<1>2. CASE UserKnown(p)
  BY <1>2, LooksOnly DEF UserKnown, Elsewhere, Places
<1>3. CASE ChatThere(p)
  <2>1. pc[p] = "chatthere"
    BY <1>3 DEF ChatThere, Goto
  <2>2. NextCall(req[p].kind) \in Elsewhere
    BY <2>1 DEF HInv, Known, OfAChat, NextCall, Elsewhere, Places
  <2>3. "idle" \in Elsewhere
    BY DEF Elsewhere, Places
  <2> QED
    BY <1>3, <2>2, <2>3, LooksOnly DEF ChatThere
<1>4. CASE Host(p)
  BY <1>4, LooksOnly DEF Host, Elsewhere, Places
<1>5. CASE Members(p)
  BY <1>5, LooksOnly DEF Members, Elsewhere, Places
<1>6. CASE List(p)
  BY <1>6, LooksOnly DEF List, Elsewhere, Places
<1>7. CASE UserList(p)
  BY <1>7, LooksOnly DEF UserList, Elsewhere, Places
<1>8. CASE Count(p)
  BY <1>8, LooksOnly DEF Count, Elsewhere, Places
<1>9. CASE InfoLogins(p)
  BY <1>9, LooksOnly DEF InfoLogins, Elsewhere, Places
<1> QED
  BY <1>1, <1>2, <1>3, <1>4, <1>5, <1>6, <1>7, <1>8, <1>9

\* The calls of the server information change no file.
LEMMA ChatsAreCounted ==
  ASSUME HInv, NEW p \in Procs, InfoChats(p)
  PROVE  HInv'
<1>1. CASE UNCHANGED pc
  <2>1. UNCHANGED <<users, chats, tokens, req>>
    BY DEF InfoChats, files
  <2> QED
    BY <1>1, <2>1 DEF HInv, Types, Known, AllSound
<1>2. CASE Reply(p, "chatsof", "ok")
  BY <1>2, LooksOnly DEF InfoChats, Reply, files, Elsewhere, Places
<1> QED
  BY <1>1, <1>2 DEF InfoChats

\* Every handler keeps the invariant.
LEMMA HandlerKeeps ==
  ASSUME HInv, NEW p \in Procs, Handle(p)
  PROVE  HInv'
<1>1. CASE UserCreate(p)
  BY <1>1, UserRegisters
<1>2. CASE Password(p)
  BY <1>2, UserLogsIn
<1>3. CASE ChatFree(p)
  BY <1>3, ChatIsLookedFor
<1>4. CASE ChatCreate(p)
  BY <1>4, ChatIsCreated
<1>5. CASE AddCreator(p)
  BY <1>5, CreatorIsAdded
<1>6. CASE ChatDelete(p)
  BY <1>6, ChatIsDeleted
<1>7. CASE UserThere(p)
  BY <1>7, UserIsLookedFor
<1>8. CASE AddUser(p)
  BY <1>8, UserIsAdded
<1>9. CASE RemoveUser(p)
  BY <1>9, UserIsRemoved
<1>10. CASE InfoChats(p)
  BY <1>10, ChatsAreCounted
<1> QED
  BY <1>1, <1>2, <1>3, <1>4, <1>5, <1>6, <1>7, <1>8, <1>9, <1>10, OthersLook DEF Handle

\* The files are sound at the start, and no request is being handled.
LEMMA HandlersInit == ASSUME InitiallySound, Init PROVE HInv
<1>1. NoRequest \in Request /\ NoRequest.kind = "info"
  BY HandlersAssumption DEF NoRequest, Request, Kinds
<1>2. Types
  BY <1>1, HandlersAssumption DEF Init, Types, Places
<1>3. Known
  BY DEF Init, Known, UserExists
<1>4. AllSound
  BY DEF Init, AllSound, InitiallySound
<1> QED
  BY <1>2, <1>3, <1>4 DEF HInv

-----------------------------------------------------------------------------
(* What it says of the properties. *)

\* The number of elements of a sequence without repetitions.
LEMMA OnceCounted ==
  ASSUME NEW c \in Chat, Once(c)
  PROVE  Cardinality(MembersOf(c)) = Len(c.users)
<1>1. c.users \in Seq(Logins) /\ Len(c.users) \in Nat
  BY DEF Chat
<1> DEFINE f == [k \in 1..Len(c.users) |-> c.users[k]]
<1>2. f \in Bijection(1..Len(c.users), MembersOf(c))
  <2>1. f \in Injection(1..Len(c.users), MembersOf(c))
    BY DEF Injection, IsInjective, Once, MembersOf
  <2>2. f \in Surjection(1..Len(c.users), MembersOf(c))
    BY DEF Surjection, MembersOf
  <2> QED
    BY <2>1, <2>2 DEF Bijection
<1>3. ExistsBijection(1..Len(c.users), MembersOf(c))
  BY <1>2 DEF ExistsBijection
<1> QED
  BY <1>1, <1>3, FS_CountingElements

\* A chat whose users are listed once has as many members as entries.
LEMMA SoundMembers == ASSUME HInv PROVE MembersSound
<1> SUFFICES ASSUME NEW i \in 1..Len(chats)
             PROVE  /\ \A l \in MembersOf(chats[i]) \cup {chats[i].creator} : UserExists(users, l)
                    /\ Cardinality(MembersOf(chats[i])) = Len(chats[i].users)
  BY DEF MembersSound
<1>1. chats[i] \in Chat /\ ChatSound(users, chats[i])
  BY ElementOfSeq DEF HInv, Types, AllSound
<1> QED
  BY <1>1, OnceCounted DEF ChatSound, Registered, MembersOf

\* The users are what they were, or one has been added at the end.
LEMMA UsersGrow ==
  ASSUME HInv, NEW p \in Procs, Handle(p)
  PROVE  users' = users \/ \E u \in User : users' = Append(users, u)
<1>1. CASE UserCreate(p)
  <2>1. NewUser(p) \in User
    BY DEF NewUser, HInv, Types, Request, User
  <2> QED
    BY <1>1, <2>1 DEF UserCreate, UserAppended
<1>2. CASE users' = users
  BY <1>2
<1> QED
  BY <1>1, <1>2 DEF Handle, UserFree, UserKnown, Password, ChatFree, ChatCreate,
     AddCreator, ChatThere, Host, ChatDelete, UserThere, AddUser, RemoveUser, Members,
     List, UserList, Count, InfoLogins, InfoChats, files

\* A registration changes no password: the first user with a login counts.
LEMMA SameHash ==
  ASSUME NEW us \in Seq(User), NEW u \in User, NEW l, UserExists(us, l)
  PROVE  HashOf(Append(us, u), l) = HashOf(us, l)
<1> DEFINE a == Append(us, u)
           IsFirst(s, i) == /\ i \in 1..Len(s) /\ s[i].login = l
                            /\ \A j \in 1..(i - 1) : s[j].login # l
<1>1. /\ Len(a) = Len(us) + 1 /\ Len(us) \in Nat
      /\ \A i \in 1..Len(us) : a[i] = us[i]
  BY AppendProperties
<1> HIDE DEF a
<1>2. PICK i \in 1..Len(us) : IsFirst(us, i)
  <2> DEFINE T == {k \in 1..Len(us) : us[k].login = l}
  <2>1. T \subseteq 1..Len(us) /\ T # {}
    BY DEF UserExists
  <2> HIDE DEF T
  <2>2. PICK k \in T : \A j \in 1..(k - 1) : j \notin T
    BY <1>1, <2>1, FirstIndex
  <2>3. k \in 1..Len(us) /\ us[k].login = l
    BY <2>2 DEF T
  <2>4. \A j \in 1..(k - 1) : j \in 1..Len(us)
    BY <1>1, <2>3
  <2> QED
    BY <2>2, <2>3, <2>4 DEF T
<1>3. i \in 1..Len(a) /\ IsFirst(a, i)
  BY <1>1, <1>2
<1>4. ASSUME NEW s, NEW k \in 1..Len(s), NEW j \in 1..Len(s), Len(s) \in Nat,
             IsFirst(s, k), IsFirst(s, j)
      PROVE  k = j
  BY <1>4
<1>5. HashOf(us, l) = us[i].pass
  <2>1. (CHOOSE k \in 1..Len(us) : us[k].login = l /\ \A j \in 1..(k - 1) : us[j].login # l) = i
    BY <1>1, <1>2, <1>4
  <2> QED
    BY <2>1 DEF HashOf
<1>6. HashOf(a, l) = a[i].pass
  <2>1. (CHOOSE k \in 1..Len(a) : a[k].login = l /\ \A j \in 1..(k - 1) : a[j].login # l) = i
    BY <1>1, <1>3, <1>4
  <2> QED
    BY <2>1 DEF HashOf
<1> QED
  BY <1>1, <1>2, <1>5, <1>6 DEF a

\* the step that PasswordStable allows
PasswordsStay ==
  \A l \in Logins : UserExists(users, l) =>
    UserExists(users', l) /\ HashOf(users', l) = HashOf(users, l)

\* Users are only appended, so the first of a login stays the first.
LEMMA HandlerKeepsPasswords ==
  ASSUME HInv, NEW p \in Procs, Handle(p)
  PROVE  PasswordsStay
BY UsersGrow, StillExists, SameHash, ZenonT(40) DEF PasswordsStay, HInv, Types

\* The other types: what children answer, and what handle_info has on its way.
OtherTypes ==
  /\ tokens \subseteq Logins /\ code \in [Procs -> Codes]
  /\ todo \in [Procs -> Seq(Logins)] /\ seen \in [Procs -> SUBSET Names]
  /\ calls \in [Procs -> 0..MaxCalls]

\* What is loaded is the file, or nothing.
LEMMA LoadedTyped ==
  ASSUME NEW S, NEW file \in Seq(S), NEW s \in Loaded(file)
  PROVE  s \in Seq(S)
<1>1. s = file \/ s = <<>>
  BY DEF Loaded
<1>2. <<>> \in Seq(S)
  BY EmptySeq
<1> QED
  BY <1>1, <1>2, Zenon

\* The logins of a file of users.
LEMMA LoginsTyped ==
  ASSUME NEW us \in Seq(User)
  PROVE  /\ \A i \in 1..Len(us) : us[i].login \in Logins
         /\ [i \in 1..Len(us) |-> us[i].login] \in Seq(Logins)
<1>1. Len(us) \in Nat /\ \A i \in 1..Len(us) : us[i] \in User
  BY ElementOfSeq
<1>2. \A i \in 1..Len(us) : us[i].login \in Logins
  BY <1>1 DEF User
<1> QED
  BY <1>1, <1>2

\* Every handler keeps the types of the answers.
LEMMA HandlerKeepsTypes ==
  ASSUME HInv, OtherTypes, NEW p \in Procs, Handle(p)
  PROVE  OtherTypes'
<1> USE DEF OtherTypes, Reply, Continue, Goto, files, info, Codes
<1>1. CASE UserFree(p) \/ UserCreate(p) \/ UserKnown(p)
  BY <1>1 DEF UserFree, UserCreate, UserKnown
<1>2. CASE Password(p)
  <2>1. req[p].login \in Logins
    BY DEF HInv, Types, Request
  <2> QED
    BY <1>2, <2>1 DEF Password
<1>3. CASE ChatFree(p) \/ ChatCreate(p) \/ AddCreator(p)
  BY <1>3 DEF ChatFree, ChatCreate, AddCreator
<1>4. CASE ChatThere(p) \/ Host(p) \/ ChatDelete(p)
  BY <1>4 DEF ChatThere, Host, ChatDelete
<1>5. CASE UserThere(p) \/ AddUser(p) \/ RemoveUser(p)
  BY <1>5 DEF UserThere, AddUser, RemoveUser
<1>6. CASE Members(p) \/ List(p) \/ UserList(p) \/ Count(p)
  BY <1>6 DEF Members, List, UserList, Count
<1>7. CASE InfoLogins(p)
  <2>1. \A us \in Loaded(users) : [i \in 1..Len(us) |-> us[i].login] \in Seq(Logins)
    <3> SUFFICES ASSUME NEW us \in Loaded(users)
                 PROVE  [i \in 1..Len(us) |-> us[i].login] \in Seq(Logins)
      OBVIOUS
    <3>1. us \in Seq(User)
      BY LoadedTyped DEF HInv, Types
    <3> QED
      BY <3>1, LoginsTyped
  <2> QED
    BY <1>7, <2>1 DEF InfoLogins
<1>8. CASE InfoChats(p)
  <2>1. ASSUME NEW cs \in Loaded(chats), NEW l PROVE ChatsOf(cs, l) \subseteq Names
    <3>1. cs \in Seq(Chat)
      BY LoadedTyped DEF HInv, Types
    <3>2. \A i \in 1..Len(cs) : cs[i] \in Chat
      BY <3>1, ElementOfSeq
    <3>3. \A i \in 1..Len(cs) : cs[i].name \in Names
      BY <3>2 DEF Chat
    <3> QED
      BY <3>3 DEF ChatsOf
  <2>2. todo[p] \in Seq(Logins) /\ seen[p] \subseteq Names
    OBVIOUS
  <2>3. todo[p] # <<>> => Tail(todo[p]) \in Seq(Logins)
    BY <2>2, HeadTailProperties
  <2> QED
    BY <1>8, <2>1, <2>2, <2>3 DEF InfoChats
<1> QED
  BY <1>1, <1>2, <1>3, <1>4, <1>5, <1>6, <1>7, <1>8 DEF Handle

\* So does a new request.
LEMMA ReceiveKeepsTypes ==
  ASSUME OtherTypes, NEW p \in Procs, NEW r \in Request, Receive(p, r)
  PROVE  OtherTypes'
BY HandlersAssumption DEF OtherTypes, Receive, files, info, Codes

\* They hold at the start.
LEMMA OtherTypesInit == ASSUME Init PROVE OtherTypes
<1>1. tokens \subseteq {users[i].login : i \in 1..Len(users)} /\ users \in Seq(User)
  BY HandlersAssumption DEF Init
<1>2. \A i \in 1..Len(users) : users[i].login \in Logins
  BY <1>1, LoginsTyped
<1>3. tokens \subseteq Logins
  BY <1>1, <1>2
<1> QED
  BY <1>3, HandlersAssumption DEF Init, OtherTypes, Codes

\* A child goes from one of these calls to another, as part of one request.
ChatPlaces == Places \ {"idle", "target", "store", "tell", "load"}

\* The handlers for users and chats lead to no call of those for messages.
LEMMA HandlerStays ==
  ASSUME HInv, NEW p \in Procs, Handle(p)
  PROVE  /\ pc[p] \in ChatPlaces /\ calls' = calls
         /\ \E to \in ChatPlaces \cup {"idle"} : pc' = [pc EXCEPT ![p] = to]
<1> USE DEF Reply, Continue, Goto, ChatPlaces, Places
<1> DEFINE Goal == /\ pc[p] \in ChatPlaces /\ calls' = calls
                   /\ \E to \in ChatPlaces \cup {"idle"} : pc' = [pc EXCEPT ![p] = to]
<1>1. CASE UserFree(p) \/ UserCreate(p) \/ UserKnown(p) \/ Password(p)
  BY <1>1 DEF UserFree, UserCreate, UserKnown, Password
<1>2. CASE ChatFree(p) \/ ChatCreate(p) \/ AddCreator(p)
  BY <1>2 DEF ChatFree, ChatCreate, AddCreator
<1>3. CASE ChatThere(p)
  <2>1. pc[p] = "chatthere"
    BY <1>3 DEF ChatThere
  <2>2. NextCall(req[p].kind) \in ChatPlaces
    BY <2>1 DEF HInv, Known, OfAChat, NextCall
  <2> QED
    BY <1>3, <2>1, <2>2 DEF ChatThere
<1>4. CASE Host(p) \/ ChatDelete(p)
  BY <1>4 DEF Host, ChatDelete
<1>5. CASE UserThere(p) \/ AddUser(p) \/ RemoveUser(p)
  BY <1>5 DEF UserThere, AddUser, RemoveUser
<1>6. CASE Members(p) \/ List(p) \/ UserList(p) \/ Count(p) \/ InfoLogins(p)
  BY <1>6 DEF Members, List, UserList, Count, InfoLogins
<1>7. CASE InfoChats(p)
  <2>1. pc = [pc EXCEPT ![p] = "chatsof"] \/ pc' # pc
    BY <1>7 DEF InfoChats, HInv, Types
  <2> QED
    BY <1>7, <2>1 DEF InfoChats
<1> QED
  BY <1>1, <1>2, <1>3, <1>4, <1>5, <1>6, <1>7 DEF Handle

-----------------------------------------------------------------------------
(* The handlers for messages. *)

MessagePlaces == {"target", "store", "tell", "load"}

\* a child that handles a message request has one of those that occur
MessageTypes ==
  /\ history \in [Histories -> Seq(Message)]
  /\ mreq \in [Procs -> MessageRequest]
  /\ told \subseteq [to : Logins, history : Histories, message : Message]
  /\ \A p \in Procs : pc[p] \in MessagePlaces => mreq[p] \in Messages /\ calls[p] # 0

\* A message carries the number of the request it came with, and a child that
\* is still to store one has stored only those of earlier requests.
Numbered ==
  \A h \in Histories : \A m \in ToSet(history[h]) :
    /\ m.n <= calls[m.child]
    /\ pc[m.child] \in {"target", "store"} => m.n < calls[m.child]

Distinct == \A h \in Histories : IsInjective(history[h])

\* what a child is about to tell others of is in the history
StoredBeforeTold ==
  \A p \in Procs : pc[p] = "tell" => Mine(p) \in ToSet(history[HistoryOf(mreq[p])])

MInv == /\ HInv /\ OtherTypes /\ MessageTypes /\ Numbered /\ Distinct
        /\ StoredBeforeTold /\ ToldIsStored

-----------------------------------------------------------------------------
(* The operators. *)

\* Every message request is about some history, and by somebody.
LEMMA HistoriesTyped ==
  ASSUME NEW r \in Messages
  PROVE  HistoryOf(r) \in Histories /\ r.by \in Logins
BY MessagesAssumption DEF HistoryOf, Histories, MessageRequest

\* A message of a request that is being handled.
LEMMA MineTyped ==
  ASSUME MInv, NEW p \in Procs, pc[p] \in MessagePlaces
  PROVE  Mine(p) \in Message
<1>1. calls[p] \in 1..MaxCalls
  BY HandlersAssumption DEF MInv, OtherTypes, MessageTypes
<1>2. mreq[p].by \in Logins
  BY HistoriesTyped DEF MInv, MessageTypes
<1> QED
  BY <1>1, <1>2 DEF Mine, Message

\* A new message at the end.
LEMMA AppendNew ==
  ASSUME NEW s \in Seq(Message), NEW m \in Message
  PROVE  /\ Append(s, m) \in Seq(Message)
         /\ ToSet(Append(s, m)) = ToSet(s) \cup {m}
         /\ IsInjective(s) /\ m \notin ToSet(s) => IsInjective(Append(s, m))
<1> DEFINE a == Append(s, m)
<1>1. /\ a \in Seq(Message) /\ Len(a) = Len(s) + 1 /\ Len(s) \in Nat
      /\ \A i \in 1..Len(s) : a[i] = s[i]
      /\ a[Len(s) + 1] = m
  BY AppendProperties
<1>2. DOMAIN s = 1..Len(s) /\ DOMAIN a = 1..Len(a)
  BY <1>1
<1> HIDE DEF a
<1>3. \A i \in 1..Len(a) : i \in 1..Len(s) \/ i = Len(s) + 1
  BY <1>1
<1>4. 1..Len(s) \subseteq 1..Len(a) /\ Len(s) + 1 \in 1..Len(a)
  BY <1>1
<1>5. ToSet(a) = ToSet(s) \cup {m}
  BY <1>1, <1>2, <1>3, <1>4 DEF ToSet
<1>6. ASSUME IsInjective(s), m \notin ToSet(s) PROVE IsInjective(a)
  <2> SUFFICES ASSUME NEW i \in 1..Len(a), NEW j \in 1..Len(a), a[i] = a[j] PROVE i = j
    BY <1>2 DEF IsInjective
  <2>1. \A k \in 1..Len(s) : s[k] # m
    BY <1>2, <1>6 DEF ToSet
  <2>2. CASE i \in 1..Len(s) /\ j \in 1..Len(s)
    BY <2>2, <1>1, <1>2, <1>6 DEF IsInjective
  <2>3. CASE i = Len(s) + 1 /\ j \in 1..Len(s)
    BY <2>1, <2>3, <1>1
  <2>4. CASE j = Len(s) + 1 /\ i \in 1..Len(s)
    BY <2>1, <2>4, <1>1
  <2> QED
    BY <1>3, <2>2, <2>3, <2>4
<1> QED
  BY <1>1, <1>5, <1>6 DEF a

-----------------------------------------------------------------------------
(* Steps that leave the histories alone. *)

\* Going on within a request, without getting to tell.
LEMMA GoesOn ==
  ASSUME MInv, UNCHANGED mvars, UNCHANGED calls, NEW p \in Procs, NEW to \in Places,
         pc' = [pc EXCEPT ![p] = to], to # "tell",
         to \in MessagePlaces => pc[p] \in MessagePlaces,
         to \in {"target", "store"} => pc[p] \in {"target", "store"}
  PROVE  MessageTypes' /\ Numbered' /\ Distinct' /\ StoredBeforeTold' /\ ToldIsStored'
<1> USE DEF MInv, mvars
<1>0. pc \in [Procs -> Places]
  BY DEF HInv, Types
<1>1. MessageTypes'
  BY <1>0 DEF MessageTypes
<1>2. Numbered'
  <2> SUFFICES ASSUME NEW h \in Histories, NEW m \in ToSet(history[h])
               PROVE  /\ m.n <= calls[m.child]
                      /\ pc'[m.child] \in {"target", "store"} => m.n < calls[m.child]
    BY DEF Numbered
  <2> QED
    BY <1>0 DEF Numbered
<1>3. Distinct'
  BY DEF Distinct
<1>4. StoredBeforeTold'
  BY <1>0 DEF StoredBeforeTold, Mine
<1>5. ToldIsStored'
  BY DEF ToldIsStored
<1> QED
  BY <1>1, <1>2, <1>3, <1>4, <1>5

\* A step of the handlers for users and chats leaves the messages alone.
LEMMA ChatStep ==
  ASSUME MInv, NEW p \in Procs, Handle(p), UNCHANGED mvars
  PROVE  MInv'
<1>1. HInv' /\ OtherTypes'
  BY HandlerKeeps, HandlerKeepsTypes DEF MInv
<1>2. /\ UNCHANGED calls
      /\ \E to \in ChatPlaces \cup {"idle"} : pc' = [pc EXCEPT ![p] = to]
  BY HandlerStays DEF MInv
<1>3. PICK to \in ChatPlaces \cup {"idle"} : pc' = [pc EXCEPT ![p] = to]
  BY <1>2
<1>4. to \in Places /\ to \notin MessagePlaces
  BY DEF ChatPlaces, Places, MessagePlaces
<1>5. to \notin {"target", "store", "tell"}
  BY <1>4 DEF MessagePlaces
<1>6. MessageTypes' /\ Numbered' /\ Distinct' /\ StoredBeforeTold' /\ ToldIsStored'
  BY <1>2, <1>3, <1>4, <1>5, GoesOn
<1> QED
  BY <1>1, <1>6 DEF MInv

\* A new request has a new number.
LEMMA NewRequest ==
  ASSUME MInv, NEW p \in Procs, NEW to \in Places \ {"tell"},
         pc' = [pc EXCEPT ![p] = to], calls' = [calls EXCEPT ![p] = @ + 1],
         mreq' \in [Procs -> MessageRequest],
         \A q \in Procs \ {p} : mreq'[q] = mreq[q],
         to \in MessagePlaces => mreq'[p] \in Messages,
         UNCHANGED <<history, told>>
  PROVE  MessageTypes' /\ Numbered' /\ Distinct' /\ StoredBeforeTold' /\ ToldIsStored'
<1> USE DEF MInv
<1>0. pc \in [Procs -> Places] /\ calls \in [Procs -> Nat]
  BY HandlersAssumption DEF HInv, Types, OtherTypes
<1>1. MessageTypes'
  BY <1>0 DEF MessageTypes
<1>2. Numbered'
  <2> SUFFICES ASSUME NEW h \in Histories, NEW m \in ToSet(history[h])
               PROVE  /\ m.n <= calls'[m.child]
                      /\ pc'[m.child] \in {"target", "store"} => m.n < calls'[m.child]
    BY DEF Numbered
  <2>1. m \in Message
    BY DEF MessageTypes, ToSet
  <2>2. m.child \in Procs /\ m.n \in Nat
    BY <2>1 DEF Message
  <2>3. m.n <= calls[m.child] /\ (pc[m.child] \in {"target", "store"} => m.n < calls[m.child])
    BY DEF Numbered
  <2>4. CASE m.child = p
    BY <1>0, <2>2, <2>3, <2>4
  <2>5. CASE m.child # p
    BY <1>0, <2>2, <2>3, <2>5
  <2> QED
    BY <2>4, <2>5
<1>3. Distinct'
  BY DEF Distinct
<1>4. StoredBeforeTold'
  BY <1>0 DEF StoredBeforeTold, Mine
<1>5. ToldIsStored'
  BY DEF ToldIsStored
<1> QED
  BY <1>1, <1>2, <1>3, <1>4, <1>5

\* So does a request for them.
LEMMA ChatRequest ==
  ASSUME MInv, NEW p \in Procs, NEW r \in Request, Receive(p, r), UNCHANGED mvars
  PROVE  MInv'
<1>1. HInv' /\ OtherTypes'
  BY RequestArrives, ReceiveKeepsTypes DEF MInv
<1>2. /\ pc' = [pc EXCEPT ![p] = FirstCall(r.kind)]
      /\ calls' = [calls EXCEPT ![p] = @ + 1]
  BY DEF Receive, Goto
<1>3. FirstCall(r.kind) \in Places \ {"tell"} /\ FirstCall(r.kind) \notin MessagePlaces
  BY DEF FirstCall, Places, MessagePlaces
<1>4. /\ mreq' \in [Procs -> MessageRequest] /\ \A q \in Procs \ {p} : mreq'[q] = mreq[q]
      /\ UNCHANGED <<history, told>>
  BY DEF MInv, MessageTypes, mvars
<1>5. MessageTypes' /\ Numbered' /\ Distinct' /\ StoredBeforeTold' /\ ToldIsStored'
  BY <1>2, <1>3, <1>4, NewRequest
<1> QED
  BY <1>1, <1>5 DEF MInv

-----------------------------------------------------------------------------
(* The message requests. *)

\* They change nothing the handlers for users and chats look at.
LEMMA FilesAlone ==
  ASSUME MInv, NEW p \in Procs, NEW from, NEW to \in MessagePlaces \cup {"idle"},
         Goto(p, from, to), UNCHANGED <<files, req, info, calls>>,
         code' \in [Procs -> Codes]
  PROVE  HInv' /\ OtherTypes'
<1>1. to \in Elsewhere
  BY DEF MessagePlaces, Elsewhere, Places
<1>2. HInv'
  BY <1>1, LooksOnly DEF MInv, files
<1>3. OtherTypes'
  BY DEF MInv, OtherTypes, files, info
<1> QED
  BY <1>2, <1>3

\* A message request has a number of its own.
LEMMA MessageArrives ==
  ASSUME MInv, NEW p \in Procs, NEW r \in Messages, ReceiveMessage(p, r)
  PROVE  MInv'
<1>1. /\ pc' = [pc EXCEPT ![p] = "target"] /\ calls' = [calls EXCEPT ![p] = @ + 1]
      /\ UNCHANGED <<history, told>> /\ mreq' = [mreq EXCEPT ![p] = r]
  BY DEF ReceiveMessage, Goto
<1>2. r \in MessageRequest
  BY MessagesAssumption
<1>3. /\ mreq' \in [Procs -> MessageRequest] /\ \A q \in Procs \ {p} : mreq'[q] = mreq[q]
      /\ mreq'[p] \in Messages
  BY <1>1, <1>2 DEF MInv, MessageTypes
<1>4. "target" \in Places \ {"tell"}
  BY DEF Places
<1>5. MessageTypes' /\ Numbered' /\ Distinct' /\ StoredBeforeTold' /\ ToldIsStored'
  BY <1>1, <1>3, <1>4, NewRequest
<1>6. HInv'
  <2>1. "target" \in Elsewhere
    BY DEF Elsewhere, Places
  <2> QED
    BY <2>1, LooksOnly DEF MInv, ReceiveMessage, files
<1>7. OtherTypes'
  BY HandlersAssumption DEF MInv, OtherTypes, ReceiveMessage, files, info, Codes
<1> QED
  BY <1>5, <1>6, <1>7 DEF MInv

\* The chat or user is looked for: no message is stored yet.
LEMMA TargetIsChecked ==
  ASSUME MInv, NEW p \in Procs, CheckTarget(p)
  PROVE  MInv'
<1>1. PICK to \in {"store", "load", "idle"} :
        Goto(p, "target", to) /\ code' \in {code, [code EXCEPT ![p] = "notfound"]}
  BY DEF CheckTarget, AfterCheck, Reply, Continue
<1>2. code' \in [Procs -> Codes]
  BY <1>1 DEF MInv, OtherTypes, Codes
<1>3. HInv' /\ OtherTypes'
  BY <1>1, <1>2, FilesAlone DEF CheckTarget, MessagePlaces
<1>4. MessageTypes' /\ Numbered' /\ Distinct' /\ StoredBeforeTold' /\ ToldIsStored'
  <2>1. /\ pc[p] = "target" /\ pc' = [pc EXCEPT ![p] = to] /\ UNCHANGED mvars
        /\ UNCHANGED calls
    BY <1>1 DEF Goto, CheckTarget
  <2>2. to \in Places /\ to # "tell" /\ pc[p] \in MessagePlaces
    BY <2>1 DEF Places, MessagePlaces
  <2> QED
    BY <2>1, <2>2, GoesOn
<1> QED
  BY <1>3, <1>4 DEF MInv

\* Reading a history changes nothing.
LEMMA HistoryIsLoaded ==
  ASSUME MInv, NEW p \in Procs, LoadHistory(p)
  PROVE  MInv'
<1>1. Goto(p, "load", "idle") /\ code' = [code EXCEPT ![p] = "ok"]
  BY DEF LoadHistory, Reply
<1>2. code' \in [Procs -> Codes]
  BY <1>1 DEF MInv, OtherTypes, Codes
<1>3. HInv' /\ OtherTypes'
  BY <1>1, <1>2, FilesAlone DEF LoadHistory
<1>4. MessageTypes' /\ Numbered' /\ Distinct' /\ StoredBeforeTold' /\ ToldIsStored'
  <2>1. pc' = [pc EXCEPT ![p] = "idle"] /\ UNCHANGED mvars /\ UNCHANGED calls
    BY <1>1 DEF Goto, LoadHistory
  <2>2. "idle" \in Places /\ "idle" \notin MessagePlaces
    BY DEF Places, MessagePlaces
  <2> QED
    BY <2>1, <2>2, GoesOn
<1> QED
  BY <1>3, <1>4 DEF MInv

\* message_append: a message that is new to every history, at the end of one.
LEMMA MessageIsStored ==
  ASSUME MInv, NEW p \in Procs, StoreMessage(p)
  PROVE  MInv'
<1>1. PICK to \in {"tell", "idle"} :
        Goto(p, "store", to) /\ code' \in {code, [code EXCEPT ![p] = "internal"]}
  BY DEF StoreMessage, Reply, Continue
<1>2. code' \in [Procs -> Codes]
  BY <1>1 DEF MInv, OtherTypes, Codes
<1>3. HInv' /\ OtherTypes'
  BY <1>1, <1>2, FilesAlone DEF StoreMessage, MessagePlaces
<1>4. CASE UNCHANGED history /\ Reply(p, "store", "internal")
  <2>1. pc' = [pc EXCEPT ![p] = "idle"] /\ UNCHANGED mvars /\ UNCHANGED calls
    BY <1>4 DEF Reply, Goto, StoreMessage, mvars
  <2>2. "idle" \in Places /\ "idle" \notin MessagePlaces
    BY DEF Places, MessagePlaces
  <2>3. MessageTypes' /\ Numbered' /\ Distinct' /\ StoredBeforeTold' /\ ToldIsStored'
    BY <2>1, <2>2, GoesOn
  <2> QED
    BY <1>3, <2>3 DEF MInv
<1>5. CASE /\ history' = [history EXCEPT ![HistoryOf(mreq[p])] = Append(@, Mine(p))]
           /\ Continue(p, "store", "tell")
  <2> DEFINE h == HistoryOf(mreq[p])
             m == Mine(p)
  <2>1. /\ pc[p] = "store" /\ pc' = [pc EXCEPT ![p] = "tell"]
        /\ UNCHANGED <<mreq, told, calls>> /\ pc \in [Procs -> Places]
    BY <1>5 DEF Continue, Goto, StoreMessage, MInv, HInv, Types
  <2>2. mreq[p] \in Messages /\ calls[p] # 0 /\ h \in Histories /\ m \in Message
    BY <2>1, MineTyped, HistoriesTyped DEF MInv, MessageTypes, MessagePlaces
  <2>3. m.child = p /\ m.n = calls[p]
    BY DEF Mine
  <2> HIDE DEF h, m
  <2>4. history[h] \in Seq(Message) /\ m \notin ToSet(history[h])
    <3>1. ASSUME m \in ToSet(history[h]) PROVE FALSE
      <4>1. m.n < calls[m.child]
        BY <2>1, <2>2, <2>3, <3>1 DEF MInv, Numbered
      <4> QED
        BY <2>3, <4>1, HandlersAssumption DEF MInv, OtherTypes
    <3> QED
      BY <2>2, <3>1 DEF MInv, MessageTypes
  <2>5. /\ Append(history[h], m) \in Seq(Message)
        /\ ToSet(Append(history[h], m)) = ToSet(history[h]) \cup {m}
        /\ IsInjective(Append(history[h], m))
    BY <2>2, <2>4, AppendNew DEF MInv, Distinct
  <2>6. history' = [history EXCEPT ![h] = Append(history[h], m)]
    BY <1>5 DEF h, m
  <2>7. /\ history' \in [Histories -> Seq(Message)]
        /\ history'[h] = Append(history[h], m)
        /\ \A g \in Histories : g # h => history'[g] = history[g]
    BY <2>2, <2>5, <2>6 DEF MInv, MessageTypes
  <2>8. \A g \in Histories : ToSet(history[g]) \subseteq ToSet(history'[g])
    BY <2>5, <2>7
  <2>9. MessageTypes'
    BY <2>1, <2>2, <2>7 DEF MInv, MessageTypes, MessagePlaces
  <2>10. Numbered'
    <3> SUFFICES ASSUME NEW g \in Histories, NEW k \in ToSet(history'[g])
                 PROVE  /\ k.n <= calls[k.child]
                        /\ pc'[k.child] \in {"target", "store"} => k.n < calls[k.child]
      BY <2>1 DEF Numbered
    <3>1. CASE k \in ToSet(history[g])
      BY <2>1, <3>1 DEF MInv, Numbered
    <3>2. CASE k = m
      <4>1. calls[p] \in Nat
        BY HandlersAssumption DEF MInv, OtherTypes
      <4>2. k.child = p /\ k.n = calls[p]
        BY <2>3, <3>2
      <4>3. pc'[p] = "tell"
        BY <2>1
      <4> QED
        BY <4>1, <4>2, <4>3
    <3>3. CASE g = h
      BY <2>5, <2>7, <3>1, <3>2, <3>3
    <3>4. CASE g # h
      BY <2>7, <3>1, <3>4
    <3> QED
      BY <3>3, <3>4
  <2>11. Distinct'
    BY <2>5, <2>7 DEF MInv, Distinct
  <2>12. StoredBeforeTold'
    <3> SUFFICES ASSUME NEW q \in Procs, pc'[q] = "tell"
                 PROVE  Mine(q) \in ToSet(history'[HistoryOf(mreq[q])])
      BY <2>1 DEF StoredBeforeTold, Mine
    <3>1. CASE q = p
      BY <2>5, <2>7, <3>1, <2>2 DEF h, m
    <3>2. CASE q # p
      <4>1. pc[q] = "tell"
        BY <2>1, <3>2
      <4>2. Mine(q) \in ToSet(history[HistoryOf(mreq[q])])
        BY <4>1 DEF MInv, StoredBeforeTold
      <4>3. HistoryOf(mreq[q]) \in Histories
        BY <4>1, HistoriesTyped DEF MInv, MessageTypes, MessagePlaces
      <4> QED
        BY <4>2, <4>3, <2>8
    <3> QED
      BY <3>1, <3>2
  <2>13. ToldIsStored'
    <3>1. \A t \in told : t.history \in Histories
      BY DEF MInv, MessageTypes
    <3> QED
      BY <2>1, <2>8, <3>1 DEF MInv, ToldIsStored
  <2> QED
    BY <1>3, <2>9, <2>10, <2>11, <2>12, <2>13 DEF MInv
<1> QED
  BY <1>4, <1>5 DEF StoreMessage, Stored

\* The others are told of a message that was stored before.
LEMMA MessageIsTold ==
  ASSUME MInv, NEW p \in Procs, TellMessage(p)
  PROVE  MInv'
<1> DEFINE h == HistoryOf(mreq[p])
           m == Mine(p)
<1>1. /\ Goto(p, "tell", "idle") /\ code' = [code EXCEPT ![p] = "ok"]
      /\ UNCHANGED <<mreq, history, calls>>
  BY DEF TellMessage, Reply
<1>2. pc[p] = "tell" /\ pc' = [pc EXCEPT ![p] = "idle"] /\ pc \in [Procs -> Places]
  BY <1>1 DEF Goto, MInv, HInv, Types
<1>3. code' \in [Procs -> Codes]
  BY <1>1 DEF MInv, OtherTypes, Codes
<1>4. HInv' /\ OtherTypes'
  BY <1>1, <1>3, FilesAlone DEF TellMessage
<1>5. /\ mreq[p] \in Messages /\ h \in Histories /\ m \in Message
      /\ m \in ToSet(history[h])
  BY <1>2, MineTyped, HistoriesTyped DEF MInv, MessageTypes, MessagePlaces, StoredBeforeTold
<1>6. PICK cs \in Loaded(chats) :
        told' = told \cup {[to |-> l, history |-> h, message |-> m] : l \in Audience(mreq[p], cs)}
  BY DEF TellMessage
<1> HIDE DEF h, m
<1>7. Audience(mreq[p], cs) \subseteq Logins
  <2>1. cs \in Seq(Chat)
    BY LoadedTyped DEF MInv, HInv, Types
  <2>2. \A i \in 1..Len(cs) : MembersOf(cs[i]) \subseteq Logins
    <3> SUFFICES ASSUME NEW i \in 1..Len(cs) PROVE MembersOf(cs[i]) \subseteq Logins
      OBVIOUS
    <3>1. cs[i] \in Chat
      BY <2>1, ElementOfSeq
    <3>2. cs[i].users \in Seq(Logins)
      BY <3>1 DEF Chat
    <3> QED
      BY <3>2, ElementOfSeq DEF MembersOf
  <2>3. ~mreq[p].chat => {mreq[p].to, mreq[p].by} \subseteq Logins
    BY <1>5, MessagesAssumption DEF MessageRequest
  <2> QED
    BY <2>2, <2>3 DEF Audience
<1>8. MessageTypes'
  <2>1. told' \subseteq [to : Logins, history : Histories, message : Message]
    BY <1>5, <1>6, <1>7 DEF MInv, MessageTypes
  <2> QED
    BY <1>1, <1>2, <2>1 DEF MInv, MessageTypes, MessagePlaces
<1>9. Numbered'
  <2> SUFFICES ASSUME NEW g \in Histories, NEW k \in ToSet(history[g])
               PROVE  /\ k.n <= calls[k.child]
                      /\ pc'[k.child] \in {"target", "store"} => k.n < calls[k.child]
    BY <1>1 DEF Numbered
  <2> QED
    BY <1>2 DEF MInv, Numbered
<1>10. Distinct'
  BY <1>1 DEF MInv, Distinct
<1>11. StoredBeforeTold'
  BY <1>1, <1>2 DEF MInv, StoredBeforeTold, Mine
<1>12. ToldIsStored'
  BY <1>1, <1>5, <1>6 DEF MInv, ToldIsStored
<1> QED
  BY <1>4, <1>8, <1>9, <1>10, <1>11, <1>12 DEF MInv

-----------------------------------------------------------------------------
(* All steps. *)

\* The invariant holds at the start.
LEMMA MessagesInit == ASSUME InitiallySound, MInit PROVE MInv
<1>1. HInv /\ OtherTypes
  BY HandlersInit, OtherTypesInit DEF MInit
<1>2. (CHOOSE r \in MessageRequest : TRUE) \in MessageRequest
  <2>1. \E n \in Names, l \in Logins :
          [kind |-> "post", chat |-> TRUE, to |-> n, by |-> l] \in MessageRequest
    BY HandlersAssumption DEF MessageRequest
  <2> QED
    BY <2>1
<1>3. <<>> \in Seq(Message) /\ ToSet(<<>>) = {} /\ IsInjective(<<>>)
  BY DEF ToSet, IsInjective
<1>4. MessageTypes
  BY <1>2, <1>3 DEF MInit, Init, MessageTypes, MessagePlaces
<1>5. Numbered /\ Distinct /\ ToldIsStored
  BY <1>3 DEF MInit, Numbered, Distinct, ToldIsStored
<1>6. StoredBeforeTold
  BY DEF MInit, Init, StoredBeforeTold
<1> QED
  BY <1>1, <1>4, <1>5, <1>6 DEF MInv

\* Every step keeps it.
LEMMA MessagesNext == ASSUME MInv, [MNext]_allvars PROVE MInv'
<1>1. ASSUME NEW p \in Procs, HandleMessage(p) PROVE MInv'
  BY <1>1, TargetIsChecked, MessageIsStored, MessageIsTold, HistoryIsLoaded DEF HandleMessage
<1>2. ASSUME NEW p \in Procs, NEW r \in Messages, ReceiveMessage(p, r) PROVE MInv'
  BY <1>2, MessageArrives
<1>3. ASSUME NEW p \in Procs, Handle(p), UNCHANGED mvars PROVE MInv'
  BY <1>3, ChatStep
<1>4. ASSUME NEW p \in Procs, NEW r \in Requests, Receive(p, r), UNCHANGED mvars PROVE MInv'
  BY <1>4, ChatRequest DEF Requests
<1>5. CASE UNCHANGED allvars
  <2>1. UNCHANGED <<users, chats, tokens, pc, req, code, seen, todo, calls, history, mreq, told>>
    BY <1>5 DEF allvars, vars, mvars
  <2> QED
    BY <2>1 DEF MInv, HInv, Types, Known, AllSound, OtherTypes, MessageTypes, Numbered,
       Distinct, StoredBeforeTold, ToldIsStored, Mine
<1> QED
  BY <1>1, <1>2, <1>3, <1>4, <1>5 DEF MNext

\* A step keeps every password, and every history but for a message at its end.
LEMMA StepsKeep == 
  ASSUME MInv, [MNext]_allvars
  PROVE  /\ PasswordsStay
         /\ \A h \in Histories : \/ history'[h] = history[h]
                                 \/ \E m \in Message : history'[h] = Append(history[h], m)
<1> DEFINE Grow == \A h \in Histories :
                     \/ history'[h] = history[h]
                     \/ \E m \in Message : history'[h] = Append(history[h], m)
<1>1. CASE UNCHANGED <<users, history>>
  BY <1>1 DEF PasswordsStay
<1>2. ASSUME NEW p \in Procs, Handle(p), UNCHANGED mvars PROVE PasswordsStay /\ Grow
  BY <1>2, HandlerKeepsPasswords DEF MInv, mvars
<1>3. ASSUME NEW p \in Procs, StoreMessage(p) PROVE PasswordsStay /\ Grow
  <2>1. UNCHANGED users
    BY <1>3 DEF StoreMessage, files
  <2>2. Mine(p) \in Message
    BY <1>3, MineTyped DEF StoreMessage, Continue, Reply, Goto, MessagePlaces
  <2>3. Grow
    BY <1>3, <2>2 DEF StoreMessage, Stored, MInv, MessageTypes
  <2> QED
    BY <2>1, <2>3 DEF PasswordsStay
<1>4. ASSUME NEW p \in Procs, CheckTarget(p) \/ TellMessage(p) \/ LoadHistory(p)
      PROVE  UNCHANGED <<users, history>>
  BY <1>4 DEF CheckTarget, TellMessage, LoadHistory, files, mvars
<1>5. ASSUME NEW p \in Procs, NEW r \in Messages, ReceiveMessage(p, r)
      PROVE  UNCHANGED <<users, history>>
  BY <1>5 DEF ReceiveMessage, files
<1>6. ASSUME NEW p \in Procs, NEW r \in Requests, Receive(p, r), UNCHANGED mvars
      PROVE  UNCHANGED <<users, history>>
  BY <1>6 DEF Receive, files, mvars
<1>7. UNCHANGED allvars => UNCHANGED <<users, history>>
  BY DEF allvars, vars, mvars
<1> QED
  BY <1>1, <1>2, <1>3, <1>4, <1>5, <1>6, <1>7 DEF MNext, HandleMessage

\* It implies the types.
LEMMA TypesHold == ASSUME MInv PROVE MTypeOK
<1>1. TypeOK
  BY DEF MInv, HInv, Types, OtherTypes, TypeOK
<1> QED
  BY <1>1 DEF MInv, MessageTypes, Distinct, MTypeOK

\* The variables have their types, and no message is stored twice: MTypeOK.
THEOREM HandlersTypes == ASSUME InitiallySound PROVE MSpec => []MTypeOK
<1>1. MInit => MInv
  BY MessagesInit
<1>2. MInv /\ [MNext]_allvars => MInv'
  BY MessagesNext
<1>3. MInv => MTypeOK
  BY TypesHold
<1> QED
  BY <1>1, <1>2, <1>3, PTL DEF MSpec

\* Whoever is in a chat is registered, once, whatever order the requests of
\* any children come in and whichever files fail: MembersSound.
THEOREM MembersStaySound == ASSUME InitiallySound PROVE MSpec => []MembersSound
<1>1. MInit => MInv
  BY MessagesInit
<1>2. MInv /\ [MNext]_allvars => MInv'
  BY MessagesNext
<1>3. MInv => MembersSound
  BY SoundMembers DEF MInv
<1> QED
  BY <1>1, <1>2, <1>3, PTL DEF MSpec

\* Nobody is told of a message that is not in the history: ToldIsStored.
THEOREM ToldStaysStored == ASSUME InitiallySound PROVE MSpec => []ToldIsStored
<1>1. MInit => MInv
  BY MessagesInit
<1>2. MInv /\ [MNext]_allvars => MInv'
  BY MessagesNext
<1>3. MInv => ToldIsStored
  BY DEF MInv
<1> QED
  BY <1>1, <1>2, <1>3, PTL DEF MSpec

\* Whoever registers a login first keeps its password: PasswordStable.
THEOREM FirstPasswordStays == ASSUME InitiallySound PROVE MSpec => PasswordStable
<1>1. MInit => MInv
  BY MessagesInit
<1>2. MInv /\ [MNext]_allvars => MInv'
  BY MessagesNext
<1>3. MInv /\ [MNext]_allvars =>
        [\A l \in Logins : UserExists(users, l) =>
           UserExists(users', l) /\ HashOf(users', l) = HashOf(users, l)]_vars
  BY StepsKeep DEF PasswordsStay
<1> QED
  BY <1>1, <1>2, <1>3, PTL DEF MSpec, PasswordStable

\* Posts that overlap are not lost: a history only grows, by one message at a
\* time (HistoryGrows).
THEOREM HistoriesOnlyGrow == ASSUME InitiallySound PROVE MSpec => HistoryGrows
<1>1. MInit => MInv
  BY MessagesInit
<1>2. MInv /\ [MNext]_allvars => MInv'
  BY MessagesNext
<1>3. MInv /\ [MNext]_allvars =>
        [\A h \in Histories : \/ history'[h] = history[h]
                              \/ \E m \in Message : history'[h] = Append(history[h], m)]_allvars
  BY StepsKeep
<1> QED
  BY <1>1, <1>2, <1>3, PTL DEF MSpec, HistoryGrows

-----------------------------------------------------------------------------
(* Requests that do not overlap. *)

\* at most one child is handling a request, as with a single client
OneAtATime == \A p, q \in Procs : pc[p] # "idle" /\ pc[q] # "idle" => p = q

\* the users and chats the server starts with
InitiallyUnique ==
  /\ \A i, j \in 1..Len(InitialUsers) : InitialUsers[i].login = InitialUsers[j].login => i = j
  /\ \A i, j \in 1..Len(InitialChats) : InitialChats[i].name = InitialChats[j].name => i = j

\* the calls that act on what an earlier call saw
Deciding == {"usercreate", "chatcreate", "chatdelete", "chatsof"}

FirstOf(cs, n, l) == \E i \in 1..Len(cs) : IsFirstChat(cs, i, n) /\ cs[i].creator = l
\* the chats handle_info has to count, and those of the logins it has not come to
Counted(cs) == {cs[i].name : i \in {k \in 1..Len(cs) : cs[k].users # <<>>}}
ChatsOfAll(cs, ls) == UNION {ChatsOf(cs, ls[k]) : k \in 1..Len(ls)}

\* What an earlier call saw is still so.
DecidedFor(p) ==
  /\ pc[p] = "usercreate" => ~UserExists(users, req[p].login)
  /\ pc[p] = "chatcreate" => ~ChatExists(chats, req[p].name)
  /\ pc[p] = "chatdelete" => FirstOf(chats, req[p].name, req[p].by)
  /\ pc[p] = "chatsof" /\ req[p].kind = "info" =>
       seen[p] \cup ChatsOfAll(chats, todo[p]) = Counted(chats)
Decided == \A p \in Procs : DecidedFor(p)

SInv == LoginsUnique /\ NamesUnique /\ Decided

\* Without failures a call loads the file.
LEMMA LoadedWhole ==
  ASSUME ~FilesFail, NEW file
  PROVE  Loaded(file) = {file}
BY DEF Loaded

\* A request that no call has decided anything for yet, or that changes nothing.
LEMMA NothingDecided ==
  ASSUME HInv, SInv, NEW p \in Procs, UNCHANGED <<users, chats, seen, todo>>,
         \A q \in Procs \ {p} : pc'[q] = pc[q] /\ req'[q] = req[q],
         pc'[p] \notin Deciding \/ (pc'[p] = "chatsof" /\ req'[p].kind # "info")
  PROVE  SInv'
<1>1. LoginsUnique' /\ NamesUnique'
  BY DEF SInv, LoginsUnique, NamesUnique
<1>2. ASSUME NEW q \in Procs PROVE DecidedFor(q)'
  <2>1. CASE q = p
    BY <2>1 DEF DecidedFor, Deciding
  <2>2. CASE q # p
    BY <2>2 DEF SInv, Decided, DecidedFor
  <2> QED
    BY <2>1, <2>2
<1> QED
  BY <1>1, <1>2 DEF SInv, Decided

\* While p handles its request, only what is decided for it matters.
LEMMA OthersIdle ==
  ASSUME HInv, OneAtATime, NEW p \in Procs, Handle(p), DecidedFor(p)'
  PROVE  Decided'
<1>1. pc[p] # "idle" /\ \E to \in ChatPlaces \cup {"idle"} : pc' = [pc EXCEPT ![p] = to]
  BY HandlerStays DEF ChatPlaces
<1>2. ASSUME NEW q \in Procs, q # p PROVE pc'[q] = "idle"
  BY <1>1, <1>2 DEF OneAtATime, HInv, Types
<1>3. ASSUME NEW q \in Procs, q # p PROVE DecidedFor(q)'
  BY <1>2, <1>3 DEF DecidedFor
<1> QED
  BY <1>3 DEF Decided

\* A name that is nowhere yet is there once when it is appended.
LEMMA UserStaysUnique ==
  ASSUME HInv, LoginsUnique, NEW u \in User, ~UserExists(users, u.login),
         users' = Append(users, u)
  PROVE  LoginsUnique'
<1>1. /\ Len(users') = Len(users) + 1 /\ Len(users) \in Nat
      /\ \A i \in 1..Len(users) : users'[i] = users[i]
      /\ users'[Len(users) + 1] = u
  BY AppendProperties DEF HInv, Types
<1>2. \A i \in 1..Len(users') : i \in 1..Len(users) \/ i = Len(users) + 1
  BY <1>1
<1>3. \A i \in 1..Len(users) : users[i].login # u.login
  BY DEF UserExists
<1>4. SUFFICES ASSUME NEW i \in 1..Len(users'), NEW j \in 1..Len(users'),
                      users'[i].login = users'[j].login
               PROVE  i = j
  BY DEF LoginsUnique
<1>5. CASE i \in 1..Len(users) /\ j \in 1..Len(users)
  BY <1>1, <1>4, <1>5 DEF LoginsUnique
<1>6. CASE i = Len(users) + 1 /\ j \in 1..Len(users)
  BY <1>1, <1>3, <1>4, <1>6
<1>7. CASE i \in 1..Len(users) /\ j = Len(users) + 1
  BY <1>1, <1>3, <1>4, <1>7
<1> QED
  BY <1>2, <1>5, <1>6, <1>7

\* The same for chats.
LEMMA ChatStaysUnique ==
  ASSUME HInv, NamesUnique, NEW c \in Chat, ~ChatExists(chats, c.name),
         chats' = Append(chats, c)
  PROVE  NamesUnique'
<1>1. /\ Len(chats') = Len(chats) + 1 /\ Len(chats) \in Nat
      /\ \A i \in 1..Len(chats) : chats'[i] = chats[i]
      /\ chats'[Len(chats) + 1] = c
  BY AppendProperties DEF HInv, Types
<1>2. \A i \in 1..Len(chats') : i \in 1..Len(chats) \/ i = Len(chats) + 1
  BY <1>1
<1>3. \A i \in 1..Len(chats) : chats[i].name # c.name
  BY DEF ChatExists
<1>4. SUFFICES ASSUME NEW i \in 1..Len(chats'), NEW j \in 1..Len(chats'),
                      chats'[i].name = chats'[j].name
               PROVE  i = j
  BY DEF NamesUnique
<1>5. CASE i \in 1..Len(chats) /\ j \in 1..Len(chats)
  BY <1>1, <1>4, <1>5 DEF NamesUnique
<1>6. CASE i = Len(chats) + 1 /\ j \in 1..Len(chats)
  BY <1>1, <1>3, <1>4, <1>6
<1>7. CASE i \in 1..Len(chats) /\ j = Len(chats) + 1
  BY <1>1, <1>3, <1>4, <1>7
<1> QED
  BY <1>2, <1>5, <1>6, <1>7

\* Who is in a chat does not change its name.
LEMMA NamesStay ==
  ASSUME HInv, NamesUnique, NEW i \in 1..Len(chats), NEW c, c.name = chats[i].name,
         chats' = [chats EXCEPT ![i] = c]
  PROVE  NamesUnique'
<1>1. Len(chats') = Len(chats) /\ \A k \in 1..Len(chats) : chats'[k].name = chats[k].name
  BY DEF HInv, Types
<1> QED
  BY <1>1 DEF NamesUnique

\* Adding and removing members keeps the name.
LEMMA MembersNotNames ==
  ASSUME NEW c \in Chat, NEW l
  PROVE  Added(c, l).name = c.name /\ Removed(c, l).name = c.name
<1>1. Added(c, l).name = c.name
  BY DEF Added, Chat
<1>2. Removed(c, l).name = c.name
  BY DEF Removed, Chat
<1> QED
  BY <1>1, <1>2

\* A chat less leaves the other names as they are.
LEMMA NamesLeft ==
  ASSUME HInv, NamesUnique, NEW i \in 1..Len(chats),
         chats' = SubSeq(chats, 1, i - 1) \o SubSeq(chats, i + 1, Len(chats))
  PROVE  NamesUnique'
<1>1. chats \in Seq(Chat) /\ Len(chats) \in Nat
  BY DEF HInv, Types
<1>2. /\ Len(chats') = Len(chats) - 1
      /\ \A k \in 1..Len(chats') : chats'[k] = IF k < i THEN chats[k] ELSE chats[k + 1]
  BY <1>1, WithoutElement
<1> DEFINE from(m) == IF m < i THEN m ELSE m + 1
<1>3. ASSUME NEW m \in 1..Len(chats')
      PROVE  chats'[m] = chats[from(m)] /\ from(m) \in 1..Len(chats)
  <2>0. m \in 1..(Len(chats) - 1) /\ Len(chats) \in Nat
    BY <1>1, <1>2, <1>3
  <2>1. m \in Nat /\ m >= 1 /\ m <= Len(chats) - 1
    BY <2>0
  <2>2. from(m) \in 1..Len(chats)
    BY <1>1, <2>1
  <2>3. chats'[m] = chats[from(m)]
    BY <1>2
  <2> QED
    BY <2>2, <2>3
<1>4. SUFFICES ASSUME NEW j \in 1..Len(chats'), NEW k \in 1..Len(chats'),
                      chats'[j].name = chats'[k].name
               PROVE  j = k
  BY DEF NamesUnique
<1>5. from(j) = from(k)
  <2> HIDE DEF from
  <2>1. chats[from(j)].name = chats[from(k)].name
    BY <1>3, <1>4
  <2>2. from(j) \in 1..Len(chats) /\ from(k) \in 1..Len(chats)
    BY <1>3
  <2> QED
    BY <2>1, <2>2 DEF NamesUnique
<1>6. i \in Nat /\ j \in Nat /\ k \in Nat
  BY <1>1, <1>2
<1> QED
  BY <1>5, <1>6

\* The chats of all users are those that have members, each of whom is a user.
LEMMA AllAreCounted ==
  ASSUME HInv
  PROVE  ChatsOfAll(chats, [i \in 1..Len(users) |-> users[i].login]) = Counted(chats)
<1> DEFINE logins == [i \in 1..Len(users) |-> users[i].login]
<1>1. logins \in Seq(Logins) /\ DOMAIN logins = 1..Len(users)
  BY LoginsTyped DEF HInv, Types
<1>2. Len(logins) = Len(users) /\ Len(users) \in Nat
  BY <1>1, LenProperties DEF HInv, Types
<1>3. ASSUME NEW i \in 1..Len(chats), chats[i].users # <<>>
      PROVE  \E k \in 1..Len(users) : IsMember(chats[i], users[k].login)
  <2>1. chats[i] \in Chat /\ Registered(users, chats[i])
    BY ElementOfSeq DEF HInv, Types, AllSound, ChatSound
  <2>2. chats[i].users \in Seq(Logins) /\ Len(chats[i].users) \in Nat
    BY <2>1 DEF Chat
  <2>3. 1 \in 1..Len(chats[i].users)
    BY <1>3, <2>2, EmptySeq
  <2>4. UserExists(users, chats[i].users[1])
    BY <2>1, <2>3 DEF Registered
  <2> QED
    BY <2>3, <2>4 DEF UserExists, IsMember
<1>4. ASSUME NEW i \in 1..Len(chats), NEW l, IsMember(chats[i], l)
      PROVE  chats[i].users # <<>>
  <2>1. Len(chats[i].users) # 0
    BY <1>4 DEF IsMember
  <2> QED
    BY <2>1, EmptySeq
<1>5. ASSUME NEW n PROVE n \in ChatsOfAll(chats, logins) <=> n \in Counted(chats)
  <2>1. n \in ChatsOfAll(chats, logins) <=>
          \E k \in 1..Len(users) : n \in ChatsOf(chats, users[k].login)
    BY <1>2 DEF ChatsOfAll
  <2>2. ASSUME NEW l
        PROVE  n \in ChatsOf(chats, l) <=>
                 \E i \in 1..Len(chats) : IsMember(chats[i], l) /\ n = chats[i].name
    BY DEF ChatsOf
  <2>3. n \in Counted(chats) <=>
          \E i \in 1..Len(chats) : chats[i].users # <<>> /\ n = chats[i].name
    BY DEF Counted
  <2> QED
    BY <1>3, <1>4, <2>1, <2>2, <2>3
<1> QED
  BY <1>5

\* Coming to the first login of those that are left.
LEMMA OneMoreCounted ==
  ASSUME NEW cs, NEW ls \in Seq(Logins), ls # <<>>
  PROVE  ChatsOfAll(cs, ls) = ChatsOf(cs, Head(ls)) \cup ChatsOfAll(cs, Tail(ls))
<1>1. /\ Len(ls) \in Nat /\ Head(ls) = ls[1] /\ Len(Tail(ls)) = Len(ls) - 1
      /\ \A i \in 1..Len(Tail(ls)) : Tail(ls)[i] = ls[i + 1]
  BY HeadTailProperties
<1>2. Len(ls) # 0
  BY EmptySeq
<1> DEFINE t == Tail(ls)
<1> HIDE DEF t
<1>3. Len(t) \in Nat /\ Len(ls) = Len(t) + 1 /\ \A i \in 1..Len(t) : t[i] = ls[i + 1]
  BY <1>1, <1>2 DEF t
<1>4. ASSUME NEW n PROVE n \in ChatsOfAll(cs, ls) <=> n \in ChatsOf(cs, ls[1]) \cup ChatsOfAll(cs, t)
  <2>1. n \in ChatsOfAll(cs, ls) <=> \E k \in 1..Len(ls) : n \in ChatsOf(cs, ls[k])
    BY DEF ChatsOfAll
  <2>2. n \in ChatsOfAll(cs, t) <=> \E k \in 1..Len(t) : n \in ChatsOf(cs, t[k])
    BY DEF ChatsOfAll
  <2>3. ASSUME NEW k \in 1..Len(ls) PROVE k = 1 \/ (k - 1 \in 1..Len(t) /\ t[k - 1] = ls[k])
    BY <1>3
  <2>4. ASSUME NEW k \in 1..Len(t) PROVE k + 1 \in 1..Len(ls) /\ t[k] = ls[k + 1]
    BY <1>3
  <2>5. 1 \in 1..Len(ls)
    BY <1>3
  <2> HIDE DEF t
  <2> QED
    BY <2>1, <2>2, <2>3, <2>4, <2>5
<1> QED
  BY <1>1, <1>4 DEF t

\* handle_register, handle_create_chat, handle_delete_chat: what was looked for.
LEMMA LookedFor ==
  ASSUME HInv, OneAtATime, SInv, ~FilesFail, NEW p \in Procs,
         UserFree(p) \/ ChatFree(p) \/ Host(p)
  PROVE  SInv'
<1>1. Loaded(users) = {users} /\ Loaded(chats) = {chats} /\ p \in DOMAIN pc
  BY LoadedWhole DEF HInv, Types
<1>2. UNCHANGED <<users, chats, req>> /\ Handle(p)
  BY DEF UserFree, ChatFree, Host, files, Handle
<1>3. LoginsUnique' /\ NamesUnique'
  BY <1>2 DEF SInv, LoginsUnique, NamesUnique
<1>4. CASE UserFree(p)
  <2>1. pc'[p] = "idle" \/ (pc'[p] = "usercreate" /\ ~UserExists(users, req[p].login))
    BY <1>1, <1>4 DEF UserFree, Reply, Continue, Goto, HInv, Types
  <2>2. DecidedFor(p)'
    BY <1>2, <2>1 DEF DecidedFor
  <2> QED
    BY <1>2, <1>3, <2>2, OthersIdle DEF SInv
<1>5. CASE ChatFree(p)
  <2>1. pc'[p] = "idle" \/ (pc'[p] = "chatcreate" /\ ~ChatExists(chats, req[p].name))
    BY <1>1, <1>5 DEF ChatFree, Reply, Continue, Goto, HInv, Types
  <2>2. DecidedFor(p)'
    BY <1>2, <2>1 DEF DecidedFor
  <2> QED
    BY <1>2, <1>3, <2>2, OthersIdle DEF SInv
<1>6. CASE Host(p)
  <2>1. pc'[p] = "idle" \/ (pc'[p] = "chatdelete" /\ FirstOf(chats, req[p].name, req[p].by))
    BY <1>1, <1>6 DEF Host, Reply, Continue, Goto, HInv, Types, FirstOf, MayDelete
  <2>2. DecidedFor(p)'
    BY <1>2, <2>1 DEF DecidedFor
  <2> QED
    BY <1>2, <1>3, <2>2, OthersIdle DEF SInv
<1> QED
  BY <1>4, <1>5, <1>6

\* handle_info: the logins, and then the chats of each.
LEMMA InfoGoesOn ==
  ASSUME HInv, OtherTypes, OneAtATime, SInv, ~FilesFail, NEW p \in Procs,
         InfoLogins(p) \/ InfoChats(p)
  PROVE  SInv'
<1>1. Loaded(users) = {users} /\ Loaded(chats) = {chats} /\ p \in DOMAIN pc
  BY LoadedWhole DEF HInv, Types
<1>2. UNCHANGED <<users, chats, req>> /\ Handle(p)
  BY DEF InfoLogins, InfoChats, files, Handle
<1>3. LoginsUnique' /\ NamesUnique'
  BY <1>2 DEF SInv, LoginsUnique, NamesUnique
<1>4. todo \in [Procs -> Seq(Logins)] /\ seen \in [Procs -> SUBSET Names]
  BY DEF OtherTypes
<1>5. CASE InfoLogins(p)
  <2>1. /\ pc'[p] = "chatsof" /\ seen'[p] = {}
        /\ todo'[p] = [i \in 1..Len(users) |-> users[i].login]
    BY <1>1, <1>4, <1>5 DEF InfoLogins, Continue, Goto, HInv, Types
  <2>2. seen'[p] \cup ChatsOfAll(chats, todo'[p]) = Counted(chats)
    BY <2>1, AllAreCounted
  <2>3. DecidedFor(p)'
    BY <1>2, <2>1, <2>2 DEF DecidedFor
  <2> QED
    BY <1>2, <1>3, <2>3, OthersIdle DEF SInv
<1>6. CASE InfoChats(p) /\ todo[p] = <<>>
  <2>1. pc'[p] = "idle"
    BY <1>1, <1>6 DEF InfoChats, Reply, Goto, HInv, Types
  <2>2. DecidedFor(p)'
    BY <2>1 DEF DecidedFor
  <2> QED
    BY <1>2, <1>3, <2>2, OthersIdle DEF SInv
<1>7. CASE InfoChats(p) /\ todo[p] # <<>>
  <2>1. /\ pc' = pc /\ pc[p] = "chatsof" /\ req[p].kind = "info"
        /\ seen'[p] = seen[p] \cup ChatsOf(chats, Head(todo[p]))
        /\ todo'[p] = Tail(todo[p])
    BY <1>1, <1>4, <1>7 DEF InfoChats
  <2>2. seen[p] \cup ChatsOfAll(chats, todo[p]) = Counted(chats)
    BY <2>1 DEF SInv, Decided, DecidedFor
  <2>3. ChatsOfAll(chats, todo[p])
          = ChatsOf(chats, Head(todo[p])) \cup ChatsOfAll(chats, Tail(todo[p]))
    BY <1>4, <1>7, OneMoreCounted
  <2>4. seen'[p] \cup ChatsOfAll(chats, todo'[p]) = Counted(chats)
    BY <2>1, <2>2, <2>3
  <2>5. DecidedFor(p)'
    BY <1>2, <2>1, <2>4 DEF DecidedFor
  <2> QED
    BY <1>2, <1>3, <2>5, OthersIdle DEF SInv
<1> QED
  BY <1>5, <1>6, <1>7

\* A change of the files ends what was decided.
LEMMA FilesChange ==
  ASSUME HInv, OneAtATime, SInv, ~FilesFail, NEW p \in Procs,
         \/ UserCreate(p) \/ ChatCreate(p) \/ AddCreator(p) \/ AddUser(p)
         \/ RemoveUser(p) \/ ChatDelete(p)
  PROVE  SInv'
<1>1. Handle(p) /\ UNCHANGED req
  BY DEF Handle, UserCreate, ChatCreate, AddCreator, AddUser, RemoveUser, ChatDelete
<1>2. pc'[p] \notin Deciding
  BY DEF UserCreate, ChatCreate, AddCreator, AddUser, RemoveUser, ChatDelete, Reply, Continue,
     Goto, Deciding, HInv, Types
<1>3. DecidedFor(p)'
  BY <1>2 DEF DecidedFor, Deciding
<1>4. Decided'
  BY <1>1, <1>3, OthersIdle
<1> USE DEF SInv
<1>5. CASE UserCreate(p)
  <2>1. users' = Append(users, NewUser(p)) /\ chats' = chats /\ pc[p] = "usercreate"
    BY <1>5 DEF UserCreate, UserAppended, Reply, Goto
  <2>2. NewUser(p) \in User /\ NewUser(p).login = req[p].login
    BY DEF NewUser, HInv, Types, Request, User
  <2>3. ~UserExists(users, NewUser(p).login)
    BY <2>1, <2>2 DEF Decided, DecidedFor
  <2>4. LoginsUnique'
    BY <2>1, <2>2, <2>3, UserStaysUnique
  <2> QED
    BY <1>4, <2>1, <2>4 DEF NamesUnique
<1>6. CASE ChatCreate(p)
  <2>1. chats' = Append(chats, NewChat(p)) /\ users' = users /\ pc[p] = "chatcreate"
    BY <1>6 DEF ChatCreate, Continue, Goto
  <2>2. NewChat(p) \in Chat /\ NewChat(p).name = req[p].name
    BY DEF NewChat, HInv, Types, Request, Chat
  <2>3. ~ChatExists(chats, NewChat(p).name)
    BY <2>1, <2>2 DEF Decided, DecidedFor
  <2>4. NamesUnique'
    BY <2>1, <2>2, <2>3, ChatStaysUnique
  <2> QED
    BY <1>4, <2>1, <2>4 DEF LoginsUnique
<1>7. CASE AddCreator(p) \/ AddUser(p)
  <2>1. users' = users
    BY <1>7 DEF AddCreator, AddUser
  <2>2. CASE chats' = chats
    BY <1>4, <2>1, <2>2 DEF LoginsUnique, NamesUnique
  <2>3. CASE \E l : \E i \in 1..Len(chats) : chats' = [chats EXCEPT ![i] = Added(@, l)]
    <3>0. PICK l : \E i \in 1..Len(chats) : chats' = [chats EXCEPT ![i] = Added(@, l)]
      BY <2>3
    <3>1. PICK i \in 1..Len(chats) : chats' = [chats EXCEPT ![i] = Added(chats[i], l)]
      BY <3>0
    <3>2. chats[i] \in Chat
      BY ElementOfSeq DEF HInv, Types
    <3>3. NamesUnique'
      BY <3>1, <3>2, MembersNotNames, NamesStay
    <3> QED
      BY <1>4, <2>1, <3>3 DEF LoginsUnique
  <2> QED
    BY <1>7, <2>2, <2>3 DEF AddCreator, AddUser, AddTo
<1>8. CASE RemoveUser(p)
  <2>1. users' = users
    BY <1>8 DEF RemoveUser
  <2>2. CASE chats' = chats
    BY <1>4, <2>1, <2>2 DEF LoginsUnique, NamesUnique
  <2>3. CASE \E i \in 1..Len(chats) : chats' = [chats EXCEPT ![i] = Removed(@, req[p].login)]
    <3>1. PICK i \in 1..Len(chats) :
            chats' = [chats EXCEPT ![i] = Removed(chats[i], req[p].login)]
      BY <2>3
    <3>2. chats[i] \in Chat
      BY ElementOfSeq DEF HInv, Types
    <3>3. NamesUnique'
      BY <3>1, <3>2, MembersNotNames, NamesStay
    <3> QED
      BY <1>4, <2>1, <3>3 DEF LoginsUnique
  <2> QED
    BY <1>8, <2>2, <2>3 DEF RemoveUser
<1>9. CASE ChatDelete(p)
  <2>1. users' = users
    BY <1>9 DEF ChatDelete
  <2>2. CASE chats' = chats
    BY <1>4, <2>1, <2>2 DEF LoginsUnique, NamesUnique
  <2>3. CASE \E i \in 1..Len(chats) :
               chats' = SubSeq(chats, 1, i - 1) \o SubSeq(chats, i + 1, Len(chats))
    BY <1>4, <2>1, <2>3, NamesLeft DEF LoginsUnique
  <2> QED
    BY <1>9, <2>2, <2>3 DEF ChatDelete
<1> QED
  BY <1>5, <1>6, <1>7, <1>8, <1>9

\* The other calls change no file, and none acts on what they saw.
LEMMA OthersDecideNothing ==
  ASSUME HInv, SInv, NEW p \in Procs,
         \/ UserKnown(p) \/ Password(p) \/ ChatThere(p) \/ UserThere(p) \/ Members(p)
         \/ List(p) \/ UserList(p) \/ Count(p)
  PROVE  SInv'
<1>1. UNCHANGED <<users, chats, seen, todo, req>>
  BY DEF UserKnown, Password, ChatThere, UserThere, Members, List, UserList, Count, files, info
<1>2. ASSUME NEW to, pc' = [pc EXCEPT ![p] = to], to \notin Deciding PROVE SInv'
  <2>1. pc'[p] \notin Deciding /\ \A q \in Procs \ {p} : pc'[q] = pc[q]
    BY <1>2 DEF HInv, Types
  <2> QED
    BY <1>1, <2>1, NothingDecided
<1>3. CASE ChatThere(p)
  <2>1. pc[p] = "chatthere"
    BY <1>3 DEF ChatThere, Reply, Continue, Goto
  <2>2. NextCall(req[p].kind) \notin Deciding
    BY <2>1 DEF HInv, Known, OfAChat, NextCall, Deciding
  <2>3. \E to \in {NextCall(req[p].kind), "idle"} : pc' = [pc EXCEPT ![p] = to]
    BY <1>3 DEF ChatThere, Reply, Continue, Goto
  <2>4. "idle" \notin Deciding
    BY DEF Deciding
  <2> QED
    BY <1>2, <2>2, <2>3, <2>4
<1>4. CASE UserKnown(p) \/ Password(p) \/ UserThere(p) \/ Members(p) \/ List(p)
           \/ UserList(p) \/ Count(p)
  <2>1. \E to \in {"idle", "password", "adduser", "logins"} : pc' = [pc EXCEPT ![p] = to]
    BY <1>4 DEF UserKnown, Password, UserThere, Members, List, UserList, Count, Reply,
       Continue, Goto
  <2>2. {"idle", "password", "adduser", "logins"} \cap Deciding = {}
    BY DEF Deciding
  <2> QED
    BY <1>2, <2>1, <2>2
<1> QED
  BY <1>3, <1>4

\* A request, and the handlers for messages, decide nothing either.
LEMMA MessagesDecideNothing ==
  ASSUME HInv, SInv, NEW p \in Procs,
         \/ HandleMessage(p) \/ \E r \in Messages : ReceiveMessage(p, r)
         \/ \E r \in Requests : Receive(p, r)
  PROVE  SInv'
<1>1. ASSUME NEW r \in Requests, Receive(p, r) PROVE SInv'
  <2>1. /\ UNCHANGED <<users, chats, seen, todo>>
        /\ pc' = [pc EXCEPT ![p] = FirstCall(r.kind)] /\ req' = [req EXCEPT ![p] = r]
    BY <1>1 DEF Receive, Goto, files, info
  <2>2. r.kind \in Kinds
    BY DEF Requests, Request
  <2>3. FirstCall(r.kind) \notin Deciding \/ (FirstCall(r.kind) = "chatsof" /\ r.kind # "info")
    BY <2>2 DEF FirstCall, Kinds, Deciding
  <2>4. /\ pc'[p] = FirstCall(r.kind) /\ req'[p] = r
        /\ \A q \in Procs \ {p} : pc'[q] = pc[q] /\ req'[q] = req[q]
    BY <2>1 DEF HInv, Types
  <2> QED
    BY <2>1, <2>3, <2>4, NothingDecided
<1>2. CASE HandleMessage(p) \/ \E r \in Messages : ReceiveMessage(p, r)
  <2>1. UNCHANGED <<users, chats, seen, todo, req>>
    BY <1>2 DEF HandleMessage, CheckTarget, StoreMessage, TellMessage, LoadHistory,
       ReceiveMessage, files, info
  <2>2. \E to \in {"idle", "target", "store", "tell", "load"} : pc' = [pc EXCEPT ![p] = to]
    BY <1>2 DEF HandleMessage, CheckTarget, StoreMessage, TellMessage, LoadHistory,
       ReceiveMessage, AfterCheck, Reply, Continue, Goto
  <2>3. pc'[p] \notin Deciding /\ \A q \in Procs \ {p} : pc'[q] = pc[q]
    BY <2>2 DEF Deciding, HInv, Types
  <2> QED
    BY <2>1, <2>3, NothingDecided
<1> QED
  BY <1>1, <1>2

\* Every step keeps what holds while requests do not overlap.
LEMMA SequentialNext ==
  ASSUME MInv, OneAtATime, SInv, ~FilesFail, [MNext]_allvars
  PROVE  SInv'
<1>1. HInv /\ OtherTypes
  BY DEF MInv
<1>2. ASSUME NEW p \in Procs, Handle(p) PROVE SInv'
  BY <1>1, <1>2, LookedFor, InfoGoesOn, FilesChange, OthersDecideNothing DEF Handle
<1>3. ASSUME NEW p \in Procs,
             \/ HandleMessage(p) \/ \E r \in Messages : ReceiveMessage(p, r)
             \/ \E r \in Requests : Receive(p, r)
      PROVE  SInv'
  BY <1>1, <1>3, MessagesDecideNothing
<1>4. CASE UNCHANGED allvars
  <2>1. UNCHANGED <<users, chats, seen, todo, pc, req>>
    BY <1>4 DEF allvars, vars
  <2> QED
    BY <2>1 DEF SInv, LoginsUnique, NamesUnique, Decided, DecidedFor
<1> QED
  BY <1>2, <1>3, <1>4 DEF MNext

\* It holds at the start.
LEMMA SequentialInit ==
  ASSUME InitiallyUnique, MInit
  PROVE  SInv
<1>1. LoginsUnique /\ NamesUnique
  BY DEF MInit, Init, InitiallyUnique, LoginsUnique, NamesUnique
<1>2. Decided
  BY DEF MInit, Init, Decided, DecidedFor
<1> QED
  BY <1>1, <1>2 DEF SInv

\* MInv and SInv together.
LEMMA Sequential ==
  ASSUME InitiallySound, InitiallyUnique, ~FilesFail
  PROVE  MSpec /\ []OneAtATime => [](MInv /\ SInv)
<1>1. MInit => MInv /\ SInv
  BY MessagesInit, SequentialInit
<1>2. MInv /\ SInv /\ OneAtATime /\ [MNext]_allvars => MInv' /\ SInv'
  BY MessagesNext, SequentialNext
<1> QED
  BY <1>1, <1>2, PTL DEF MSpec

\* While requests do not overlap and no file fails, a login names one user
\* (handle_register, repo_user_create), however many children there are.
THEOREM LoginsStayUnique ==
  ASSUME InitiallySound, InitiallyUnique, ~FilesFail
  PROVE  MSpec /\ []OneAtATime => []LoginsUnique
<1>1. SInv => LoginsUnique
  BY DEF SInv
<1> QED
  BY <1>1, Sequential, PTL

\* So does the name of a chat (handle_create_chat, chat_create).
THEOREM NamesStayUnique ==
  ASSUME InitiallySound, InitiallyUnique, ~FilesFail
  PROVE  MSpec /\ []OneAtATime => []NamesUnique
<1>1. SInv => NamesUnique
  BY DEF SInv
<1> QED
  BY <1>1, Sequential, PTL

\* Then only the owner can delete a chat (handle_delete_chat).
THEOREM OnlyOwnersDelete ==
  ASSUME InitiallySound, InitiallyUnique, ~FilesFail
  PROVE  MSpec /\ []OneAtATime => OwnerDeletes
<1>1. MInv /\ SInv =>
        [\A p \in Procs : Left(p, "chatdelete") /\ chats' # chats =>
           \E i \in 1..Len(chats) :
             IsFirstChat(chats, i, req[p].name) /\ chats[i].creator = req[p].by]_vars
  BY DEF SInv, Decided, DecidedFor, FirstOf, Left
<1> QED
  BY <1>1, Sequential, PTL DEF OwnerDeletes

\* every child has an answer, whatever it is
AnswersKnown == DOMAIN answer = Procs

\* No step takes it away.
LEMMA AnswersThere == MSpec => []AnswersKnown
<1>1. MInit => AnswersKnown
  BY DEF MInit, Init, AnswersKnown
<1>2. ASSUME NEW p \in Procs,
             \/ HandleMessage(p) \/ \E r \in Messages : ReceiveMessage(p, r)
             \/ Handle(p) \/ \E r \in Requests : Receive(p, r)
      PROVE  answer' = answer \/ \E a : answer' = [answer EXCEPT ![p] = a]
  <2>1. CASE HandleMessage(p) \/ \E r \in Messages : ReceiveMessage(p, r)
    BY <2>1 DEF HandleMessage, CheckTarget, StoreMessage, TellMessage, LoadHistory,
       ReceiveMessage
  <2>2. CASE \E r \in Requests : Receive(p, r)
    BY <2>2 DEF Receive
  <2>3. CASE UserFree(p) \/ UserCreate(p) \/ UserKnown(p) \/ Password(p) \/ ChatFree(p)
             \/ ChatCreate(p) \/ AddCreator(p) \/ ChatThere(p) \/ ChatDelete(p)
             \/ UserThere(p) \/ AddUser(p) \/ RemoveUser(p) \/ Count(p) \/ InfoLogins(p)
    BY <2>3 DEF UserFree, UserCreate, UserKnown, Password, ChatFree, ChatCreate, AddCreator,
       ChatThere, ChatDelete, UserThere, AddUser, RemoveUser, Count, InfoLogins
  <2>4. CASE Host(p) \/ Members(p)
    BY <2>4 DEF Host, Members
  <2>5. CASE List(p) \/ UserList(p) \/ InfoChats(p)
    BY <2>5 DEF List, UserList, InfoChats
  <2> QED
    BY <1>2, <2>1, <2>2, <2>3, <2>4, <2>5 DEF Handle
<1>3. AnswersKnown /\ [MNext]_allvars => AnswersKnown'
  <2> SUFFICES ASSUME AnswersKnown, [MNext]_allvars PROVE AnswersKnown'
    OBVIOUS
  <2>1. answer' = answer \/ \E p \in Procs : \E a : answer' = [answer EXCEPT ![p] = a]
    BY <1>2 DEF MNext, allvars, vars
  <2> QED
    BY <2>1 DEF AnswersKnown
<1> QED
  BY <1>1, <1>3, PTL DEF MSpec

\* The step that answers /info.
LEMMA InfoEnds ==
  ASSUME MInv, [MNext]_allvars, NEW p \in Procs,
         pc[p] = "chatsof", pc'[p] = "idle", req[p].kind = "info"
  PROVE  InfoChats(p)
<1>0. HInv /\ pc \in [Procs -> Places] /\ pc' # pc
  BY DEF MInv, HInv, Types
<1>1. PICK q \in Procs :
        \/ HandleMessage(q) \/ \E r \in Messages : ReceiveMessage(q, r)
        \/ Handle(q) \/ \E r \in Requests : Receive(q, r)
  BY <1>0 DEF MNext, allvars, vars
<1>2. CASE Handle(q)
  <2>1. \E to \in ChatPlaces \cup {"idle"} : pc' = [pc EXCEPT ![q] = to]
    BY <1>0, <1>2, HandlerStays
  <2>2. q = p
    BY <1>0, <2>1
  <2> QED
    BY <1>2, <2>2 DEF Handle, UserFree, UserCreate, UserKnown, Password, ChatFree, ChatCreate,
       AddCreator, ChatThere, Host, ChatDelete, UserThere, AddUser, RemoveUser, Members,
       List, UserList, Count, InfoLogins, Reply, Continue, Goto
<1>3. CASE HandleMessage(q) \/ \E r \in Messages : ReceiveMessage(q, r)
  <2>1. pc[q] # "chatsof" /\ \E to : pc' = [pc EXCEPT ![q] = to]
    BY <1>3 DEF HandleMessage, CheckTarget, StoreMessage, TellMessage, LoadHistory,
       ReceiveMessage, Reply, Continue, Goto
  <2> QED
    BY <1>0, <2>1
<1>4. CASE \E r \in Requests : Receive(q, r)
  <2>1. pc[q] # "chatsof" /\ \E to : pc' = [pc EXCEPT ![q] = to]
    BY <1>4 DEF Receive, Goto
  <2> QED
    BY <1>0, <2>1
<1> QED
  BY <1>1, <1>2, <1>3, <1>4

\* And /info counts every chat that has members once (handle_info).
THEOREM InfoIsRight ==
  ASSUME InitiallySound, InitiallyUnique, ~FilesFail
  PROVE  MSpec /\ []OneAtATime => InfoCountsChats
<1>1. ASSUME MInv, SInv, AnswersKnown, [MNext]_allvars, NEW p \in Procs,
             pc[p] = "chatsof", pc'[p] = "idle", req[p].kind = "info"
      PROVE  answer'[p] = {Cardinality({chats[i].name : i \in WithMembers})}
  <2>1. /\ todo[p] = <<>> /\ answer'[p] = {Cardinality(seen[p])}
    <3>1. InfoChats(p)
      BY <1>1, InfoEnds
    <3>2. todo[p] = <<>> /\ answer' = [answer EXCEPT ![p] = {Cardinality(seen[p])}]
      BY <1>1, <3>1 DEF InfoChats
    <3> QED
      BY <1>1, <3>2 DEF AnswersKnown
  <2>2. seen[p] \cup ChatsOfAll(chats, todo[p]) = Counted(chats)
    BY <1>1 DEF SInv, Decided, DecidedFor
  <2>3. ChatsOfAll(chats, <<>>) = {}
    BY EmptySeq DEF ChatsOfAll
  <2>4. Counted(chats) = {chats[i].name : i \in WithMembers}
    BY DEF Counted, WithMembers
  <2> QED
    BY <2>1, <2>2, <2>3, <2>4
<1>2. MInv /\ SInv /\ AnswersKnown /\ [MNext]_allvars =>
        [\A p \in Procs : pc[p] = "chatsof" /\ pc'[p] = "idle" /\ req[p].kind = "info" =>
           answer'[p] = {Cardinality({chats[i].name : i \in WithMembers})}]_vars
  BY <1>1
<1> QED
  BY <1>2, AnswersThere, Sequential, PTL DEF MSpec, InfoCountsChats
=============================================================================
