------------------------- MODULE NotifyServerProofs -------------------------
(***************************************************************************)
(* Proofs about NotifyServer, for any number of connections, pids, logins  *)
(* and requests, any size of the table and of the pipes, and any faults.   *)
(***************************************************************************)
EXTENDS NotifyServer, SequenceTheorems, TLAPS

-----------------------------------------------------------------------------
(* What the types and the mutex rest on. *)

\* the used slots hold entries, the others none
TableFilled == \A i \in Slots : IF i \in Used THEN entries[i] \in Entry
                                             ELSE entries[i] = NoEntry

\* the dispatch loop stays inside the table while it holds the mutex, and
\* the connection to be added is there exactly while it is being added
LoopSound ==
  /\ main = "deliver" => idx \in 1..(count + 1)
  /\ main \in {"readbody", "send"} => idx \in Used /\ hand \in Note
  /\ main \in {"addlock", "add"} <=> newconn # NoConn
  /\ main = "dead" => handler = "idle"

\* a child that writes to its pipe has somebody left to notify
OutboxSound == \A c \in Conns : child[c] \in {"header", "body"} => outbox[c] # <<>>

\* a connection has a pid once it has a child
PidsGiven == \A c \in Conns : IF child[c] = "none" THEN pid[c] = NoPid
                                                     ELSE pid[c] \in Pids
NewHasChild == newconn # NoConn => child[newconn] # "none"
AwayHasNone == \A c \in Conns : peer[c] = "away" => child[c] = "none"

TypeInv == /\ TypeOK /\ LockDiscipline /\ TableFilled /\ LoopSound
           /\ OutboxSound /\ PidsGiven /\ NewHasChild /\ AwayHasNone

-----------------------------------------------------------------------------
(* What the table invariants rest on. *)

\* an entry carries the pid of its connection's child
EntryPids == \A i \in Used : entries[i].pid = pid[entries[i].conn]

\* no two unreaped children have the same pid, and the handler removes the
\* entry of a child that was reaped, under a pid nobody has
Unreaped == {c \in Conns : child[c] \notin {"none", "gone"}}
PidsUnique ==
  /\ \A c, d \in Unreaped : pid[c] = pid[d] => c = d
  /\ handler \in {"lock", "remove"} =>
       hpid \in Pids /\ \A c \in Conns : pid[c] = hpid => child[c] = "gone"

\* a connection that the parent has anything of was accepted
Accepted == \A c \in Conns :
  c \in TableConns \cup refused \cup {newconn} => peer[c] # "away"

TableInv == /\ EntryPids /\ PidsUnique /\ Accepted
            /\ DescriptorsAccounted /\ LiveChildHasEntry

IInv == TypeInv /\ TableInv

\* A used slot holds an entry.
LEMMA UsedEntry ==
  ASSUME TypeInv, NEW i \in Used
  PROVE  i \in Slots /\ i \in Nat /\ entries[i] \in Entry
      /\ entries[i].conn \in Conns
<1>1. i \in Slots /\ i \in Nat
  BY ConstantsAssumption DEF TypeInv, TypeOK, TableType, Used, Slots
<1>2. entries[i] \in Entry
  BY <1>1 DEF TypeInv, TableFilled
<1> QED
  BY <1>1, <1>2 DEF Entry

\* notify_register leaves an entry an entry.
LEMMA RegisteredEntry ==
  ASSUME TypeInv, NEW i \in Used, NEW c \in Conns
  PROVE  [entries[i] EXCEPT !.login = login[c]] \in Entry
<1>1. entries[i] \in Entry
  BY UsedEntry
<1>2. login[c] \in Logins \cup {NoLogin}
  BY DEF TypeInv, TypeOK, ChildrenType
<1> QED
  BY <1>1, <1>2 DEF Entry

\* What notify_client_add puts into the table is an entry.
LEMMA AddedEntry ==
  ASSUME TypeInv, newconn # NoConn
  PROVE  /\ newconn \in Conns
         /\ [pid |-> pid[newconn], login |-> NoLogin, conn |-> newconn] \in Entry
<1>1. newconn \in Conns
  BY DEF TypeInv, TypeOK, ParentType
<1>2. pid[newconn] \in Pids
  BY <1>1 DEF TypeInv, PidsGiven, NewHasChild
<1> QED
  BY <1>1, <1>2 DEF Entry

\* More than one element leave a nonempty tail.
LEMMA TailNonEmpty ==
  ASSUME NEW S, NEW s \in Seq(S), s # <<>>, Len(s) # 1
  PROVE  Tail(s) # <<>>
<1>1. Len(s) \in Nat \ {0} /\ Len(Tail(s)) = Len(s) - 1
  BY HeadTailProperties, EmptySeq
<1>2. Len(Tail(s)) # 0
  BY <1>1
<1>3. Len(<<>>) = 0
  BY EmptySeq
<1> QED
  BY <1>2, <1>3, Zenon

\* Taking from a pipe leaves a pipe and yields a notification.
LEMMA TakenFromPipe ==
  ASSUME TypeInv, NEW c \in Conns, TakeFromPipe(c)
  PROVE  pipe' \in [Conns -> Seq(Item)] /\ Head(pipe[c]).note \in Note
<1>1. pipe \in [Conns -> Seq(Item)] /\ pipe[c] \in Seq(Item) /\ pipe[c] # <<>>
  BY DEF TypeInv, TypeOK, ChannelType, TakeFromPipe
<1>2. Head(pipe[c]) \in Item /\ Tail(pipe[c]) \in Seq(Item)
  BY <1>1
<1> QED
  BY <1>1, <1>2 DEF TakeFromPipe, Item

\* Writing to a pipe leaves a pipe.
LEMMA WrittenToPipe ==
  ASSUME TypeInv, NEW c \in Conns, NEW part \in {"header", "body"},
         outbox[c] # <<>>, WritePipe(c, part)
  PROVE  pipe' \in [Conns -> Seq(Item)]
<1>1. outbox[c] \in Seq(Logins) /\ sent[c] \in Nat
  BY DEF TypeInv, TypeOK, ChildrenType
<1>2. Head(outbox[c]) \in Logins
  BY <1>1
<1>3. [part |-> part, note |-> NextNote(c)] \in Item
  BY <1>1, <1>2 DEF NextNote, Item, Note
<1>4. pipe[c] \in Seq(Item) /\ pipe \in [Conns -> Seq(Item)]
  BY DEF TypeInv, TypeOK, ChannelType
<1>5. Append(pipe[c], [part |-> part, note |-> NextNote(c)]) \in Seq(Item)
  BY <1>3, <1>4
<1> QED
  BY <1>4, <1>5 DEF WritePipe

-----------------------------------------------------------------------------
(* Types and mutex: one lemma per part of TypeInv.  A step either is one *)
(* of the actions that touch the part or leaves its variables unchanged.  *)

\* A child that notifies has an addressee at every step.
LEMMA NextOutbox == TypeInv /\ [Next]_vars => OutboxSound'
<1> SUFFICES ASSUME TypeInv, [Next]_vars PROVE OutboxSound'
  OBVIOUS
<1> USE ConstantsAssumption DEF TypeInv, TypeOK, ChildrenType, OutboxSound
<1>1. ASSUME NEW c \in Conns, NEW p \in Pids, Accept(c, p) PROVE OutboxSound'
  BY <1>1 DEF Accept, Running, Free, shared, loop, sighand, children, ghosts
<1>2. ASSUME NEW c \in Conns, Reap(c) PROVE OutboxSound'
  BY <1>2 DEF Reap, shared, loop, sighand, children, ghosts
<1>3. ASSUME NEW c \in Conns, BadRequest(c) PROVE OutboxSound'
  BY <1>3 DEF BadRequest, NextRequest, Goto, shared, loop, sighand, children, ghosts
<1>4. ASSUME NEW c \in Conns, AnonymousRequest(c) PROVE OutboxSound'
  BY <1>4 DEF AnonymousRequest, NextRequest, Goto, shared, loop, sighand,
     children, ghosts
<1>5. ASSUME NEW c \in Conns, NEW l \in Logins, TokenRequest(c, l)
      PROVE  OutboxSound'
  BY <1>5 DEF TokenRequest, NextRequest, Goto, shared, loop, sighand, children,
     ghosts
<1>6. ASSUME NEW c \in Conns, RegisterLock(c) PROVE OutboxSound'
  BY <1>6 DEF RegisterLock, Acquire, Goto, shared, loop, sighand, children, ghosts
<1>7. ASSUME NEW c \in Conns, Register(c) PROVE OutboxSound'
  BY <1>7 DEF Register, FirstWithPid, Release, Goto, Used, shared, loop, sighand,
     children, ghosts
<1>8. ASSUME NEW c \in Conns, Handle(c) PROVE OutboxSound'
  BY <1>8 DEF Handle, Goto, shared, loop, sighand, children, ghosts
<1>9. ASSUME NEW c \in Conns, WriteHeader(c) PROVE OutboxSound'
  BY <1>9 DEF WriteHeader, WritePipe, NextNote, Goto, shared, loop, sighand,
     children, ghosts
<1>10. ASSUME NEW c \in Conns, WriteBody(c) PROVE OutboxSound'
  <2>1. outbox[c] \in Seq(Logins) /\ outbox[c] # <<>>
    BY <1>10 DEF WriteBody
  <2>2. Len(outbox[c]) # 1 => Tail(outbox[c]) # <<>>
    BY <2>1, TailNonEmpty
  <2> QED
    BY <1>10, <2>2 DEF WriteBody, Goto
<1>11. ASSUME NEW c \in Conns, BrokenPipe(c) PROVE OutboxSound'
  BY <1>11 DEF BrokenPipe, Exit, Goto, shared, loop, sighand, children, ghosts
<1>12. ASSUME NEW c \in Conns, Respond(c) PROVE OutboxSound'
  BY <1>12 DEF Respond, Goto, Exit, shared, loop, sighand, children, ghosts
<1>13. ASSUME NEW c \in Conns, ChildExit(c) PROVE OutboxSound'
  BY <1>13 DEF ChildExit, Exit, Goto, shared, loop, sighand, children, ghosts
<1>14. CASE UNCHANGED <<child, outbox>>
  BY <1>14
<1> HIDE DEF OutboxSound
<1> QED
  BY <1>1, <1>2, <1>3, <1>4, <1>5, <1>6, <1>7, <1>8, <1>9, <1>10, <1>11, <1>12,
     <1>13, <1>14 DEF Next, Dispatch, AddNew, Listen, Handler, Serve, Client,
     vars, shared, loop, sighand, children, ghosts,
  DispatchLock, BuildFdSet, SelectPipes, DeliverLock, DeliverEnd, DeliverSkip,
  ReadHeader, ReadBody, Send, NoConnection, AcceptExits, AddLock, AddClient,
  SigChld, ReapNone, HandlerLock, Remove, AcceptFails, ClientClose, Absent,
  Acquire, CloseFds, DestReceives, Die, FirstWithLogin, FirstWithPid, Found,
  Lookup, NextEntry, PipeSet, Release, Running, TableConns, TakeFromPipe, Used,
  WithoutSlot

\* The dispatch loop stays inside the table: nobody changes the count
\* while main holds the mutex.
LEMMA NextLoop == TypeInv /\ [Next]_vars => LoopSound'
<1> SUFFICES ASSUME TypeInv, [Next]_vars PROVE LoopSound'
  OBVIOUS
<1> USE ConstantsAssumption DEF TypeInv, TypeOK, TableType, ParentType, LoopSound,
   LockDiscipline, MainHolds, MainPc, HandlerPc, Used
<1>1. ASSUME DispatchLock PROVE LoopSound'
  BY <1>1 DEF DispatchLock, Running, Acquire, shared, loop, sighand, children,
     ghosts
<1>2. ASSUME BuildFdSet PROVE LoopSound'
  BY <1>2 DEF BuildFdSet, Running, Release, PipeSet, TableConns, Used, shared,
     loop, sighand, children, ghosts
<1>3. ASSUME SelectPipes PROVE LoopSound'
  BY <1>3 DEF SelectPipes, Running, shared, loop, sighand, children, ghosts
<1>4. ASSUME DeliverLock PROVE LoopSound'
  BY <1>4 DEF DeliverLock, Running, Acquire, shared, loop, sighand, children, ghosts
<1>5. ASSUME DeliverEnd PROVE LoopSound'
  BY <1>5 DEF DeliverEnd, Running, Release, shared, loop, sighand, children, ghosts
<1>6. ASSUME DeliverSkip PROVE LoopSound'
  BY <1>6 DEF DeliverSkip, Running, shared, loop, sighand, children, ghosts
<1>7. ASSUME ReadHeader PROVE LoopSound'
  <2>1. idx \in Used
    BY <1>7 DEF ReadHeader, Running
  <2>2. entries[idx].conn \in Conns /\ TakeFromPipe(entries[idx].conn)
    BY <1>7, <2>1, UsedEntry DEF ReadHeader
  <2>3. hand' \in Note
    BY <1>7, <2>2, TakenFromPipe DEF ReadHeader
  <2> QED
    BY <1>7, <2>1, <2>3 DEF ReadHeader, Running, shared, loop, sighand, children,
       ghosts
<1>8. ASSUME ReadBody PROVE LoopSound'
  BY <1>8 DEF ReadBody, Running, TakeFromPipe, Lookup, Found, FirstWithLogin,
     Absent, NextEntry, shared, loop, sighand, children, ghosts
<1>9. ASSUME Send PROVE LoopSound'
  BY <1>9 DEF Send, Running, DestReceives, NextEntry, Die, shared, loop, sighand,
     children, ghosts
<1>10. ASSUME NoConnection PROVE LoopSound'
  BY <1>10 DEF NoConnection, Running, shared, loop, sighand, children, ghosts
<1>11. ASSUME NEW c \in Conns, AcceptFails(c) PROVE LoopSound'
  BY <1>11 DEF AcceptFails, Running, shared, loop, sighand, children, ghosts
<1>12. ASSUME NEW c \in Conns, NEW p \in Pids, Accept(c, p) PROVE LoopSound'
  BY <1>12 DEF Accept, Running, Free, shared, loop, sighand, children, ghosts
<1>13. ASSUME AcceptExits PROVE LoopSound'
  BY <1>13 DEF AcceptExits, Running, Die, shared, loop, sighand, children, ghosts
<1>14. ASSUME AddLock PROVE LoopSound'
  BY <1>14 DEF AddLock, Running, Acquire, shared, loop, sighand, children, ghosts
<1>15. ASSUME AddClient PROVE LoopSound'
  BY <1>15 DEF AddClient, Running, Release, shared, loop, sighand, children, ghosts
<1>16. ASSUME SigChld PROVE LoopSound'
  BY <1>16 DEF SigChld, shared, loop, sighand, children, ghosts
<1>17. ASSUME NEW c \in Conns, Reap(c) PROVE LoopSound'
  BY <1>17 DEF Reap, shared, loop, sighand, children, ghosts
<1>18. ASSUME ReapNone PROVE LoopSound'
  BY <1>18 DEF ReapNone, shared, loop, sighand, children, ghosts
<1>19. ASSUME HandlerLock PROVE LoopSound'
  BY <1>19 DEF HandlerLock, Acquire, shared, loop, sighand, children, ghosts
<1>20. ASSUME Remove PROVE LoopSound'
  BY <1>20 DEF Remove, FirstWithPid, CloseFds, WithoutSlot, Release, Used, shared,
     loop, sighand, children, ghosts
<1>21. CASE UNCHANGED <<main, idx, count, hand, newconn, handler>>
  BY <1>21
<1> HIDE DEF LoopSound
<1> QED
  BY <1>1, <1>2, <1>3, <1>4, <1>5, <1>6, <1>7, <1>8, <1>9, <1>10, <1>11, <1>12,
     <1>13, <1>14, <1>15, <1>16, <1>17, <1>18, <1>19, <1>20, <1>21, ZenonT(40) DEF Next,
     Dispatch, AddNew, Listen, Handler, Serve, Client, vars, shared, loop,
     sighand, children, ghosts,
  BadRequest, AnonymousRequest, ChildExit, ClientClose, RegisterLock, Register,
  Handle, WriteHeader, WriteBody, BrokenPipe, Respond, TokenRequest, Acquire,
  Exit, FirstWithPid, Goto, NextNote, NextRequest, Release, Used, WritePipe

\* The types of the parent's state.
LEMMA NextParent == TypeInv /\ [Next]_vars => ParentType'
<1> SUFFICES ASSUME TypeInv, [Next]_vars PROVE ParentType'
  OBVIOUS
<1> USE ConstantsAssumption DEF TypeInv, TypeOK, TableType, ParentType,
   ChildrenType, ChannelType, LoopSound, TableFilled, Item, Entry, MainPc,
   HandlerPc, Used, Slots
<1>1. ASSUME DispatchLock PROVE ParentType'
  BY <1>1 DEF DispatchLock, Running, Acquire, shared, loop, sighand, children,
     ghosts
<1>2. ASSUME BuildFdSet PROVE ParentType'
  BY <1>2 DEF BuildFdSet, Running, Release, PipeSet, TableConns, Used, shared,
     loop, sighand, children, ghosts
<1>3. ASSUME SelectPipes PROVE ParentType'
  BY <1>3 DEF SelectPipes, Running, shared, loop, sighand, children, ghosts
<1>4. ASSUME DeliverLock PROVE ParentType'
  BY <1>4 DEF DeliverLock, Running, Acquire, shared, loop, sighand, children, ghosts
<1>5. ASSUME DeliverEnd PROVE ParentType'
  BY <1>5 DEF DeliverEnd, Running, Release, shared, loop, sighand, children, ghosts
<1>6. ASSUME DeliverSkip PROVE ParentType'
  BY <1>6 DEF DeliverSkip, Running, shared, loop, sighand, children, ghosts
<1>7. ASSUME ReadHeader PROVE ParentType'
  <2>1. idx \in Used
    BY <1>7 DEF ReadHeader, Running
  <2>2. entries[idx].conn \in Conns /\ TakeFromPipe(entries[idx].conn)
    BY <1>7, <2>1, UsedEntry DEF ReadHeader
  <2>3. hand' \in Note
    BY <1>7, <2>2, TakenFromPipe DEF ReadHeader
  <2> QED
    BY <1>7, <2>3 DEF ReadHeader, Running, shared, loop, sighand, children, ghosts
<1>8. ASSUME ReadBody PROVE ParentType'
  <2>1. CASE Found
    <3>1. dest' \in Conns
      BY <2>1, UsedEntry DEF Found
    <3> QED
      BY <1>8, <2>1, <3>1 DEF ReadBody, Found, Running, shared, loop, sighand,
         children, ghosts
  <2>2. CASE NextEntry
    BY <1>8, <2>2, SMTT(30) DEF ReadBody, NextEntry, Running, shared, loop, sighand,
       children, ghosts
  <2> QED
    BY <1>8, <2>1, <2>2 DEF ReadBody, Lookup
<1>9. ASSUME Send PROVE ParentType'
  BY <1>9, SMTT(30) DEF Send, Running, DestReceives, NextEntry, Die, shared, loop, sighand,
     children, ghosts
<1>10. ASSUME NoConnection PROVE ParentType'
  BY <1>10 DEF NoConnection, Running, shared, loop, sighand, children, ghosts
<1>11. ASSUME NEW c \in Conns, AcceptFails(c) PROVE ParentType'
  BY <1>11 DEF AcceptFails, Running, shared, loop, sighand, children, ghosts
<1>12. ASSUME NEW c \in Conns, NEW p \in Pids, Accept(c, p) PROVE ParentType'
  BY <1>12 DEF Accept, Running, Free, shared, loop, sighand, children, ghosts
<1>13. ASSUME AcceptExits PROVE ParentType'
  BY <1>13 DEF AcceptExits, Running, Die, shared, loop, sighand, children, ghosts
<1>14. ASSUME AddLock PROVE ParentType'
  BY <1>14 DEF AddLock, Running, Acquire, shared, loop, sighand, children, ghosts
<1>15. ASSUME AddClient PROVE ParentType'
  <2>1. refused' \subseteq Conns
    BY <1>15 DEF AddClient, Running
  <2> QED
    BY <1>15, <2>1 DEF AddClient, Running, shared, loop, sighand, children, ghosts
<1>16. ASSUME SigChld PROVE ParentType'
  BY <1>16 DEF SigChld, shared, loop, sighand, children, ghosts
<1>17. ASSUME NEW c \in Conns, Reap(c) PROVE ParentType'
  BY <1>17 DEF Reap, shared, loop, sighand, children, ghosts
<1>18. ASSUME ReapNone PROVE ParentType'
  BY <1>18 DEF ReapNone, shared, loop, sighand, children, ghosts
<1>19. ASSUME HandlerLock PROVE ParentType'
  BY <1>19 DEF HandlerLock, Acquire, shared, loop, sighand, children, ghosts
<1>20. ASSUME Remove PROVE ParentType'
  BY <1>20 DEF Remove, FirstWithPid, CloseFds, WithoutSlot, Release, Used, shared,
     loop, sighand, children, ghosts
<1>21. ASSUME NEW c \in Conns, BrokenPipe(c) PROVE ParentType'
  BY <1>21 DEF BrokenPipe, Exit, Goto, shared, loop, sighand, children, ghosts
<1>22. ASSUME NEW c \in Conns, Respond(c) PROVE ParentType'
  BY <1>22 DEF Respond, Goto, Exit, shared, loop, sighand, children, ghosts
<1>23. ASSUME NEW c \in Conns, ChildExit(c) PROVE ParentType'
  BY <1>23 DEF ChildExit, Exit, Goto, shared, loop, sighand, children, ghosts
<1>24. CASE UNCHANGED <<main, handler, rfds, fds, refused, idx, hand, dest,
                   newconn, hpid, spent, sigchld>>
  BY <1>24
<1> HIDE DEF ParentType
<1> QED
  BY <1>1, <1>2, <1>3, <1>4, <1>5, <1>6, <1>7, <1>8, <1>9, <1>10, <1>11, <1>12,
     <1>13, <1>14, <1>15, <1>16, <1>17, <1>18, <1>19, <1>20, <1>21, <1>22, <1>23,
     <1>24, ZenonT(40) DEF Next, Dispatch, AddNew, Listen, Handler, Serve, Client, vars,
     shared, loop, sighand, children, ghosts,
  BadRequest, AnonymousRequest, ClientClose, RegisterLock, Register, Handle,
  WriteHeader, WriteBody, TokenRequest, Acquire, FirstWithPid, Goto, NextNote,
  NextRequest, Release, Used, WritePipe

\* The types of the pipes, the sockets and the inboxes.
LEMMA NextChannel == TypeInv /\ [Next]_vars => ChannelType'
<1> SUFFICES ASSUME TypeInv, [Next]_vars PROVE ChannelType'
  OBVIOUS
<1> USE ConstantsAssumption DEF TypeInv, TypeOK, ChannelType, ParentType,
   ChildrenType, OutboxSound, LoopSound
<1>1. ASSUME ReadHeader PROVE ChannelType'
  <2>1. idx \in Used
    BY <1>1 DEF ReadHeader, Running, TableType, Used
  <2>2. entries[idx].conn \in Conns /\ TakeFromPipe(entries[idx].conn)
    BY <1>1, <2>1, UsedEntry DEF ReadHeader
  <2> QED
    BY <1>1, <2>2, TakenFromPipe DEF ReadHeader, shared, loop, sighand, children,
       ghosts
<1>2. ASSUME ReadBody PROVE ChannelType'
  <2>1. entries[idx].conn \in Conns
    BY <1>2, UsedEntry DEF ReadBody, Running
  <2>2. pipe' \in [Conns -> Seq(Item)]
    BY <1>2, <2>1, TakenFromPipe DEF ReadBody
  <2> QED
    BY <1>2, <2>2 DEF ReadBody, shared, loop, sighand, children, ghosts
<1>3. ASSUME Send PROVE ChannelType'
  <2>1. hand \in Note /\ dest \in Conns /\ inbox[dest] \in Seq(Note)
    BY <1>3 DEF Send, Running
  <2>2. Append(inbox[dest], hand) \in Seq(Note)
    BY <2>1
  <2>3. inbox' \in [Conns -> Seq(Note)]
    BY <1>3, <2>2, ZenonT(40) DEF Send, DestReceives
  <2> QED
    BY <1>3, <2>3 DEF Send, shared, loop, sighand, children, ghosts
<1>4. ASSUME NEW c \in Conns, NEW p \in Pids, Accept(c, p) PROVE ChannelType'
  BY <1>4 DEF Accept, Running, Free, shared, loop, sighand, children, ghosts
<1>5. ASSUME NEW c \in Conns, AcceptFails(c) PROVE ChannelType'
  BY <1>5 DEF AcceptFails, Running, shared, loop, sighand, children, ghosts
<1>6. ASSUME Remove PROVE ChannelType'
  <2>1. <<>> \in Seq(Item)
    OBVIOUS
  <2>2. pipe \in [Conns -> Seq(Item)]
    OBVIOUS
  <2>3. ASSUME NEW d, CloseFds(d) PROVE pipe' \in [Conns -> Seq(Item)]
    <3> HIDE DEF TypeInv
    <3> QED
      BY <2>1, <2>2, <2>3 DEF CloseFds
  <2> QED
    BY <1>6, <2>2, <2>3 DEF Remove, shared, loop, sighand, children, ghosts
<1>7. ASSUME NEW c \in Conns, NEW l \in Logins, TokenRequest(c, l)
      PROVE  ChannelType'
  BY <1>7 DEF TokenRequest, NextRequest, Goto, shared, loop, sighand, children,
     ghosts
<1>8. ASSUME NEW c \in Conns, WriteHeader(c) PROVE ChannelType'
  BY <1>8, WrittenToPipe DEF WriteHeader, shared, loop, sighand, children, ghosts
<1>9. ASSUME NEW c \in Conns, WriteBody(c) PROVE ChannelType'
  BY <1>9, WrittenToPipe DEF WriteBody, shared, loop, sighand, children, ghosts
<1>10. ASSUME NEW c \in Conns, ClientClose(c) PROVE ChannelType'
  BY <1>10 DEF ClientClose, shared, loop, sighand, children, ghosts
<1>11. CASE UNCHANGED <<pipe, peer, authed, inbox>>
  BY <1>11
<1> HIDE DEF ChannelType
<1> QED
  BY <1>1, <1>2, <1>3, <1>4, <1>5, <1>6, <1>7, <1>8, <1>9, <1>10, <1>11 DEF Next,
     Dispatch, AddNew, Listen, Handler, Serve, Client, vars, shared, loop,
     sighand, children, ghosts,
  DispatchLock, BuildFdSet, SelectPipes, DeliverLock, DeliverEnd, DeliverSkip,
  NoConnection, AcceptExits, AddLock, AddClient, SigChld, ReapNone, HandlerLock,
  Reap, BadRequest, AnonymousRequest, ChildExit, RegisterLock, Register, Handle,
  BrokenPipe, Respond, Acquire, Die, Exit, FirstWithPid, Goto, NextRequest,
  PipeSet, Release, Running, TableConns, Used

\* The mutex: every action that takes or gives it, and every one that
\* moves a process that could hold it.
LEMMA NextLock == TypeInv /\ [Next]_vars => LockDiscipline'
<1> SUFFICES ASSUME TypeInv, [Next]_vars PROVE LockDiscipline'
  OBVIOUS
<1> USE ConstantsAssumption DEF TypeInv, TypeOK, TableType, ParentType,
   ChildrenType, LockDiscipline, MainHolds, MainPc, HandlerPc, ChildPc, LoopSound,
   Slots, AwayHasNone
<1>1. ASSUME DispatchLock PROVE LockDiscipline'
  BY <1>1 DEF DispatchLock, Running, Acquire, shared, loop, sighand, children,
     ghosts
<1>2. ASSUME BuildFdSet PROVE LockDiscipline'
  BY <1>2 DEF BuildFdSet, Running, Release, PipeSet, TableConns, Used, shared,
     loop, sighand, children, ghosts
<1>3. ASSUME SelectPipes PROVE LockDiscipline'
  BY <1>3 DEF SelectPipes, Running, shared, loop, sighand, children, ghosts
<1>4. ASSUME DeliverLock PROVE LockDiscipline'
  BY <1>4 DEF DeliverLock, Running, Acquire, shared, loop, sighand, children, ghosts
<1>5. ASSUME DeliverEnd PROVE LockDiscipline'
  BY <1>5 DEF DeliverEnd, Running, Release, shared, loop, sighand, children, ghosts
<1>6. ASSUME ReadHeader PROVE LockDiscipline'
  BY <1>6 DEF ReadHeader, Running, TakeFromPipe, shared, loop, sighand, children,
     ghosts
<1>7. ASSUME ReadBody PROVE LockDiscipline'
  BY <1>7 DEF ReadBody, Running, TakeFromPipe, Lookup, Found, FirstWithLogin,
     Absent, NextEntry, shared, loop, sighand, children, ghosts
<1>8. ASSUME Send PROVE LockDiscipline'
  BY <1>8 DEF Send, Running, DestReceives, NextEntry, Die, shared, loop, sighand,
     children, ghosts
<1>9. ASSUME NoConnection PROVE LockDiscipline'
  BY <1>9 DEF NoConnection, Running, shared, loop, sighand, children, ghosts
<1>10. ASSUME AcceptExits PROVE LockDiscipline'
  BY <1>10 DEF AcceptExits, Running, Die, shared, loop, sighand, children, ghosts
<1>11. ASSUME NEW c \in Conns, AcceptFails(c) PROVE LockDiscipline'
  BY <1>11 DEF AcceptFails, Running, shared, loop, sighand, children, ghosts
<1>12. ASSUME NEW c \in Conns, NEW p \in Pids, Accept(c, p) PROVE LockDiscipline'
  BY <1>12 DEF Accept, Running, Free, shared, loop, sighand, children, ghosts
<1>13. ASSUME AddLock PROVE LockDiscipline'
  BY <1>13 DEF AddLock, Running, Acquire, shared, loop, sighand, children, ghosts
<1>14. ASSUME AddClient PROVE LockDiscipline'
  BY <1>14 DEF AddClient, Running, Release, shared, loop, sighand, children, ghosts
<1>15. ASSUME SigChld PROVE LockDiscipline'
  BY <1>15 DEF SigChld, shared, loop, sighand, children, ghosts
<1>16. ASSUME ReapNone PROVE LockDiscipline'
  BY <1>16 DEF ReapNone, shared, loop, sighand, children, ghosts
<1>17. ASSUME HandlerLock PROVE LockDiscipline'
  BY <1>17 DEF HandlerLock, Acquire, shared, loop, sighand, children, ghosts
<1>18. ASSUME Remove PROVE LockDiscipline'
  BY <1>18 DEF Remove, FirstWithPid, CloseFds, WithoutSlot, Release, Used, shared,
     loop, sighand, children, ghosts
<1>19. ASSUME NEW c \in Conns, Reap(c) PROVE LockDiscipline'
  BY <1>19 DEF Reap, shared, loop, sighand, children, ghosts
<1>20. ASSUME NEW c \in Conns, BadRequest(c) PROVE LockDiscipline'
  BY <1>20 DEF BadRequest, NextRequest, Goto, shared, loop, sighand, children,
     ghosts
<1>21. ASSUME NEW c \in Conns, AnonymousRequest(c) PROVE LockDiscipline'
  BY <1>21 DEF AnonymousRequest, NextRequest, Goto, shared, loop, sighand,
     children, ghosts
<1>22. ASSUME NEW c \in Conns, NEW l \in Logins, TokenRequest(c, l)
       PROVE  LockDiscipline'
  BY <1>22 DEF TokenRequest, NextRequest, Goto, shared, loop, sighand, children,
     ghosts
<1>23. ASSUME NEW c \in Conns, RegisterLock(c) PROVE LockDiscipline'
  BY <1>23 DEF RegisterLock, Acquire, Goto, shared, loop, sighand, children, ghosts
<1>24. ASSUME NEW c \in Conns, Register(c) PROVE LockDiscipline'
  BY <1>24 DEF Register, FirstWithPid, Release, Goto, Used, shared, loop, sighand,
     children, ghosts
<1>25. ASSUME NEW c \in Conns, Handle(c) PROVE LockDiscipline'
  BY <1>25 DEF Handle, Goto, shared, loop, sighand, children, ghosts
<1>26. ASSUME NEW c \in Conns, WriteHeader(c) PROVE LockDiscipline'
  BY <1>26 DEF WriteHeader, WritePipe, NextNote, Goto, shared, loop, sighand,
     children, ghosts
<1>27. ASSUME NEW c \in Conns, WriteBody(c) PROVE LockDiscipline'
  BY <1>27 DEF WriteBody, WritePipe, NextNote, Goto, shared, loop, sighand,
     children, ghosts
<1>28. ASSUME NEW c \in Conns, BrokenPipe(c) PROVE LockDiscipline'
  BY <1>28 DEF BrokenPipe, Exit, Goto, shared, loop, sighand, children, ghosts
<1>29. ASSUME NEW c \in Conns, Respond(c) PROVE LockDiscipline'
  BY <1>29 DEF Respond, Goto, Exit, shared, loop, sighand, children, ghosts
<1>30. ASSUME NEW c \in Conns, ChildExit(c) PROVE LockDiscipline'
  BY <1>30 DEF ChildExit, Exit, Goto, shared, loop, sighand, children, ghosts
<1>31. CASE UNCHANGED <<lock, main, handler, child>>
  BY <1>31
<1> HIDE DEF LockDiscipline
<1> QED
  BY <1>1, <1>2, <1>3, <1>4, <1>5, <1>6, <1>7, <1>8, <1>9, <1>10, <1>11, <1>12,
     <1>13, <1>14, <1>15, <1>16, <1>17, <1>18, <1>19, <1>20, <1>21, <1>22, <1>23,
     <1>24, <1>25, <1>26, <1>27, <1>28, <1>29, <1>30, <1>31 DEF Next, Dispatch,
     AddNew, Listen, Handler, Serve, Client, vars, shared, loop, sighand,
     children, ghosts,
  DeliverSkip, ClientClose, Running

\* The types of the shared table.
LEMMA NextTable == TypeInv /\ [Next]_vars => TableType'
<1> SUFFICES ASSUME TypeInv, [Next]_vars PROVE TableType'
  OBVIOUS
<1> USE ConstantsAssumption DEF TypeInv, TypeOK, TableType, Slots
<1>1. ASSUME DispatchLock PROVE TableType'
  BY <1>1 DEF DispatchLock, Running, Acquire, shared, loop, sighand, children,
     ghosts
<1>2. ASSUME BuildFdSet PROVE TableType'
  BY <1>2 DEF BuildFdSet, Running, Release, PipeSet, TableConns, Used, shared,
     loop, sighand, children, ghosts
<1>3. ASSUME DeliverLock PROVE TableType'
  BY <1>3 DEF DeliverLock, Running, Acquire, shared, loop, sighand, children, ghosts
<1>4. ASSUME DeliverEnd PROVE TableType'
  BY <1>4 DEF DeliverEnd, Running, Release, shared, loop, sighand, children, ghosts
<1>5. ASSUME AddLock PROVE TableType'
  BY <1>5 DEF AddLock, Running, Acquire, shared, loop, sighand, children, ghosts
<1>6. ASSUME AddClient PROVE TableType'
  <2>1. [pid |-> pid[newconn], login |-> NoLogin, conn |-> newconn] \in Entry
    BY <1>6, AddedEntry DEF AddClient, Running, LoopSound
  <2>2. entries' \in [Slots -> Entry \cup {NoEntry}] /\ count' \in 0..MaxClients
    <3>1. CASE count < MaxClients
      <4>1. count + 1 \in Slots
        BY <3>1
      <4> QED
        BY <1>6, <2>1, <3>1, <4>1 DEF AddClient
    <3>2. CASE ~(count < MaxClients)
      BY <1>6, <3>2 DEF AddClient
    <3> QED
      BY <3>1, <3>2
  <2> QED
    BY <1>6, <2>2 DEF AddClient, Release
<1>7. ASSUME HandlerLock PROVE TableType'
  BY <1>7 DEF HandlerLock, Acquire, shared, loop, sighand, children, ghosts
<1>8. ASSUME Remove PROVE TableType'
  <2>1. ASSUME NEW i \in Used, entries' = WithoutSlot(i), count' = count - 1
        PROVE  entries' \in [Slots -> Entry \cup {NoEntry}]
            /\ count' \in 0..MaxClients
    <3>1. i \in 1..MaxClients /\ i <= count
      BY <2>1, UsedEntry DEF Used
    <3>2. count' \in 0..MaxClients /\ count \in Slots
      BY <2>1, <3>1
    <3>3. entries[count] \in Entry \cup {NoEntry}
      BY <3>2
    <3> QED
      BY <2>1, <3>2, <3>3 DEF WithoutSlot
  <2> QED
    BY <1>8, <2>1 DEF Remove, Release
<1>9. ASSUME NEW c \in Conns, RegisterLock(c) PROVE TableType'
  BY <1>9 DEF RegisterLock, Acquire, Goto, shared, loop, sighand, children, ghosts
<1>10. ASSUME NEW c \in Conns, Register(c) PROVE TableType'
  <2>1. ASSUME NEW i \in Used, entries' = [entries EXCEPT ![i].login = login[c]]
        PROVE  entries' \in [Slots -> Entry \cup {NoEntry}]
    BY <2>1, RegisteredEntry
  <2> QED
    BY <1>10, <2>1 DEF Register, Release, shared, loop, sighand, children, ghosts
<1>11. CASE UNCHANGED <<lock, entries, count>>
  BY <1>11
<1> HIDE DEF TableType
<1> QED
  BY <1>1, <1>2, <1>3, <1>4, <1>5, <1>6, <1>7, <1>8, <1>9, <1>10, <1>11, ZenonT(40) DEF Next,
     Dispatch, AddNew, Listen, Handler, Serve, Client, vars, shared, loop,
     sighand, children, ghosts,
  SelectPipes, DeliverSkip, ReadHeader, ReadBody, Send, NoConnection, AcceptExits,
  SigChld, ReapNone, AcceptFails, Reap, BadRequest, AnonymousRequest, ChildExit,
  ClientClose, Handle, WriteHeader, WriteBody, BrokenPipe, Respond, Accept,
  TokenRequest, Absent, DestReceives, Die, Exit, FirstWithLogin, Found, Free,
  Goto, Lookup, NextEntry, NextNote, NextRequest, Running, TakeFromPipe, WritePipe

\* The used slots stay filled, the others empty.
LEMMA NextFilled == TypeInv /\ [Next]_vars => TableFilled'
<1> SUFFICES ASSUME TypeInv, [Next]_vars PROVE TableFilled'
  OBVIOUS
<1> USE ConstantsAssumption DEF TypeInv, TypeOK, TableType, ParentType,
   ChildrenType, TableFilled, Slots, Used, Entry, NoEntry, LoopSound, PidsGiven,
   NewHasChild
<1>1. ASSUME AddClient PROVE TableFilled'
  BY <1>1, SMTT(30) DEF AddClient, Running, Release, shared, loop, sighand, children, ghosts
<1>2. ASSUME Remove PROVE TableFilled'
  <2> HIDE DEF Entry, NoEntry
  <2>1. ASSUME NEW i \in 1..count, entries' = WithoutSlot(i), count' = count - 1
        PROVE  TableFilled'
    BY <2>1 DEF WithoutSlot
  <2> QED
    BY <1>2, <2>1 DEF Remove
<1>3. ASSUME NEW c \in Conns, Register(c) PROVE TableFilled'
  <2> HIDE DEF Entry, NoEntry
  <2>2. ASSUME NEW i \in Used, count' = count,
               entries' = [entries EXCEPT ![i].login = login[c]]
        PROVE  TableFilled'
    BY <2>2, RegisteredEntry DEF Register
  <2> QED
    BY <1>3, <2>2 DEF Register
<1>4. CASE UNCHANGED <<entries, count>>
  BY <1>4
<1> HIDE DEF TableFilled
<1> QED
  BY <1>1, <1>2, <1>3, <1>4, ZenonT(40) DEF Next, Dispatch, AddNew, Listen, Handler, Serve,
     Client, vars, shared, loop, sighand, children, ghosts,
  DispatchLock, BuildFdSet, SelectPipes, DeliverLock, DeliverEnd, DeliverSkip,
  ReadHeader, ReadBody, Send, NoConnection, AcceptExits, AddLock, SigChld,
  ReapNone, HandlerLock, AcceptFails, Reap, BadRequest, AnonymousRequest,
  ChildExit, ClientClose, RegisterLock, Handle, WriteHeader, WriteBody,
  BrokenPipe, Respond, Accept, TokenRequest, Absent, Acquire, DestReceives, Die,
  Exit, FirstWithLogin, Found, Free, Goto, Lookup, NextEntry, NextNote,
  NextRequest, PipeSet, Release, Running, TableConns, TakeFromPipe, Used, WritePipe

\* A connection not yet accepted has no child.
LEMMA NextAway == TypeInv /\ [Next]_vars => AwayHasNone'
<1> SUFFICES ASSUME TypeInv, [Next]_vars PROVE AwayHasNone'
  OBVIOUS
<1> USE ConstantsAssumption DEF TypeInv, TypeOK, ChildrenType, ChannelType,
   AwayHasNone
<1>1. ASSUME NEW c \in Conns, NEW p \in Pids, Accept(c, p) PROVE AwayHasNone'
  BY <1>1 DEF Accept, Running, Free, shared, loop, sighand, children, ghosts
<1>2. ASSUME NEW c \in Conns, AcceptFails(c) PROVE AwayHasNone'
  BY <1>2 DEF AcceptFails, Running, shared, loop, sighand, children, ghosts
<1>3. ASSUME NEW c \in Conns, ClientClose(c) PROVE AwayHasNone'
  BY <1>3 DEF ClientClose, shared, loop, sighand, children, ghosts
<1>4. ASSUME NEW c \in Conns, Reap(c) PROVE AwayHasNone'
  BY <1>4 DEF Reap, shared, loop, sighand, children, ghosts
<1>5. ASSUME NEW c \in Conns, BadRequest(c) PROVE AwayHasNone'
  BY <1>5 DEF BadRequest, NextRequest, Goto, shared, loop, sighand, children, ghosts
<1>6. ASSUME NEW c \in Conns, AnonymousRequest(c) PROVE AwayHasNone'
  BY <1>6 DEF AnonymousRequest, NextRequest, Goto, shared, loop, sighand,
     children, ghosts
<1>7. ASSUME NEW c \in Conns, NEW l \in Logins, TokenRequest(c, l)
      PROVE  AwayHasNone'
  BY <1>7 DEF TokenRequest, NextRequest, Goto, shared, loop, sighand, children,
     ghosts
<1>8. ASSUME NEW c \in Conns, RegisterLock(c) PROVE AwayHasNone'
  BY <1>8 DEF RegisterLock, Acquire, Goto, shared, loop, sighand, children, ghosts
<1>9. ASSUME NEW c \in Conns, Register(c) PROVE AwayHasNone'
  BY <1>9 DEF Register, FirstWithPid, Release, Goto, Used, shared, loop, sighand,
     children, ghosts
<1>10. ASSUME NEW c \in Conns, Handle(c) PROVE AwayHasNone'
  BY <1>10 DEF Handle, Goto, shared, loop, sighand, children, ghosts
<1>11. ASSUME NEW c \in Conns, WriteHeader(c) PROVE AwayHasNone'
  BY <1>11 DEF WriteHeader, WritePipe, NextNote, Goto, shared, loop, sighand,
     children, ghosts
<1>12. ASSUME NEW c \in Conns, WriteBody(c) PROVE AwayHasNone'
  BY <1>12 DEF WriteBody, WritePipe, NextNote, Goto, shared, loop, sighand,
     children, ghosts
<1>13. ASSUME NEW c \in Conns, BrokenPipe(c) PROVE AwayHasNone'
  BY <1>13 DEF BrokenPipe, Exit, Goto, shared, loop, sighand, children, ghosts
<1>14. ASSUME NEW c \in Conns, Respond(c) PROVE AwayHasNone'
  BY <1>14 DEF Respond, Goto, Exit, shared, loop, sighand, children, ghosts
<1>15. ASSUME NEW c \in Conns, ChildExit(c) PROVE AwayHasNone'
  BY <1>15 DEF ChildExit, Exit, Goto, shared, loop, sighand, children, ghosts
<1>16. CASE UNCHANGED <<peer, child>>
  BY <1>16
<1> HIDE DEF AwayHasNone
<1> QED
  BY <1>1, <1>2, <1>3, <1>4, <1>5, <1>6, <1>7, <1>8, <1>9, <1>10, <1>11, <1>12,
     <1>13, <1>14, <1>15, <1>16 DEF Next, Dispatch, AddNew, Listen, Handler,
     Serve, Client, vars, shared, loop, sighand, children, ghosts,
  DispatchLock, BuildFdSet, SelectPipes, DeliverLock, DeliverEnd, DeliverSkip,
  ReadHeader, ReadBody, Send, NoConnection, AcceptExits, AddLock, AddClient,
  SigChld, ReapNone, HandlerLock, Remove, Absent, Acquire, CloseFds, DestReceives,
  Die, FirstWithLogin, FirstWithPid, Found, Lookup, NextEntry, PipeSet, Release,
  Running, TableConns, TakeFromPipe, Used, WithoutSlot

\* Children have pids.
LEMMA NextPids == TypeInv /\ [Next]_vars => PidsGiven'
<1> SUFFICES ASSUME TypeInv, [Next]_vars PROVE PidsGiven'
  OBVIOUS
<1> USE ConstantsAssumption DEF TypeInv, TypeOK, ChildrenType, PidsGiven
<1>1. ASSUME NEW c \in Conns, NEW p \in Pids, Accept(c, p) PROVE PidsGiven'
  BY <1>1 DEF Accept, Running, Free, shared, loop, sighand, children, ghosts
<1>2. ASSUME NEW c \in Conns, Reap(c) PROVE PidsGiven'
  BY <1>2 DEF Reap, shared, loop, sighand, children, ghosts
<1>3. ASSUME NEW c \in Conns, BadRequest(c) PROVE PidsGiven'
  BY <1>3 DEF BadRequest, NextRequest, Goto, shared, loop, sighand, children, ghosts
<1>4. ASSUME NEW c \in Conns, AnonymousRequest(c) PROVE PidsGiven'
  BY <1>4 DEF AnonymousRequest, NextRequest, Goto, shared, loop, sighand,
     children, ghosts
<1>5. ASSUME NEW c \in Conns, NEW l \in Logins, TokenRequest(c, l) PROVE PidsGiven'
  BY <1>5 DEF TokenRequest, NextRequest, Goto, shared, loop, sighand, children,
     ghosts
<1>6. ASSUME NEW c \in Conns, RegisterLock(c) PROVE PidsGiven'
  BY <1>6 DEF RegisterLock, Acquire, Goto, shared, loop, sighand, children, ghosts
<1>7. ASSUME NEW c \in Conns, Register(c) PROVE PidsGiven'
  BY <1>7 DEF Register, FirstWithPid, Release, Goto, Used, shared, loop, sighand,
     children, ghosts
<1>8. ASSUME NEW c \in Conns, Handle(c) PROVE PidsGiven'
  BY <1>8 DEF Handle, Goto, shared, loop, sighand, children, ghosts
<1>9. ASSUME NEW c \in Conns, WriteHeader(c) PROVE PidsGiven'
  BY <1>9 DEF WriteHeader, WritePipe, NextNote, Goto, shared, loop, sighand,
     children, ghosts
<1>10. ASSUME NEW c \in Conns, WriteBody(c) PROVE PidsGiven'
  BY <1>10 DEF WriteBody, WritePipe, NextNote, Goto, shared, loop, sighand,
     children, ghosts
<1>11. ASSUME NEW c \in Conns, BrokenPipe(c) PROVE PidsGiven'
  BY <1>11 DEF BrokenPipe, Exit, Goto, shared, loop, sighand, children, ghosts
<1>12. ASSUME NEW c \in Conns, Respond(c) PROVE PidsGiven'
  BY <1>12 DEF Respond, Goto, Exit, shared, loop, sighand, children, ghosts
<1>13. ASSUME NEW c \in Conns, ChildExit(c) PROVE PidsGiven'
  BY <1>13 DEF ChildExit, Exit, Goto, shared, loop, sighand, children, ghosts
<1>14. CASE UNCHANGED <<child, pid>>
  BY <1>14
<1> HIDE DEF PidsGiven
<1> QED
  BY <1>1, <1>2, <1>3, <1>4, <1>5, <1>6, <1>7, <1>8, <1>9, <1>10, <1>11, <1>12,
     <1>13, <1>14 DEF Next, Dispatch, AddNew, Listen, Handler, Serve, Client,
     vars, shared, loop, sighand, children, ghosts,
  DispatchLock, BuildFdSet, SelectPipes, DeliverLock, DeliverEnd, DeliverSkip,
  ReadHeader, ReadBody, Send, NoConnection, AcceptExits, AddLock, AddClient,
  SigChld, ReapNone, HandlerLock, Remove, AcceptFails, ClientClose, Absent,
  Acquire, CloseFds, DestReceives, Die, FirstWithLogin, FirstWithPid, Found,
  Lookup, NextEntry, PipeSet, Release, Running, TableConns, TakeFromPipe, Used,
  WithoutSlot

\* The connection to be added has, or had, a child.
LEMMA NextNew == TypeInv /\ [Next]_vars => NewHasChild'
<1> SUFFICES ASSUME TypeInv, [Next]_vars PROVE NewHasChild'
  OBVIOUS
<1> USE ConstantsAssumption DEF TypeInv, TypeOK, ParentType, ChildrenType,
   NewHasChild
<1>1. ASSUME NEW c \in Conns, NEW p \in Pids, Accept(c, p) PROVE NewHasChild'
  BY <1>1 DEF Accept, Running, Free, shared, loop, sighand, children, ghosts
<1>2. ASSUME AddClient PROVE NewHasChild'
  BY <1>2 DEF AddClient, Running, Release, shared, loop, sighand, children, ghosts
<1>3. ASSUME NEW c \in Conns, Reap(c) PROVE NewHasChild'
  BY <1>3 DEF Reap, shared, loop, sighand, children, ghosts
<1>4. ASSUME NEW c \in Conns, BadRequest(c) PROVE NewHasChild'
  BY <1>4 DEF BadRequest, NextRequest, Goto, shared, loop, sighand, children, ghosts
<1>5. ASSUME NEW c \in Conns, AnonymousRequest(c) PROVE NewHasChild'
  BY <1>5 DEF AnonymousRequest, NextRequest, Goto, shared, loop, sighand,
     children, ghosts
<1>6. ASSUME NEW c \in Conns, NEW l \in Logins, TokenRequest(c, l)
      PROVE  NewHasChild'
  BY <1>6 DEF TokenRequest, NextRequest, Goto, shared, loop, sighand, children,
     ghosts
<1>7. ASSUME NEW c \in Conns, RegisterLock(c) PROVE NewHasChild'
  BY <1>7 DEF RegisterLock, Acquire, Goto, shared, loop, sighand, children, ghosts
<1>8. ASSUME NEW c \in Conns, Register(c) PROVE NewHasChild'
  BY <1>8 DEF Register, FirstWithPid, Release, Goto, Used, shared, loop, sighand,
     children, ghosts
<1>9. ASSUME NEW c \in Conns, Handle(c) PROVE NewHasChild'
  BY <1>9 DEF Handle, Goto, shared, loop, sighand, children, ghosts
<1>10. ASSUME NEW c \in Conns, WriteHeader(c) PROVE NewHasChild'
  BY <1>10 DEF WriteHeader, WritePipe, NextNote, Goto, shared, loop, sighand,
     children, ghosts
<1>11. ASSUME NEW c \in Conns, WriteBody(c) PROVE NewHasChild'
  BY <1>11 DEF WriteBody, WritePipe, NextNote, Goto, shared, loop, sighand,
     children, ghosts
<1>12. ASSUME NEW c \in Conns, BrokenPipe(c) PROVE NewHasChild'
  BY <1>12 DEF BrokenPipe, Exit, Goto, shared, loop, sighand, children, ghosts
<1>13. ASSUME NEW c \in Conns, Respond(c) PROVE NewHasChild'
  BY <1>13 DEF Respond, Goto, Exit, shared, loop, sighand, children, ghosts
<1>14. ASSUME NEW c \in Conns, ChildExit(c) PROVE NewHasChild'
  BY <1>14 DEF ChildExit, Exit, Goto, shared, loop, sighand, children, ghosts
<1>15. CASE UNCHANGED <<child, newconn>>
  BY <1>15
<1> HIDE DEF NewHasChild
<1> QED
  BY <1>1, <1>2, <1>3, <1>4, <1>5, <1>6, <1>7, <1>8, <1>9, <1>10, <1>11, <1>12,
     <1>13, <1>14, <1>15 DEF Next, Dispatch, AddNew, Listen, Handler, Serve,
     Client, vars, shared, loop, sighand, children, ghosts,
  DispatchLock, BuildFdSet, SelectPipes, DeliverLock, DeliverEnd, DeliverSkip,
  ReadHeader, ReadBody, Send, NoConnection, AcceptExits, AddLock, SigChld,
  ReapNone, HandlerLock, Remove, AcceptFails, ClientClose, Absent, Acquire,
  CloseFds, DestReceives, Die, FirstWithLogin, FirstWithPid, Found, Lookup,
  NextEntry, PipeSet, Release, Running, TableConns, TakeFromPipe, Used, WithoutSlot

\* The types of the children's state.
LEMMA NextChildren == TypeInv /\ [Next]_vars => ChildrenType'
<1> SUFFICES ASSUME TypeInv, [Next]_vars PROVE ChildrenType'
  OBVIOUS
<1> USE ConstantsAssumption DEF TypeInv, TypeOK, ChildrenType, OutboxSound, ChildPc
<1>1. ASSUME NEW c \in Conns, NEW p \in Pids, Accept(c, p) PROVE ChildrenType'
  BY <1>1 DEF Accept, Running, Free, shared, loop, sighand, children, ghosts
<1>2. ASSUME NEW c \in Conns, Reap(c) PROVE ChildrenType'
  BY <1>2 DEF Reap, shared, loop, sighand, children, ghosts
<1>3. ASSUME NEW c \in Conns, BadRequest(c) PROVE ChildrenType'
  BY <1>3 DEF BadRequest, NextRequest, Goto, shared, loop, sighand, children, ghosts
<1>4. ASSUME NEW c \in Conns, AnonymousRequest(c) PROVE ChildrenType'
  BY <1>4 DEF AnonymousRequest, NextRequest, Goto, shared, loop, sighand,
     children, ghosts
<1>5. ASSUME NEW c \in Conns, NEW l \in Logins, TokenRequest(c, l)
      PROVE  ChildrenType'
  BY <1>5 DEF TokenRequest, NextRequest, Goto, shared, loop, sighand, children,
     ghosts
<1>6. ASSUME NEW c \in Conns, RegisterLock(c) PROVE ChildrenType'
  BY <1>6 DEF RegisterLock, Acquire, Goto, shared, loop, sighand, children, ghosts
<1>7. ASSUME NEW c \in Conns, Register(c) PROVE ChildrenType'
  BY <1>7 DEF Register, FirstWithPid, Release, Goto, Used, shared, loop, sighand,
     children, ghosts
<1>8. ASSUME NEW c \in Conns, Handle(c) PROVE ChildrenType'
  BY <1>8 DEF Handle, Goto, shared, loop, sighand, children, ghosts
<1>9. ASSUME NEW c \in Conns, WriteHeader(c) PROVE ChildrenType'
  BY <1>9 DEF WriteHeader, WritePipe, NextNote, Goto, shared, loop, sighand,
     children, ghosts
<1>10. ASSUME NEW c \in Conns, WriteBody(c) PROVE ChildrenType'
  BY <1>10 DEF WriteBody, WritePipe, NextNote, Goto, shared, loop, sighand,
     children, ghosts
<1>11. ASSUME NEW c \in Conns, BrokenPipe(c) PROVE ChildrenType'
  BY <1>11 DEF BrokenPipe, Exit, Goto, shared, loop, sighand, children, ghosts
<1>12. ASSUME NEW c \in Conns, Respond(c) PROVE ChildrenType'
  BY <1>12 DEF Respond, Goto, Exit, shared, loop, sighand, children, ghosts
<1>13. ASSUME NEW c \in Conns, ChildExit(c) PROVE ChildrenType'
  BY <1>13 DEF ChildExit, Exit, Goto, shared, loop, sighand, children, ghosts
<1>14. CASE UNCHANGED <<child, pid, login, outbox, requests, sent>>
  BY <1>14
<1> HIDE DEF ChildrenType
<1> QED
  BY <1>1, <1>2, <1>3, <1>4, <1>5, <1>6, <1>7, <1>8, <1>9, <1>10, <1>11, <1>12,
     <1>13, <1>14 DEF Next, Dispatch, AddNew, Listen, Handler, Serve, Client,
     vars, shared, loop, sighand, children, ghosts,
  DispatchLock, BuildFdSet, SelectPipes, DeliverLock, DeliverEnd, DeliverSkip,
  ReadHeader, ReadBody, Send, NoConnection, AcceptExits, AddLock, AddClient,
  SigChld, ReapNone, HandlerLock, Remove, AcceptFails, ClientClose, Absent,
  Acquire, CloseFds, DestReceives, Die, FirstWithLogin, FirstWithPid, Found,
  Lookup, NextEntry, PipeSet, Release, Running, TableConns, TakeFromPipe, Used,
  WithoutSlot

-----------------------------------------------------------------------------
(* The table: one lemma per part of TableInv. *)

\* The table after notify_client_add found a slot.
LEMMA AfterAdd ==
  ASSUME IInv, AddClient, count < MaxClients
  PROVE  /\ newconn \in Conns /\ count + 1 \in Used'
         /\ Used' = Used \cup {count + 1}
         /\ \A k \in Used : entries'[k] = entries[k]
         /\ entries'[count + 1] =
              [pid |-> pid[newconn], login |-> NoLogin, conn |-> newconn]
<1>1. count \in Nat /\ count' = count + 1 /\ count + 1 \in Slots
  BY ConstantsAssumption DEF IInv, TypeInv, TypeOK, TableType, AddClient, Slots
<1>2. Used' = Used \cup {count + 1}
  BY <1>1 DEF Used
<1>3. entries \in [Slots -> Entry \cup {NoEntry}] /\ newconn \in Conns
  BY DEF IInv, TypeInv, TypeOK, TableType, ParentType, LoopSound, AddClient, Running
<1>4. \A k \in Used : k \in Slots /\ k # count + 1
  BY <1>1, UsedEntry DEF Used, IInv
<1>5. entries' = [entries EXCEPT ![count + 1] =
                    [pid |-> pid[newconn], login |-> NoLogin, conn |-> newconn]]
  BY DEF AddClient
<1> QED
  BY <1>1, <1>2, <1>3, <1>4, <1>5

\* The table after notify_client_remove found the pid: the last entry is
\* in the freed slot.
LEMMA AfterRemove ==
  ASSUME IInv, NEW i \in Used, entries' = WithoutSlot(i), count' = count - 1
  PROVE  /\ count \in Used /\ Used' = Used \ {count}
         /\ \A k \in Used' : entries'[k] = entries[IF k = i THEN count ELSE k]
<1>1. count \in Nat /\ entries \in [Slots -> Entry \cup {NoEntry}]
  BY DEF IInv, TypeInv, TypeOK, TableType
<1>2. i \in 1..count /\ \A k \in Used : k \in Slots
  BY UsedEntry DEF IInv, Used
<1>3. count \in Used /\ Used' = Used \ {count}
  BY <1>1, <1>2 DEF Used
<1> QED
  BY <1>1, <1>2, <1>3 DEF WithoutSlot

\* notify_register changes logins only.
LEMMA AfterRegister ==
  ASSUME IInv, NEW c \in Conns, Register(c)
  PROVE  /\ Used' = Used
         /\ \A k \in Used : /\ entries'[k].conn = entries[k].conn
                            /\ entries'[k].pid = entries[k].pid
<1>1. Used' = Used
  BY DEF Used, Register
<1>2. \A k \in Used : entries[k] \in Entry
  BY UsedEntry DEF IInv
<1>3. entries \in [Slots -> Entry \cup {NoEntry}] /\ \A k \in Used : k \in Slots
  BY UsedEntry DEF IInv, TypeInv, TypeOK, TableType
<1>4. ASSUME NEW i \in Used, NEW k \in Used,
             entries' = [entries EXCEPT ![i].login = login[c]]
      PROVE  entries'[k].conn = entries[k].conn /\ entries'[k].pid = entries[k].pid
  BY <1>2, <1>3, <1>4 DEF Entry
<1> QED
  BY <1>1, <1>4 DEF Register

\* The entries' pids stay those of their connections' children.
LEMMA NextEntryPids == IInv /\ [Next]_vars => EntryPids'
<1> SUFFICES ASSUME IInv, [Next]_vars PROVE EntryPids'
  OBVIOUS
<1> USE ConstantsAssumption DEF IInv, TableInv, EntryPids
<1>1. ASSUME NEW c \in Conns, NEW p \in Pids, Accept(c, p) PROVE EntryPids'
  <2>1. \A i \in Used : entries[i].conn \in Conns /\ entries[i].conn # c
    BY <1>1, UsedEntry DEF Accepted, TableConns, Accept
  <2>2. \A d \in Conns \ {c} : pid'[d] = pid[d]
    BY <1>1 DEF Accept, TypeInv, TypeOK, ChildrenType
  <2> QED
    BY <1>1, <2>1, <2>2 DEF Accept, Used, shared, loop, sighand, children, ghosts
<1>2. ASSUME AddClient PROVE EntryPids'
  <2>1. CASE count < MaxClients
    <3>1. pid' = pid
      BY <1>2 DEF AddClient, shared, loop, sighand, children, ghosts
    <3> QED
      BY <1>2, <2>1, <3>1, AfterAdd
  <2>2. CASE ~(count < MaxClients)
    BY <1>2, <2>2 DEF AddClient, Used, shared, loop, sighand, children, ghosts
  <2> QED
    BY <2>1, <2>2
<1>3. ASSUME Remove PROVE EntryPids'
  <2>1. pid' = pid
    BY <1>3 DEF Remove, shared, loop, sighand, children, ghosts
  <2>2. ASSUME NEW i \in Used, entries' = WithoutSlot(i), count' = count - 1
        PROVE  EntryPids'
    BY <2>1, <2>2, AfterRemove
  <2> QED
    BY <1>3, <2>1, <2>2 DEF Remove, Used
<1>4. ASSUME NEW c \in Conns, Register(c) PROVE EntryPids'
  <2>1. pid' = pid
    BY <1>4 DEF Register
  <2> QED
    BY <1>4, <2>1, AfterRegister
<1>5. CASE UNCHANGED <<entries, count, pid>>
  BY <1>5 DEF Used
<1> HIDE DEF EntryPids
<1> QED
  BY <1>1, <1>2, <1>3, <1>4, <1>5, ZenonT(40) DEF Next, Dispatch, AddNew, Listen, Handler,
     Serve, Client, vars, shared, loop, sighand, children, ghosts,
  DispatchLock, BuildFdSet, SelectPipes, DeliverLock, DeliverEnd, DeliverSkip,
  ReadHeader, ReadBody, Send, NoConnection, AcceptExits, AddLock, SigChld,
  ReapNone, HandlerLock, AcceptFails, Reap, BadRequest, AnonymousRequest,
  ChildExit, ClientClose, RegisterLock, Handle, WriteHeader, WriteBody,
  BrokenPipe, Respond, TokenRequest, Absent, Acquire, DestReceives, Die, Exit,
  FirstWithLogin, Found, Goto, Lookup, NextEntry, NextNote, NextRequest, PipeSet,
  Release, Running, TableConns, TakeFromPipe, Used, WritePipe

\* Unreaped children have different pids, and the handler works on one
\* that no unreaped child has: no child is forked while it runs.
LEMMA NextPidsUnique == IInv /\ [Next]_vars => PidsUnique'
<1> SUFFICES ASSUME IInv, [Next]_vars PROVE PidsUnique'
  OBVIOUS
<1> USE ConstantsAssumption DEF IInv, TypeInv, TypeOK, ChildrenType, ParentType,
   PidsGiven, TableInv, PidsUnique, Unreaped
<1>1. ASSUME NEW c \in Conns, NEW p \in Pids, Accept(c, p) PROVE PidsUnique'
  BY <1>1 DEF Accept, Running, Free, shared, loop, sighand, children, ghosts
<1>2. ASSUME SigChld PROVE PidsUnique'
  BY <1>2 DEF SigChld, shared, loop, sighand, children, ghosts
<1>3. ASSUME NEW c \in Conns, Reap(c) PROVE PidsUnique'
  BY <1>3 DEF Reap, shared, loop, sighand, children, ghosts
<1>4. ASSUME ReapNone PROVE PidsUnique'
  BY <1>4 DEF ReapNone, shared, loop, sighand, children, ghosts
<1>5. ASSUME HandlerLock PROVE PidsUnique'
  BY <1>5 DEF HandlerLock, Acquire, shared, loop, sighand, children, ghosts
<1>6. ASSUME Remove PROVE PidsUnique'
  BY <1>6 DEF Remove, FirstWithPid, CloseFds, WithoutSlot, Release, Used, shared,
     loop, sighand, children, ghosts
<1>7. ASSUME NEW c \in Conns, BadRequest(c) PROVE PidsUnique'
  BY <1>7 DEF BadRequest, NextRequest, Goto, shared, loop, sighand, children, ghosts
<1>8. ASSUME NEW c \in Conns, AnonymousRequest(c) PROVE PidsUnique'
  BY <1>8 DEF AnonymousRequest, NextRequest, Goto, shared, loop, sighand,
     children, ghosts
<1>9. ASSUME NEW c \in Conns, NEW l \in Logins, TokenRequest(c, l) PROVE PidsUnique'
  BY <1>9 DEF TokenRequest, NextRequest, Goto, shared, loop, sighand, children,
     ghosts
<1>10. ASSUME NEW c \in Conns, RegisterLock(c) PROVE PidsUnique'
  BY <1>10 DEF RegisterLock, Acquire, Goto, shared, loop, sighand, children, ghosts
<1>11. ASSUME NEW c \in Conns, Register(c) PROVE PidsUnique'
  BY <1>11 DEF Register, FirstWithPid, Release, Goto, Used, shared, loop, sighand,
     children, ghosts
<1>12. ASSUME NEW c \in Conns, Handle(c) PROVE PidsUnique'
  BY <1>12, SMTT(30) DEF Handle, Goto, shared, loop, sighand, children, ghosts
<1>13. ASSUME NEW c \in Conns, WriteHeader(c) PROVE PidsUnique'
  BY <1>13 DEF WriteHeader, WritePipe, NextNote, Goto, shared, loop, sighand,
     children, ghosts
<1>14. ASSUME NEW c \in Conns, WriteBody(c) PROVE PidsUnique'
  BY <1>14 DEF WriteBody, WritePipe, NextNote, Goto, shared, loop, sighand,
     children, ghosts
<1>15. ASSUME NEW c \in Conns, BrokenPipe(c) PROVE PidsUnique'
  BY <1>15 DEF BrokenPipe, Exit, Goto, shared, loop, sighand, children, ghosts
<1>16. ASSUME NEW c \in Conns, Respond(c) PROVE PidsUnique'
  BY <1>16 DEF Respond, Goto, Exit, shared, loop, sighand, children, ghosts
<1>17. ASSUME NEW c \in Conns, ChildExit(c) PROVE PidsUnique'
  BY <1>17 DEF ChildExit, Exit, Goto, shared, loop, sighand, children, ghosts
<1>18. CASE UNCHANGED <<child, pid, handler, hpid>>
  BY <1>18
<1> HIDE DEF PidsUnique
<1> QED
  BY <1>1, <1>2, <1>3, <1>4, <1>5, <1>6, <1>7, <1>8, <1>9, <1>10, <1>11, <1>12,
     <1>13, <1>14, <1>15, <1>16, <1>17, <1>18 DEF Next, Dispatch, AddNew, Listen,
     Handler, Serve, Client, vars, shared, loop, sighand, children, ghosts,
  DispatchLock, BuildFdSet, SelectPipes, DeliverLock, DeliverEnd, DeliverSkip,
  ReadHeader, ReadBody, Send, NoConnection, AcceptExits, AddLock, AddClient,
  AcceptFails, ClientClose, Absent, Acquire, DestReceives, Die, FirstWithLogin,
  Found, Lookup, NextEntry, PipeSet, Release, Running, TableConns, TakeFromPipe,
  Used

\* Only accepted connections get into the table.
LEMMA NextAccepted == IInv /\ [Next]_vars => Accepted'
<1> SUFFICES ASSUME IInv, [Next]_vars PROVE Accepted'
  OBVIOUS
<1> USE ConstantsAssumption DEF IInv, TableInv, Accepted
<1>1. ASSUME NEW c \in Conns, NEW p \in Pids, Accept(c, p) PROVE Accepted'
  <2>1. peer \in [Conns -> {"away", "open", "closed"}]
    BY DEF TypeInv, TypeOK, ChannelType
  <2> QED
    BY <1>1, <2>1 DEF Accept, TableConns, Used, shared, loop, sighand, children,
       ghosts
<1>2. ASSUME NEW c \in Conns, AcceptFails(c) PROVE Accepted'
  <2>1. peer \in [Conns -> {"away", "open", "closed"}]
    BY DEF TypeInv, TypeOK, ChannelType
  <2> QED
    BY <1>2, <2>1 DEF AcceptFails, TableConns, Used, shared, loop, sighand,
       children, ghosts
<1>3. ASSUME AddClient PROVE Accepted'
  <2>1. peer' = peer /\ newconn' \notin Conns
    BY <1>3, ConstantsAssumption DEF AddClient
  <2>2. CASE count < MaxClients
    <3>1. TableConns' = TableConns \cup {newconn} /\ refused' = refused
      BY <1>3, <2>2, AfterAdd DEF TableConns, AddClient
    <3> QED
      BY <2>1, <3>1
  <2>3. CASE ~(count < MaxClients)
    <3>1. TableConns' = TableConns /\ refused' = refused \cup {newconn}
      BY <1>3, <2>3 DEF AddClient, TableConns, Used
    <3> QED
      BY <2>1, <3>1
  <2> QED
    BY <2>2, <2>3
<1>4. ASSUME Remove PROVE Accepted'
  <2>1. UNCHANGED <<refused, newconn, peer>>
    BY <1>4 DEF Remove, shared, loop, sighand, children, ghosts
  <2>2. ASSUME NEW i \in Used, entries' = WithoutSlot(i), count' = count - 1
        PROVE  TableConns' \subseteq TableConns
    BY <2>2, AfterRemove DEF TableConns
  <2>3. TableConns' \subseteq TableConns
    BY <1>4, <2>2 DEF Remove, TableConns, Used
  <2> QED
    BY <2>1, <2>3
<1>5. ASSUME NEW c \in Conns, Register(c) PROVE Accepted'
  <2>1. UNCHANGED <<refused, newconn, peer>>
    BY <1>5 DEF Register, shared, loop, sighand, children, ghosts
  <2>2. TableConns' = TableConns
    BY <1>5, AfterRegister DEF TableConns
  <2> QED
    BY <2>1, <2>2
<1>6. ASSUME NEW c \in Conns, ClientClose(c) PROVE Accepted'
  <2>1. peer \in [Conns -> {"away", "open", "closed"}]
    BY DEF TypeInv, TypeOK, ChannelType
  <2> QED
    BY <1>6, <2>1 DEF ClientClose, TableConns, Used, shared, loop, sighand,
       children, ghosts
<1>7. CASE UNCHANGED <<entries, count, refused, newconn, peer>>
  BY <1>7 DEF TableConns, Used
<1> HIDE DEF Accepted
<1> QED
  BY <1>1, <1>2, <1>3, <1>4, <1>5, <1>6, <1>7, ZenonT(40) DEF Next, Dispatch, AddNew, Listen,
     Handler, Serve, Client, vars, shared, loop, sighand, children, ghosts,
  DispatchLock, BuildFdSet, SelectPipes, DeliverLock, DeliverEnd, DeliverSkip,
  ReadHeader, ReadBody, Send, NoConnection, AcceptExits, AddLock, SigChld,
  ReapNone, HandlerLock, Reap, BadRequest, AnonymousRequest, ChildExit,
  RegisterLock, Handle, WriteHeader, WriteBody, BrokenPipe, Respond, TokenRequest,
  Absent, Acquire, DestReceives, Die, Exit, FirstWithLogin, Found, Goto, Lookup,
  NextEntry, NextNote, NextRequest, PipeSet, Release, Running, TableConns,
  TakeFromPipe, Used, WritePipe

\* Every step keeps the descriptors accounted for.
LEMMA NextDescriptors == IInv /\ [Next]_vars => DescriptorsAccounted'
<1> SUFFICES ASSUME IInv, [Next]_vars PROVE DescriptorsAccounted'
  OBVIOUS
<1> USE ConstantsAssumption DEF IInv, TypeInv, LoopSound, TableInv,
   DescriptorsAccounted, TableConns, Used
<1>1. ASSUME DispatchLock PROVE DescriptorsAccounted'
  BY <1>1 DEF DispatchLock, Running, Acquire, shared, loop, sighand, children,
     ghosts
<1>2. ASSUME BuildFdSet PROVE DescriptorsAccounted'
  BY <1>2 DEF BuildFdSet, Running, Release, PipeSet, TableConns, Used, shared,
     loop, sighand, children, ghosts
<1>3. ASSUME SelectPipes PROVE DescriptorsAccounted'
  BY <1>3 DEF SelectPipes, Running, shared, loop, sighand, children, ghosts
<1>4. ASSUME DeliverLock PROVE DescriptorsAccounted'
  BY <1>4 DEF DeliverLock, Running, Acquire, shared, loop, sighand, children, ghosts
<1>5. ASSUME DeliverEnd PROVE DescriptorsAccounted'
  BY <1>5 DEF DeliverEnd, Running, Release, shared, loop, sighand, children, ghosts
<1>6. ASSUME ReadHeader PROVE DescriptorsAccounted'
  BY <1>6 DEF ReadHeader, Running, TakeFromPipe, shared, loop, sighand, children,
     ghosts
<1>7. ASSUME ReadBody PROVE DescriptorsAccounted'
  BY <1>7 DEF ReadBody, Running, TakeFromPipe, Lookup, Found, FirstWithLogin,
     Absent, NextEntry, shared, loop, sighand, children, ghosts
<1>8. ASSUME Send PROVE DescriptorsAccounted'
  BY <1>8 DEF Send, Running, DestReceives, NextEntry, Die, shared, loop, sighand,
     children, ghosts
<1>9. ASSUME NoConnection PROVE DescriptorsAccounted'
  BY <1>9 DEF NoConnection, Running, shared, loop, sighand, children, ghosts
<1>10. ASSUME NEW c \in Conns, AcceptFails(c) PROVE DescriptorsAccounted'
  BY <1>10 DEF AcceptFails, Running, shared, loop, sighand, children, ghosts
<1>11. ASSUME NEW c \in Conns, NEW p \in Pids, Accept(c, p)
       PROVE  DescriptorsAccounted'
  <2>1. c \notin TableConns \cup refused \cup {newconn}
    BY <1>11 DEF Accepted, Accept
  <2>2. newconn = NoConn /\ main # "dead"
    BY <1>11 DEF Accept, Running
  <2>3. UNCHANGED <<entries, count, refused>> /\ newconn' = c /\ fds' = fds \cup {c}
    BY <1>11 DEF Accept, shared, loop, sighand, children, ghosts
  <2> QED
    BY <2>1, <2>2, <2>3, ConstantsAssumption
<1>12. ASSUME AcceptExits PROVE DescriptorsAccounted'
  BY <1>12 DEF AcceptExits, Running, Die, shared, loop, sighand, children, ghosts
<1>13. ASSUME AddLock PROVE DescriptorsAccounted'
  BY <1>13 DEF AddLock, Running, Acquire, shared, loop, sighand, children, ghosts
<1>14. ASSUME AddClient PROVE DescriptorsAccounted'
  <2> HIDE DEF Used
  <2>1. main # "dead" /\ newconn' = NoConn /\ fds' = fds
    BY <1>14 DEF AddClient, Running
  <2>2. newconn \in Conns
    BY <1>14 DEF AddClient, Running, TypeOK, ParentType
  <2>3. NoConn \notin TableConns \cup refused
    BY <1>14, UsedEntry, ConstantsAssumption DEF TypeOK, ParentType
  <2>4. CASE count < MaxClients
    <3>1. TableConns' = TableConns \cup {newconn} /\ refused' = refused
      BY <1>14, <2>4, AfterAdd DEF AddClient
    <3>2. \A i, j \in Used' : entries'[i].conn = entries'[j].conn => i = j
      BY <1>14, <2>4, AfterAdd
    <3> HIDE DEF TableConns
    <3> QED
      BY <2>1, <2>2, <2>3, <3>1, <3>2, ConstantsAssumption
  <2>5. CASE ~(count < MaxClients)
    <3>1. TableConns' = TableConns /\ refused' = refused \cup {newconn}
          /\ UNCHANGED <<entries, count>>
      BY <1>14, <2>5 DEF AddClient, Used
    <3>2. \A i, j \in Used' : entries'[i].conn = entries'[j].conn => i = j
      BY <3>1 DEF Used
    <3> HIDE DEF TableConns
    <3> QED
      BY <2>1, <2>2, <2>3, <3>1, <3>2, ConstantsAssumption
  <2> QED
    BY <2>4, <2>5
<1>15. ASSUME Remove PROVE DescriptorsAccounted'
  <2>1. UNCHANGED <<refused, newconn, main>>
    BY <1>15 DEF Remove, shared, loop, sighand, children, ghosts
  <2>2. ASSUME NEW i \in Used, entries' = WithoutSlot(i), count' = count - 1,
               fds' = fds \ {entries[i].conn}
        PROVE  DescriptorsAccounted'
    <3> HIDE DEF Used
    <3>1. \A k \in Used' : entries'[k] = entries[IF k = i THEN count ELSE k]
      BY <2>2, AfterRemove
    <3>2. count \in Used /\ Used' = Used \ {count}
      BY <2>2, AfterRemove
    <3>3. TableConns' = TableConns \ {entries[i].conn}
      <4>1. TableConns' \subseteq TableConns \ {entries[i].conn}
        BY <3>1, <3>2
      <4>2. ASSUME NEW j \in Used, j # i PROVE entries[j].conn \in TableConns'
        <5>1. CASE j = count
          <6>1. i \in Used' /\ entries'[i] = entries[j]
            BY <2>2, <3>1, <3>2, <4>2, <5>1
          <6> QED
            BY <6>1
        <5>2. CASE j # count
          <6>1. j \in Used' /\ entries'[j] = entries[j]
            BY <3>1, <3>2, <4>2, <5>2
          <6> QED
            BY <6>1
        <5> QED
          BY <5>1, <5>2
      <4>3. ASSUME NEW x \in TableConns \ {entries[i].conn} PROVE x \in TableConns'
        <5>1. PICK j \in Used : x = entries[j].conn
          BY <4>3
        <5> QED
          BY <4>2, <4>3, <5>1
      <4> HIDE DEF TableConns
      <4> QED
        BY <4>1, <4>3
    <3>4. \A j, k \in Used' : entries'[j].conn = entries'[k].conn => j = k
      BY <3>1, <3>2
    <3>5. entries[i].conn \in TableConns
      OBVIOUS
    <3> HIDE DEF TableConns
    <3> QED
      BY <2>1, <2>2, <3>3, <3>4, <3>5
  <2>3. CASE UNCHANGED <<entries, count, fds>>
    BY <2>1, <2>3
  <2> QED
    BY <1>15, <2>2, <2>3 DEF Remove, CloseFds, Used
<1>16. ASSUME NEW c \in Conns, Register(c) PROVE DescriptorsAccounted'
  <2>1. UNCHANGED <<refused, newconn, main, fds>>
    BY <1>16 DEF Register, shared, loop, sighand, children, ghosts
  <2> HIDE DEF Used
  <2>2. TableConns' = TableConns
    BY <1>16, AfterRegister
  <2>3. \A i, j \in Used' : entries'[i].conn = entries'[j].conn => i = j
    BY <1>16, AfterRegister
  <2> QED
    BY <2>1, <2>2, <2>3
<1>17. CASE UNCHANGED <<main, fds, entries, count, refused, newconn>>
  BY <1>17
<1> HIDE DEF DescriptorsAccounted
<1> QED
  BY <1>1, <1>2, <1>3, <1>4, <1>5, <1>6, <1>7, <1>8, <1>9, <1>10, <1>11, <1>12,
     <1>13, <1>14, <1>15, <1>16, <1>17, ZenonT(40) DEF Next, Dispatch, AddNew, Listen,
     Handler, Serve, Client, vars, shared, loop, sighand, children, ghosts,
  DeliverSkip, SigChld, ReapNone, HandlerLock, Reap, BadRequest, AnonymousRequest,
  ChildExit, ClientClose, RegisterLock, Handle, WriteHeader, WriteBody,
  BrokenPipe, Respond, TokenRequest, Acquire, Exit, Goto, NextNote, NextRequest,
  Running, WritePipe

\* Every step keeps the entries of the running children.
LEMMA NextLive == IInv /\ [Next]_vars => LiveChildHasEntry'
<1> SUFFICES ASSUME IInv, [Next]_vars PROVE LiveChildHasEntry'
  OBVIOUS
<1> USE ConstantsAssumption DEF IInv, TypeInv, TypeOK, ChildrenType, LoopSound,
   TableInv, LiveChildHasEntry, Alive, Gone, Used
<1>1. ASSUME DispatchLock PROVE LiveChildHasEntry'
  BY <1>1 DEF DispatchLock, Running, Acquire, shared, loop, sighand, children,
     ghosts
<1>2. ASSUME BuildFdSet PROVE LiveChildHasEntry'
  BY <1>2 DEF BuildFdSet, Running, Release, PipeSet, TableConns, Used, shared,
     loop, sighand, children, ghosts
<1>3. ASSUME SelectPipes PROVE LiveChildHasEntry'
  BY <1>3 DEF SelectPipes, Running, shared, loop, sighand, children, ghosts
<1>4. ASSUME DeliverLock PROVE LiveChildHasEntry'
  BY <1>4 DEF DeliverLock, Running, Acquire, shared, loop, sighand, children, ghosts
<1>5. ASSUME DeliverEnd PROVE LiveChildHasEntry'
  BY <1>5 DEF DeliverEnd, Running, Release, shared, loop, sighand, children, ghosts
<1>6. ASSUME ReadHeader PROVE LiveChildHasEntry'
  BY <1>6 DEF ReadHeader, Running, TakeFromPipe, shared, loop, sighand, children,
     ghosts
<1>7. ASSUME ReadBody PROVE LiveChildHasEntry'
  BY <1>7 DEF ReadBody, Running, TakeFromPipe, Lookup, Found, FirstWithLogin,
     Absent, NextEntry, shared, loop, sighand, children, ghosts
<1>8. ASSUME Send PROVE LiveChildHasEntry'
  BY <1>8 DEF Send, Running, DestReceives, NextEntry, Die, shared, loop, sighand,
     children, ghosts
<1>9. ASSUME NoConnection PROVE LiveChildHasEntry'
  BY <1>9 DEF NoConnection, Running, shared, loop, sighand, children, ghosts
<1>10. ASSUME NEW c \in Conns, AcceptFails(c) PROVE LiveChildHasEntry'
  BY <1>10 DEF AcceptFails, Running, shared, loop, sighand, children, ghosts
<1>11. ASSUME NEW c \in Conns, NEW p \in Pids, Accept(c, p) PROVE LiveChildHasEntry'
  BY <1>11 DEF Accept, Running, Free, shared, loop, sighand, children, ghosts
<1>12. ASSUME AcceptExits PROVE LiveChildHasEntry'
  BY <1>12 DEF AcceptExits, Running, Die, shared, loop, sighand, children, ghosts
<1>13. ASSUME AddLock PROVE LiveChildHasEntry'
  BY <1>13 DEF AddLock, Running, Acquire, shared, loop, sighand, children, ghosts
<1>14. ASSUME AddClient PROVE LiveChildHasEntry'
  <2> HIDE DEF Used
  <2>1. UNCHANGED <<child, pid>> /\ main # "dead" /\ main' # "dead"
    BY <1>14 DEF AddClient, Running, shared, loop, sighand, children, ghosts
  <2>2. CASE count < MaxClients
    <3>1. UNCHANGED refused
      BY <1>14, <2>2 DEF AddClient
    <3>2. /\ count + 1 \in Used' /\ entries'[count + 1].conn = newconn
          /\ entries'[count + 1].pid = pid[newconn]
      BY <1>14, <2>2, AfterAdd
    <3>3. \A k \in Used : k \in Used' /\ entries'[k] = entries[k]
      BY <1>14, <2>2, AfterAdd
    <3>4. SUFFICES ASSUME NEW c \in Conns, Alive(c), c \notin refused
                   PROVE  \E i \in Used' : entries'[i].conn = c
                       /\ entries'[i].pid = pid[c]
      BY <2>1, <3>1
    <3>5. CASE c = newconn
      BY <3>2, <3>5
    <3>6. CASE c # newconn
      BY <2>1, <3>3, <3>4, <3>6, ZenonT(40)
    <3> QED
      BY <3>5, <3>6
  <2>3. CASE ~(count < MaxClients)
    <3>1. Used' = Used /\ entries' = entries /\ refused' = refused \cup {newconn}
      BY <1>14, <2>3 DEF AddClient, Used
    <3> QED
      BY <2>1, <3>1
  <2> QED
    BY <2>2, <2>3
<1>15. ASSUME Remove PROVE LiveChildHasEntry'
  <2>1. UNCHANGED <<child, pid, main, newconn, refused>> /\ handler = "remove"
    BY <1>15 DEF Remove, shared, loop, sighand, children, ghosts
  <2>2. ASSUME NEW i \in Used, entries[i].pid = hpid, entries' = WithoutSlot(i),
               count' = count - 1, NEW c \in Conns, Alive(c),
               NEW j \in Used, entries[j].conn = c, entries[j].pid = pid[c]
        PROVE  \E k \in Used' : entries'[k].conn = c /\ entries'[k].pid = pid[c]
    <3>1. j # i
      BY <2>1, <2>2 DEF PidsUnique
    <3> HIDE DEF Used
    <3>2. /\ count \in Used /\ Used' = Used \ {count}
          /\ \A k \in Used' : entries'[k] = entries[IF k = i THEN count ELSE k]
      BY <2>2, AfterRemove
    <3>3. CASE j = count
      <4>1. i \in Used' /\ entries'[i] = entries[j]
        BY <3>1, <3>2, <3>3
      <4> QED
        BY <2>2, <4>1
    <3>4. CASE j # count
      <4>1. j \in Used' /\ entries'[j] = entries[j]
        BY <3>1, <3>2, <3>4
      <4> QED
        BY <2>2, <4>1
    <3> QED
      BY <3>3, <3>4
  <2>3. ASSUME NEW i \in Used, entries[i].pid = hpid, entries' = WithoutSlot(i),
               count' = count - 1
        PROVE  LiveChildHasEntry'
    <3> HIDE DEF Used
    <3>1. SUFFICES ASSUME NEW c \in Conns, Alive(c), main # "dead",
                          c # newconn, c \notin refused
                   PROVE  \E k \in Used' : entries'[k].conn = c
                       /\ entries'[k].pid = pid[c]
      BY <2>1
    <3>2. PICK j \in Used : entries[j].conn = c /\ entries[j].pid = pid[c]
      BY <3>1
    <3> QED
      BY <2>2, <2>3, <3>1, <3>2
  <2>4. CASE UNCHANGED <<entries, count>>
    BY <2>1, <2>4
  <2> QED
    BY <1>15, <2>3, <2>4 DEF Remove, FirstWithPid
<1>16. ASSUME NEW c \in Conns, Reap(c) PROVE LiveChildHasEntry'
  BY <1>16 DEF Reap, shared, loop, sighand, children, ghosts
<1>17. ASSUME NEW c \in Conns, BadRequest(c) PROVE LiveChildHasEntry'
  BY <1>17 DEF BadRequest, NextRequest, Goto, shared, loop, sighand, children,
     ghosts
<1>18. ASSUME NEW c \in Conns, AnonymousRequest(c) PROVE LiveChildHasEntry'
  BY <1>18 DEF AnonymousRequest, NextRequest, Goto, shared, loop, sighand,
     children, ghosts
<1>19. ASSUME NEW c \in Conns, NEW l \in Logins, TokenRequest(c, l)
       PROVE  LiveChildHasEntry'
  BY <1>19 DEF TokenRequest, NextRequest, Goto, shared, loop, sighand, children,
     ghosts
<1>20. ASSUME NEW c \in Conns, RegisterLock(c) PROVE LiveChildHasEntry'
  BY <1>20 DEF RegisterLock, Acquire, Goto, shared, loop, sighand, children, ghosts
<1>21. ASSUME NEW c \in Conns, Register(c) PROVE LiveChildHasEntry'
  <2> HIDE DEF Used
  <2>1. UNCHANGED <<main, newconn, refused, pid>>
    BY <1>21 DEF Register, shared, loop, sighand, children, ghosts
  <2>2. \A d \in Conns : Alive(d)' => Alive(d)
    BY <1>21 DEF Register, Goto
  <2>3. SUFFICES ASSUME NEW d \in Conns, Alive(d), main # "dead",
                          d # newconn, d \notin refused
                 PROVE  \E k \in Used' : entries'[k].conn = d
                     /\ entries'[k].pid = pid[d]
    BY <2>1, <2>2
  <2>4. PICK k \in Used : entries[k].conn = d /\ entries[k].pid = pid[d]
    BY <2>3
  <2> QED
    BY <1>21, <2>4, AfterRegister
<1>22. ASSUME NEW c \in Conns, Handle(c) PROVE LiveChildHasEntry'
  BY <1>22, ZenonT(40) DEF Handle, Goto, shared, loop, sighand, children, ghosts
<1>23. ASSUME NEW c \in Conns, WriteHeader(c) PROVE LiveChildHasEntry'
  BY <1>23 DEF WriteHeader, WritePipe, NextNote, Goto, shared, loop, sighand,
     children, ghosts
<1>24. ASSUME NEW c \in Conns, WriteBody(c) PROVE LiveChildHasEntry'
  BY <1>24 DEF WriteBody, WritePipe, NextNote, Goto, shared, loop, sighand,
     children, ghosts
<1>25. ASSUME NEW c \in Conns, BrokenPipe(c) PROVE LiveChildHasEntry'
  BY <1>25, ZenonT(40) DEF BrokenPipe, Exit, Goto, shared, loop, sighand, children, ghosts
<1>26. ASSUME NEW c \in Conns, Respond(c) PROVE LiveChildHasEntry'
  BY <1>26, ZenonT(40) DEF Respond, Goto, Exit, shared, loop, sighand, children, ghosts
<1>27. ASSUME NEW c \in Conns, ChildExit(c) PROVE LiveChildHasEntry'
  BY <1>27 DEF ChildExit, Exit, Goto, shared, loop, sighand, children, ghosts
<1>28. CASE UNCHANGED <<child, main, newconn, refused, entries, count, pid>>
  BY <1>28
<1> HIDE DEF LiveChildHasEntry
<1> QED
  BY <1>1, <1>2, <1>3, <1>4, <1>5, <1>6, <1>7, <1>8, <1>9, <1>10, <1>11, <1>12,
     <1>13, <1>14, <1>15, <1>16, <1>17, <1>18, <1>19, <1>20, <1>21, <1>22, <1>23,
     <1>24, <1>25, <1>26, <1>27, <1>28 DEF Next, Dispatch, AddNew, Listen,
     Handler, Serve, Client, vars, shared, loop, sighand, children, ghosts,
  DeliverSkip, SigChld, ReapNone, HandlerLock, ClientClose, Acquire, Running

-----------------------------------------------------------------------------
(* The invariants. *)

\* The strengthened invariant holds initially.
LEMMA InitInv == Init => IInv
<1> SUFFICES ASSUME Init PROVE IInv
  OBVIOUS
<1>1. TypeOK
  <2>1. <<>> \in Seq(Logins) /\ <<>> \in Seq(Item) /\ <<>> \in Seq(Note)
    OBVIOUS
  <2>2. TableType
    BY ConstantsAssumption DEF Init, TableType
  <2>3. ParentType
    <3>1. 0 \in 0..(MaxClients + 1)
      BY ConstantsAssumption
    <3>2. NoNote \in Note \cup {NoNote}
      OBVIOUS
    <3> QED
      BY <3>1, <3>2 DEF Init, ParentType, MainPc, HandlerPc
  <2>4. ChildrenType
    BY <2>1, ConstantsAssumption DEF Init, ChildrenType, ChildPc
  <2>5. ChannelType
    BY <2>1 DEF Init, ChannelType
  <2> QED
    BY <2>2, <2>3, <2>4, <2>5 DEF TypeOK
<1>2. LockDiscipline
  BY ConstantsAssumption DEF Init, LockDiscipline, MainHolds
<1>3. Used = {}
  BY DEF Init, Used
<1>4. TableFilled /\ LoopSound /\ OutboxSound /\ PidsGiven /\ NewHasChild
    /\ AwayHasNone
  BY <1>3 DEF Init, TableFilled, LoopSound, OutboxSound, PidsGiven, NewHasChild,
     AwayHasNone
<1>5. TableConns = {}
  BY <1>3 DEF TableConns
<1>6. TableInv
  BY <1>3, <1>5, ConstantsAssumption DEF Init, TableInv, EntryPids, PidsUnique,
     Unreaped, Accepted, DescriptorsAccounted, LiveChildHasEntry, Alive, Gone
<1> QED
  BY <1>1, <1>2, <1>4, <1>6 DEF IInv, TypeInv

\* Every step preserves it.
LEMMA NextInv == IInv /\ [Next]_vars => IInv'
<1>1. TypeInv /\ [Next]_vars => TypeInv'
  BY NextTable, NextParent, NextChildren, NextChannel, NextLock, NextFilled,
     NextLoop, NextOutbox, NextPids, NextNew, NextAway DEF TypeInv, TypeOK
<1>2. IInv /\ [Next]_vars => TableInv'
  BY NextEntryPids, NextPidsUnique, NextAccepted, NextDescriptors, NextLive
     DEF TableInv
<1> QED
  BY <1>1, <1>2 DEF IInv

\* The strengthened invariant holds in every state of every behavior.
LEMMA Invariance == Spec => []IInv
  BY InitInv, NextInv, PTL DEF Spec

(***************************************************************************)
(* The variables have their types, in every behavior of the server; in     *)
(* particular what dispatch_pipe writes to is a connection.                *)
(***************************************************************************)
THEOREM TypeCorrect == Spec => []TypeOK
<1>1. IInv => TypeOK
  BY DEF IInv, TypeInv
<1> QED
  BY <1>1, Invariance, PTL

(***************************************************************************)
(* The mutex of the shared table excludes, for any number of children: the *)
(* main loop, its signal handler and the children are in the table one at  *)
(* a time, and nobody leaves it with the mutex still held.                 *)
(***************************************************************************)
THEOREM MutualExclusion == Spec => []LockDiscipline
<1>1. IInv => LockDiscipline
  BY DEF IInv, TypeInv
<1> QED
  BY <1>1, Invariance, PTL

(***************************************************************************)
(* However connections come and go, main and its signal handler leak no    *)
(* descriptor and close none twice, a full table aside.                    *)
(***************************************************************************)
THEOREM DescriptorsNeverLost == Spec => []DescriptorsAccounted
<1>1. IInv => DescriptorsAccounted
  BY DEF IInv, TableInv
<1> QED
  BY <1>1, Invariance, PTL

(***************************************************************************)
(* notify_client_remove never takes the entry of a running child, although *)
(* the kernel reuses pids and entries of dead children can stay behind.    *)
(***************************************************************************)
THEOREM ChildrenStayListed == Spec => []LiveChildHasEntry
<1>1. IInv => LiveChildHasEntry
  BY DEF IInv, TableInv
<1> QED
  BY <1>1, Invariance, PTL
=============================================================================
