---------------------------- MODULE NotifyServer ----------------------------
(***************************************************************************)
(* The server's process structure and its notification path.               *)
(*                                                                         *)
(* One parent process accepts connections and forks one child per          *)
(* connection (server/main.c).  A table in shared memory, protected by a   *)
(* process-shared mutex, tells the parent which login is behind which      *)
(* connection (server/notify/shared.h).  A child that handles a request    *)
(* writes notifications to its pipe; the parent polls the pipes, looks up  *)
(* the addressee in the table and writes the notification to the           *)
(* addressee's socket (server/notify/notify_dispatcher.c).  The parent     *)
(* learns of a child's exit through a SIGCHLD handler that runs on top of  *)
(* its main loop and takes the same mutex.                                 *)
(*                                                                         *)
(* Identities.  A connection c of Conns stands for the accepted socket,    *)
(* the child that serves it, the parent's dup of the socket and the pipe   *)
(* between the two.  The parent opens descriptors only in its main loop    *)
(* and closes them only together with the table entry that names them, so  *)
(* a descriptor number names one connection for as long as anybody can     *)
(* use it, and client_fd and pipe_read_fd are both modelled by c.          *)
(***************************************************************************)
EXTENDS Naturals, Sequences

CONSTANTS
  Conns,        \* client connections, each accepted at most once
  Pids,         \* process ids the kernel may give to a child
  Logins,       \* logins a valid token can carry
  MaxClients,   \* MAX_CLIENTS, the size of the shared table
  TargetLists,  \* the addressees one request may notify, in order
  MaxRequests,  \* bound on the requests of one connection
  PipeCapacity, \* number of write()s a pipe holds before the writer blocks
  Leavers,      \* connections whose client may close the socket
  Faults,       \* system calls that may fail: a subset of {"accept", "fork"}
  NoPid, NoLogin, NoConn  \* getpid never returns NoPid; NoLogin is ""

(***************************************************************************)
(* Sizes are abstracted: a header and a body are one write() and one       *)
(* read() each, which the kernel does in one piece for a notification that *)
(* fits both the reader's limit (MSG_BUFFER_SIZE) and the free room of the *)
(* pipe.  PipeCapacity counts such writes.                                 *)
(***************************************************************************)
Note == [from : Conns, n : Nat, to : Logins]   \* n is a history number
NoNote == [from |-> NoConn, n |-> 0, to |-> NoLogin]
Item == [part : {"header", "body"}, note : Note]
Entry == [pid : Pids, login : Logins \cup {NoLogin}, conn : Conns]
NoEntry == [pid |-> NoPid, login |-> NoLogin, conn |-> NoConn]
Slots == 1..MaxClients

ASSUME ConstantsAssumption ==
  /\ MaxClients \in Nat \ {0}
  /\ MaxRequests \in Nat
  /\ PipeCapacity \in Nat \ {0}
  /\ TargetLists \subseteq Seq(Logins)
  /\ Leavers \subseteq Conns
  /\ Faults \subseteq {"accept", "fork"}
  /\ NoPid \notin Pids /\ NoLogin \notin Logins /\ NoConn \notin Conns
  /\ {"free", "main", "handler"} \cap Conns = {}

VARIABLES
  lock,      \* who holds g_shared->lock: "free", "main", "handler" or a child
  entries,   \* g_shared->entries; slots past count hold NoEntry
  count,     \* g_shared->count
  main,      \* where the parent's main loop is
  rfds,      \* the fd_set of notify_dispatch
  idx,       \* loop index of notify_dispatch
  hand,      \* the notification dispatch_pipe is working on
  dest,      \* the connection find_client_fd returned for it
  newconn,   \* the connection accepted and forked but not yet in the table
  handler,   \* where the SIGCHLD handler is; "idle" when it is not running
  hpid,      \* the pid waitpid returned to the handler
  sigchld,   \* SIGCHLD is pending in the parent
  child,     \* where each connection's child is
  pid,       \* its process id, or the one it had
  login,     \* handle_client's login
  outbox,    \* addressees the current request still has to notify
  requests,  \* requests read so far, bounded by MaxRequests
  sent,      \* notifications written so far: numbers them (history)
  pipe,      \* what the child wrote to its pipe and the parent did not read
  peer,      \* the client's end of the socket
  fds,       \* connections whose descriptors the parent holds open
  refused,   \* connections notify_client_add found no slot for (history)
  spent,     \* pids handed out so far
  authed,    \* logins each connection presented a valid token for (history)
  inbox      \* notifications written to each client's socket (history)

shared   == <<lock, entries, count>>
loop     == <<rfds, idx, hand, dest>>
sighand  == <<handler, hpid, sigchld>>
children == <<child, pid, login, outbox, requests, sent>>
ghosts   == <<refused, spent, authed>>
vars == <<lock, entries, count, main, rfds, idx, hand, dest, newconn,
          handler, hpid, sigchld, child, pid, login, outbox, requests, sent,
          pipe, peer, fds, refused, spent, authed, inbox>>

MainPc == {"dispatch", "build", "select", "relock", "deliver", "readbody",
           "send", "wait", "addlock", "add", "dead"}
MainHolds == {"build", "deliver", "readbody", "send", "add"}
HandlerPc == {"idle", "reap", "lock", "remove"}
ChildPc == {"none", "read", "lock", "register", "handle", "header", "body",
            "respond", "zombie", "gone"}
Gone == {"none", "zombie", "gone"}      \* no child process is running
Alive(c) == child[c] \notin Gone
Used == 1..count
TableConns == {entries[i].conn : i \in Used}

Init ==
  /\ lock = "free" /\ count = 0
  /\ entries = [i \in Slots |-> NoEntry]
  /\ main = "dispatch" /\ rfds = {} /\ idx = 0
  /\ hand = NoNote /\ dest = NoConn /\ newconn = NoConn
  /\ handler = "idle" /\ hpid = NoPid /\ sigchld = FALSE
  /\ child = [c \in Conns |-> "none"]
  /\ pid = [c \in Conns |-> NoPid]
  /\ login = [c \in Conns |-> NoLogin]
  /\ outbox = [c \in Conns |-> <<>>]
  /\ requests = [c \in Conns |-> 0]
  /\ sent = [c \in Conns |-> 0]
  /\ pipe = [c \in Conns |-> <<>>]
  /\ peer = [c \in Conns |-> "away"]
  /\ fds = {} /\ refused = {} /\ spent = {}
  /\ authed = [c \in Conns |-> {}]
  /\ inbox = [c \in Conns |-> <<>>]

-----------------------------------------------------------------------------
(* The parent: notify_dispatch.  The handler runs on top of the main loop, *)
(* which takes no step until it has returned.                              *)

Running(pc) == main = pc /\ handler = "idle"

\* mutant: does not wait for the mutex
AcquireUnguarded(who) == lock' = who
\* pthread_mutex_lock and pthread_mutex_unlock
Acquire(who) == lock = "free" /\ lock' = who
\* mutant: the mutex stays locked
ReleaseForgotten == UNCHANGED lock
Release == lock' = "free"

\* the parent's exit closes its descriptors; a mutex it held stays locked
Die == main' = "dead" /\ fds' = {}

DispatchLock ==
  /\ Running("dispatch") /\ Acquire("main") /\ main' = "build"
  /\ UNCHANGED <<entries, count, loop, newconn, sighand, children, pipe, peer,
                 fds, ghosts, inbox>>

\* mutant: select is told a bound that leaves out the newest pipe
PipeSetShort == {entries[i].conn : i \in 1..(count - 1)}
PipeSet == TableConns

BuildFdSet ==
  /\ Running("build") /\ Release
  /\ IF count = 0 THEN main' = "wait" /\ UNCHANGED rfds
                  ELSE main' = "select" /\ rfds' = PipeSet
  /\ UNCHANGED <<entries, count, idx, hand, dest, newconn, sighand, children,
                 pipe, peer, fds, ghosts, inbox>>

\* select reports a pipe with data, and one at end of file
Readable(c) == pipe[c] # <<>> \/ ~Alive(c)

\* a descriptor that a handler closed since fails the whole call (EBADF)
SelectPipes ==
  /\ Running("select")
  /\ LET ready == {c \in rfds : Readable(c)}
     IN IF rfds \subseteq fds /\ ready # {}
        THEN main' = "relock" /\ rfds' = ready
        ELSE main' = "wait" /\ rfds' = {}
  /\ UNCHANGED <<shared, idx, hand, dest, newconn, sighand, children, pipe,
                 peer, fds, ghosts, inbox>>

DeliverLock ==
  /\ Running("relock") /\ Acquire("main") /\ main' = "deliver" /\ idx' = 1
  /\ UNCHANGED <<entries, count, rfds, hand, dest, newconn, sighand, children,
                 pipe, peer, fds, ghosts, inbox>>

DeliverEnd ==
  /\ Running("deliver") /\ idx > count
  /\ Release /\ main' = "wait" /\ idx' = 0 /\ rfds' = {}
  /\ UNCHANGED <<entries, count, hand, dest, newconn, sighand, children, pipe,
                 peer, fds, ghosts, inbox>>

\* the i-th entry's pipe was not reported, or reads as end of file
DeliverSkip ==
  /\ Running("deliver") /\ idx <= count
  /\ LET c == entries[idx].conn
     IN c \notin rfds \/ (pipe[c] = <<>> /\ ~Alive(c))
  /\ idx' = idx + 1
  /\ UNCHANGED <<shared, main, rfds, hand, dest, newconn, sighand, children,
                 pipe, peer, fds, ghosts, inbox>>

\* mutant: what is read stays in the pipe
PeekPipe(c) == pipe[c] # <<>> /\ UNCHANGED pipe
TakeFromPipe(c) == pipe[c] # <<>> /\ pipe' = [pipe EXCEPT ![c] = Tail(@)]

ReadHeader ==
  /\ Running("deliver") /\ idx <= count
  /\ LET c == entries[idx].conn
     IN c \in rfds /\ TakeFromPipe(c) /\ hand' = Head(pipe[c]).note
  /\ main' = "readbody"
  /\ UNCHANGED <<shared, rfds, idx, dest, newconn, sighand, children, peer, fds,
                 ghosts, inbox>>

\* dispatch_pipe has returned: on to the next entry
NextEntry == main' = "deliver" /\ idx' = idx + 1 /\ hand' = NoNote /\ dest' = NoConn

\* mutant: the login is not compared
FirstWithAnyLogin(i, l) == i = 1 /\ i \in Used /\ entries[i].login # NoLogin

\* find_client_fd: the first entry that holds the login
FirstWithLogin(i, l) ==
  /\ i \in Used /\ entries[i].login = l
  /\ \A j \in Used : j < i => entries[j].login # l

Found == /\ \E i \in Used : FirstWithLogin(i, hand.to) /\ dest' = entries[i].conn
         /\ main' = "send" /\ UNCHANGED <<idx, hand>>
Absent == \A i \in Used : entries[i].login # hand.to
\* mutant: the result -1 goes to write_message
LookupUnchecked == Found \/ (Absent /\ main' = "send" /\ UNCHANGED <<idx, hand, dest>>)
Lookup == Found \/ (Absent /\ NextEntry)

\* blocks until the child has written the body or has exited without it
ReadBody ==
  /\ Running("readbody")
  /\ LET c == entries[idx].conn
     IN \/ TakeFromPipe(c) /\ Lookup
        \/ pipe[c] = <<>> /\ ~Alive(c) /\ NextEntry /\ UNCHANGED pipe
  /\ UNCHANGED <<shared, rfds, newconn, sighand, children, peer, fds, ghosts,
                 inbox>>

(***************************************************************************)
(* write_message to a client, its data and its newline.  Once the client   *)
(* closed its end the data may be swallowed or refused, and the reset it   *)
(* provokes makes a later write, the newline's already, raise SIGPIPE:     *)
(* nobody ignores it, so it kills the writer.                              *)
(***************************************************************************)
\* mutant: every connection of the addressee receives
AllReceive == [c \in Conns |->
  IF peer[c] = "open" /\ \E i \in Used : entries[i].conn = c /\ entries[i].login = hand.to
  THEN Append(inbox[c], hand) ELSE inbox[c]]
DestReceives == IF peer[dest] = "open" THEN [inbox EXCEPT ![dest] = Append(@, hand)]
                                       ELSE inbox

Send ==
  /\ Running("send")
  /\ \/ inbox' = DestReceives /\ NextEntry /\ UNCHANGED fds
     \/ peer[dest] = "closed" /\ Die /\ UNCHANGED <<idx, hand, dest, inbox>>
  /\ UNCHANGED <<shared, rfds, newconn, sighand, children, pipe, peer, ghosts>>
-----------------------------------------------------------------------------
(* The parent: accepting a connection.                                     *)

\* wait_connections timed out, or a signal interrupted it
NoConnection ==
  /\ Running("wait") /\ main' = "dispatch"
  /\ UNCHANGED <<shared, loop, newconn, sighand, children, pipe, peer, fds,
                 ghosts, inbox>>

\* the kernel gives a pid out again once the process was reaped, and only
\* after it went through all the others
Free(p) == /\ \A c \in Conns : pid[c] = p => child[c] = "gone"
           /\ p \notin spent \/ spent = Pids

\* pipe and fork succeed; the parent keeps its dup of the socket and the
\* pipe's read end
Accept(c, p) ==
  /\ Running("wait") /\ peer[c] = "away" /\ Free(p)
  /\ peer' = [peer EXCEPT ![c] = "open"]
  /\ child' = [child EXCEPT ![c] = "read"]
  /\ pid' = [pid EXCEPT ![c] = p] /\ spent' = spent \cup {p}
  /\ fds' = fds \cup {c} /\ newconn' = c /\ main' = "addlock"
  /\ UNCHANGED <<shared, loop, sighand, login, outbox, requests, sent, pipe,
                 refused, authed, inbox>>

\* pipe or fork failed: everything opened for the connection is closed
AcceptFails(c) ==
  /\ Running("wait") /\ "fork" \in Faults /\ peer[c] = "away"
  /\ peer' = [peer EXCEPT ![c] = "closed"] /\ main' = "dispatch"
  /\ UNCHANGED <<shared, loop, newconn, sighand, children, pipe, fds, ghosts,
                 inbox>>

\* a failing accept ends the server
AcceptExits ==
  /\ Running("wait") /\ "accept" \in Faults /\ Die
  /\ UNCHANGED <<shared, loop, newconn, sighand, children, pipe, peer, ghosts,
                 inbox>>

AddLock ==
  /\ Running("addlock") /\ Acquire("main") /\ main' = "add"
  /\ UNCHANGED <<entries, count, loop, newconn, sighand, children, pipe, peer,
                 fds, ghosts, inbox>>

\* notify_client_add: a full table drops the connection without a word and
\* leaves its descriptors open
AddClient ==
  /\ Running("add")
  /\ IF count < MaxClients
     THEN /\ count' = count + 1
          /\ entries' = [entries EXCEPT ![count + 1] =
               [pid |-> pid[newconn], login |-> NoLogin, conn |-> newconn]]
          /\ UNCHANGED refused
     ELSE refused' = refused \cup {newconn} /\ UNCHANGED <<entries, count>>
  /\ Release /\ newconn' = NoConn /\ main' = "dispatch"
  /\ UNCHANGED <<loop, sighand, children, pipe, peer, fds, spent, authed, inbox>>
-----------------------------------------------------------------------------
(* The parent's SIGCHLD handler, reap_children.  SIGCHLD is blocked while   *)
(* it runs; one that arrives then makes it run once more.                  *)

SigChld ==
  /\ sigchld /\ handler = "idle" /\ main # "dead"
  /\ handler' = "reap" /\ sigchld' = FALSE
  /\ UNCHANGED <<shared, main, loop, newconn, hpid, children, pipe, peer, fds,
                 ghosts, inbox>>

Reap(c) ==
  /\ handler = "reap" /\ child[c] = "zombie"
  /\ handler' = "lock" /\ hpid' = pid[c]
  /\ child' = [child EXCEPT ![c] = "gone"]
  /\ UNCHANGED <<shared, main, loop, newconn, sigchld, pid, login, outbox,
                 requests, sent, pipe, peer, fds, ghosts, inbox>>

ReapNone ==
  /\ handler = "reap" /\ \A c \in Conns : child[c] # "zombie"
  /\ handler' = "idle" /\ hpid' = NoPid
  /\ UNCHANGED <<shared, main, loop, newconn, sigchld, children, pipe, peer, fds,
                 ghosts, inbox>>

HandlerLock ==
  /\ handler = "lock" /\ Acquire("handler") /\ handler' = "remove"
  /\ UNCHANGED <<entries, count, main, loop, newconn, hpid, sigchld, children,
                 pipe, peer, fds, ghosts, inbox>>

\* mutant: the pid is not compared
FirstWithAnyPid(i, p) == i = 1 /\ i \in Used

FirstWithPid(i, p) ==
  /\ i \in Used /\ entries[i].pid = p
  /\ \A j \in Used : j < i => entries[j].pid # p

\* mutant: the last entry is not moved
WithoutLast(i) == [entries EXCEPT ![count] = NoEntry]

\* the last entry moves into the freed slot
WithoutSlot(i) == [entries EXCEPT ![i] = entries[count], ![count] = NoEntry]

\* mutant: the descriptors stay open
LeaveOpen(c) == UNCHANGED <<fds, pipe>>
\* what the pipe still held is lost with its read end
CloseFds(c) == fds' = fds \ {c} /\ pipe' = [pipe EXCEPT ![c] = <<>>]

\* notify_client_remove
Remove ==
  /\ handler = "remove"
  /\ \/ \E i \in Used : /\ FirstWithPid(i, hpid) /\ CloseFds(entries[i].conn)
                       /\ entries' = WithoutSlot(i) /\ count' = count - 1
     \/ /\ \A i \in Used : entries[i].pid # hpid
        /\ UNCHANGED <<entries, count, fds, pipe>>
  /\ Release /\ handler' = "reap" /\ hpid' = NoPid
  /\ UNCHANGED <<main, loop, newconn, sigchld, children, peer, ghosts, inbox>>
-----------------------------------------------------------------------------
(* A child: handle_client.                                                 *)

Goto(c, pc) == child' = [child EXCEPT ![c] = pc]

\* handle_client returned and the child exited, or a SIGPIPE killed it
Exit(c) == Goto(c, "zombie") /\ sigchld' = TRUE

\* a request, which the client may have sent before it closed
NextRequest(c) ==
  /\ child[c] = "read" /\ requests[c] < MaxRequests
  /\ requests' = [requests EXCEPT ![c] = @ + 1]

\* the text is no request: answered without touching login
BadRequest(c) ==
  /\ NextRequest(c) /\ Goto(c, "respond")
  /\ UNCHANGED <<shared, main, loop, newconn, sighand, pid, login, outbox, sent,
                 pipe, peer, fds, ghosts, inbox>>

\* no token, or one that does not validate: such a request notifies nobody
AnonymousRequest(c) ==
  /\ NextRequest(c) /\ Goto(c, "respond")
  /\ login' = [login EXCEPT ![c] = NoLogin]
  /\ UNCHANGED <<shared, main, loop, newconn, sighand, pid, outbox, sent, pipe,
                 peer, fds, ghosts, inbox>>

TokenRequest(c, l) ==
  /\ NextRequest(c) /\ Goto(c, "lock")
  /\ login' = [login EXCEPT ![c] = l]
  /\ authed' = [authed EXCEPT ![c] = @ \cup {l}]
  /\ UNCHANGED <<shared, main, loop, newconn, sighand, pid, outbox, sent, pipe,
                 peer, fds, refused, spent, inbox>>

RegisterLock(c) ==
  /\ child[c] = "lock" /\ Acquire(c) /\ Goto(c, "register")
  /\ UNCHANGED <<entries, count, main, loop, newconn, sighand, pid, login,
                 outbox, requests, sent, pipe, peer, fds, ghosts, inbox>>

\* notify_register: nothing happens when the parent did not add the entry yet
Register(c) ==
  /\ child[c] = "register"
  /\ \/ \E i \in Used : /\ FirstWithPid(i, pid[c])
                       /\ entries' = [entries EXCEPT ![i].login = login[c]]
     \/ (\A i \in Used : entries[i].pid # pid[c]) /\ UNCHANGED entries
  /\ Release /\ Goto(c, "handle")
  /\ UNCHANGED <<count, main, loop, newconn, sighand, pid, login, outbox,
                 requests, sent, pipe, peer, fds, ghosts, inbox>>

\* the request handler: whom it notifies follows from the stored data
Handle(c) ==
  /\ child[c] = "handle"
  /\ \E ts \in TargetLists :
       /\ outbox' = [outbox EXCEPT ![c] = ts]
       /\ Goto(c, IF ts = <<>> THEN "respond" ELSE "header")
  /\ UNCHANGED <<shared, main, loop, newconn, sighand, pid, login, requests,
                 sent, pipe, peer, fds, ghosts, inbox>>

NextNote(c) == [from |-> c, n |-> sent[c] + 1, to |-> Head(outbox[c])]

\* blocks while the pipe is full
WritePipe(c, part) ==
  /\ Len(pipe[c]) < PipeCapacity
  /\ pipe' = [pipe EXCEPT ![c] = Append(@, [part |-> part, note |-> NextNote(c)])]

WriteHeader(c) ==
  /\ child[c] = "header" /\ WritePipe(c, "header") /\ Goto(c, "body")
  /\ UNCHANGED <<shared, main, loop, newconn, sighand, pid, login, outbox,
                 requests, sent, peer, fds, ghosts, inbox>>

WriteBody(c) ==
  /\ child[c] = "body" /\ WritePipe(c, "body")
  /\ sent' = [sent EXCEPT ![c] = @ + 1]
  /\ outbox' = [outbox EXCEPT ![c] = Tail(@)]
  /\ Goto(c, IF Len(outbox[c]) = 1 THEN "respond" ELSE "header")
  /\ UNCHANGED <<shared, main, loop, newconn, sighand, pid, login, requests,
                 peer, fds, ghosts, inbox>>

\* the parent is gone, and the children forked since, which hold copies of
\* the read end, may be gone too
BrokenPipe(c) ==
  /\ child[c] \in {"header", "body"} /\ c \notin fds /\ Exit(c)
  /\ UNCHANGED <<shared, main, loop, newconn, handler, hpid, pid, login, outbox,
                 requests, sent, pipe, peer, fds, ghosts, inbox>>

\* send_response, under the same conditions as the parent's Send
Respond(c) ==
  /\ child[c] = "respond"
  /\ \/ Goto(c, "read") /\ UNCHANGED sigchld
     \/ peer[c] = "closed" /\ Exit(c)
  /\ UNCHANGED <<shared, main, loop, newconn, handler, hpid, pid, login, outbox,
                 requests, sent, pipe, peer, fds, ghosts, inbox>>

\* read_message failed: end of file, or a line longer than the buffer
ChildExit(c) ==
  /\ child[c] = "read" /\ (peer[c] = "closed" \/ c \in Leavers) /\ Exit(c)
  /\ UNCHANGED <<shared, main, loop, newconn, handler, hpid, pid, login, outbox,
                 requests, sent, pipe, peer, fds, ghosts, inbox>>

\* the client closes its socket, at any moment
ClientClose(c) ==
  /\ c \in Leavers /\ peer[c] = "open"
  /\ peer' = [peer EXCEPT ![c] = "closed"]
  /\ UNCHANGED <<shared, main, loop, newconn, sighand, children, pipe, fds,
                 ghosts, inbox>>
-----------------------------------------------------------------------------
Dispatch == \/ DispatchLock \/ BuildFdSet \/ SelectPipes \/ DeliverLock
            \/ DeliverEnd \/ DeliverSkip \/ ReadHeader \/ ReadBody \/ Send
AddNew == AddLock \/ AddClient
Listen == \/ NoConnection \/ AcceptExits
          \/ \E c \in Conns : AcceptFails(c) \/ \E p \in Pids : Accept(c, p)
Handler == SigChld \/ ReapNone \/ HandlerLock \/ Remove \/ \E c \in Conns : Reap(c)
Serve(c) == \/ RegisterLock(c) \/ Register(c) \/ Handle(c) \/ WriteHeader(c)
            \/ WriteBody(c) \/ BrokenPipe(c) \/ Respond(c)
Client(c) == \/ BadRequest(c) \/ AnonymousRequest(c) \/ ChildExit(c) \/ ClientClose(c)
             \/ \E l \in Logins : TokenRequest(c, l)

Next == Dispatch \/ AddNew \/ Listen \/ Handler \/ \E c \in Conns : Serve(c) \/ Client(c)

Spec == Init /\ [][Next]_vars

(***************************************************************************)
(* Every process that can run does run, and one that waits for the mutex   *)
(* gets it if it comes free again and again: the holders are short, and    *)
(* the parent sleeps outside of it in every round.  Nothing makes a client *)
(* connect, send or leave.                                                 *)
(***************************************************************************)
FairSpec == /\ Spec
            /\ SF_vars(Dispatch) /\ SF_vars(AddNew) /\ WF_vars(Listen)
            /\ SF_vars(Handler)
            /\ \A c \in Conns : SF_vars(Serve(c))
-----------------------------------------------------------------------------
(* The types of the variables; a notification is written to a connection   *)
(* that find_client_fd did return.                                         *)
TableType ==
  /\ lock \in {"free", "main", "handler"} \cup Conns
  /\ entries \in [Slots -> Entry \cup {NoEntry}]
  /\ count \in 0..MaxClients
ParentType ==
  /\ main \in MainPc /\ handler \in HandlerPc
  /\ rfds \subseteq Conns /\ fds \subseteq Conns /\ refused \subseteq Conns
  /\ idx \in 0..(MaxClients + 1)
  /\ hand \in Note \cup {NoNote}
  /\ dest \in IF main = "send" THEN Conns ELSE Conns \cup {NoConn}
  /\ newconn \in Conns \cup {NoConn}
  /\ hpid \in Pids \cup {NoPid} /\ spent \subseteq Pids /\ sigchld \in BOOLEAN
ChildrenType ==
  /\ child \in [Conns -> ChildPc]
  /\ pid \in [Conns -> Pids \cup {NoPid}]
  /\ login \in [Conns -> Logins \cup {NoLogin}]
  /\ outbox \in [Conns -> Seq(Logins)]
  /\ requests \in [Conns -> 0..MaxRequests]
  /\ sent \in [Conns -> Nat]
ChannelType ==
  /\ pipe \in [Conns -> Seq(Item)]
  /\ peer \in [Conns -> {"away", "open", "closed"}]
  /\ authed \in [Conns -> SUBSET Logins]
  /\ inbox \in [Conns -> Seq(Note)]
TypeOK == TableType /\ ParentType /\ ChildrenType /\ ChannelType

(***************************************************************************)
(* The mutex of the shared table excludes: the parent's main loop, its     *)
(* signal handler and the children are in their critical sections only     *)
(* while they hold it, and whoever holds it is in one (or is the parent,   *)
(* dead inside one).                                                       *)
(***************************************************************************)
LockDiscipline ==
  /\ main \in MainHolds => lock = "main"
  /\ lock = "main" => main \in MainHolds \cup {"dead"}
  /\ handler = "remove" <=> lock = "handler"
  /\ \A c \in Conns : child[c] = "register" <=> lock = c

(***************************************************************************)
(* The parent leaks no descriptor and loses none: it holds open exactly    *)
(* those the table names, those of the connection it is about to add, and  *)
(* those a full table refused; and no two entries name the same ones, so   *)
(* no descriptor is closed twice.                                          *)
(***************************************************************************)
DescriptorsAccounted ==
  /\ main # "dead" =>
       fds = TableConns \cup refused \cup ({newconn} \ {NoConn})
  /\ \A i, j \in Used : entries[i].conn = entries[j].conn => i = j
  /\ refused \cap TableConns = {} /\ newconn \notin TableConns \cup refused

(***************************************************************************)
(* As long as a child runs, the parent can hear it: its connection is in   *)
(* the table under its own pid, unless it is just being added or the table *)
(* was full.  No removal, of whatever child and at whatever moment, takes  *)
(* the entry of a running one.                                             *)
(***************************************************************************)
LiveChildHasEntry ==
  \A c \in Conns : Alive(c) /\ main # "dead" /\ c # newconn /\ c \notin refused =>
     \E i \in Used : entries[i].conn = c /\ entries[i].pid = pid[c]

(***************************************************************************)
(* A pipe never gets out of step: what dispatch_pipe takes for a header is *)
(* one, and what it then takes for the body belongs to that header, even   *)
(* when children exit between the two writes.                              *)
(***************************************************************************)
Framed(s) ==
  \A k \in 1..Len(s) : s[k].part = IF k % 2 = 1 THEN "header" ELSE "body"
Whole(s) == \A k \in 1..(Len(s) \div 2) : s[2 * k].note = s[2 * k - 1].note
\* whether the parent took a header off the pipe and not yet its body
Ahead(c) == IF main = "readbody" /\ entries[idx].conn = c THEN 1 ELSE 0
HeaderOf(c) ==   \* that header, put back
  IF Ahead(c) = 1 THEN <<[part |-> "header", note |-> hand]>> ELSE <<>>
PipeFramed ==
  \A c \in Conns : c \in fds =>
     LET s == HeaderOf(c) \o pipe[c] IN Framed(s) /\ Whole(s)
-----------------------------------------------------------------------------
(* The implementation of NotifyBus: a notification is posted when its body *)
(* is in the pipe, and pending until it is written or dropped.             *)

\* every second part of the framed pipe
Bodies(c) == [k \in 1..((Len(pipe[c]) + Ahead(c)) \div 2) |->
                pipe[c][2 * k - Ahead(c)].note]
Pending == [c \in Conns |->
  (IF main = "send" /\ hand.from = c THEN <<hand>> ELSE <<>>) \o Bodies(c)]

Bus == INSTANCE NotifyBus WITH pending <- Pending, posted <- sent

(***************************************************************************)
(* The server implements the notification bus: in order per sender, at     *)
(* most once, and to nobody but connections that presented a token of the  *)
(* addressee.  It does as long as no child runs under a pid that another   *)
(* connection's entry still carries, certainly when the kernel gives no    *)
(* pid out twice.                                                          *)
(***************************************************************************)
ImplementsBus == Bus!Spec

\* The delivery promises of the bus, on the server's own state.
DeliveredInOrder == Bus!InOrder
DeliveredOnce == Bus!OneRecipient

(***************************************************************************)
(* "Deliver notifications from pipes that are ready"                       *)
(* (notify_dispatcher.c:130): a dispatch round that found ready pipes      *)
(* comes to its end, or the parent dies in it.                             *)
(***************************************************************************)
DispatchRoundEnds == main = "relock" ~> main \in {"wait", "dead"}

(***************************************************************************)
(* What a child wrote to its pipe is eventually read: "parent reads [0],   *)
(* child writes [1]" (main.c:136).                                         *)
(***************************************************************************)
PipesDrained == \A c \in Conns : pipe[c] # <<>> ~> pipe[c] = <<>>

(***************************************************************************)
(* A request that was read is eventually answered: the child is not left   *)
(* waiting for the mutex, nor for room in its pipe.                        *)
(***************************************************************************)
RequestsAnswered == \A c \in Conns : child[c] = "lock" ~> child[c] = "read"
=============================================================================
