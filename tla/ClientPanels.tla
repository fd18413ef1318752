---------------------------- MODULE ClientPanels ----------------------------
(***************************************************************************)
(* The panels of the client and its lists of chats, users and members      *)
(* (client/logic/input.c and commands.c, client/ui/ui.c and state.c).  The *)
(* main thread handles one key after another.  A command runs in a thread  *)
(* of its own, which may replace the chat list and the selection while the *)
(* main thread, which takes no lock to read them, is in the middle of a    *)
(* key.  The arrays keep their old names beyond the end of a shorter list. *)
(*                                                                         *)
(* An answer is the server's to the request as long as no two threads of   *)
(* the client ever waited at once; after that it may be another's          *)
(* (ClientApi), an error or empty; which names a list has does not matter. *)
(***************************************************************************)
EXTENDS Naturals, Sequences, SequencesExt

CONSTANTS
  ChatNames, Logins,
  Registered,   \* the users, in the order of the server's file
  Me,           \* this client's user
  MemberLists,  \* members a chat can have
  MaxItems,     \* MAX_CHATS, MAX_USERS and MAX_MEMBERS
  None, Torn    \* no name, and half one name and half another

ASSUME PanelsAssumption ==
  /\ ChatNames \cap Logins = {} /\ Me \in Logins /\ MaxItems \in Nat \ {0}
  /\ Registered \in Seq(Logins) /\ MemberLists \subseteq Seq(Logins)
  /\ {None, Torn} \cap (ChatNames \cup Logins) = {}

Modes == {"chats", "users", "members"}
AnyName == ChatNames \cup Logins
\* the commands that run in a thread; "other" changes no list
Commands == [op : {"create", "delete"}, name : ChatNames] \cup [op : {"leave", "other"}]

VARIABLES
  active, focus,   \* g_active, g_focus
  mode, selected,  \* g_list_mode, g_list_selected
  items, count,    \* the arrays of names, and how many of them count
  open,            \* the chat or user in g_current_chat
  main,            \* what the main thread does
  worker,          \* what the thread of a command does
  mine,            \* the chats of this user, as the server has them
  mixed,           \* whether two threads ever waited at once
  raced            \* whether a list was replaced while a key moved the selection

lists == <<items, count>>
panels == <<active, focus>>
vars == <<panels, mode, selected, lists, open, main, worker, mine, mixed, raced>>

AtKeys == [at |-> "keys"]
Listing(m, then) == [at |-> "list", mode |-> m, then |-> then]
NoWorker == [at |-> "none"]

\* ui_run loads the chats and then the users before the first key
Init ==
  /\ active = "none" /\ focus = "chat" /\ mode = "chats" /\ selected = 0
  /\ items = [m \in Modes |-> [i \in 1..MaxItems |-> None]] /\ count = [m \in Modes |-> 0]
  /\ open = None /\ main = Listing("chats", "users") /\ worker = NoWorker
  /\ mine \in {<<n>> : n \in ChatNames} \cup {<<>>} /\ mixed = FALSE /\ raced = FALSE
-----------------------------------------------------------------------------
(* Answers, and what becomes of them. *)

WorkerWaits == worker.at \in {"call", "reload"}
\* a list without one name, the others in their order
Without(names, n) ==
  LET rest[i \in 0..Len(names)] ==
        IF i = 0 THEN <<>> ELSE IF names[i] = n THEN rest[i - 1] ELSE Append(rest[i - 1], names[i])
  IN rest[Len(names)]

\* api_get_chat_list and its like keep the first names, but not one's own
Kept(m, names) ==
  LET some == IF m = "users" THEN Without(names, Me) ELSE names
  IN SubSeq(some, 1, IF Len(some) < MaxItems THEN Len(some) ELSE MaxItems)

Own(m) == CASE m = "chats"   -> {mine}
            [] m = "users"   -> {Registered}
            [] m = "members" -> MemberLists
\* what came for another thread counts as an empty list, unless it is a list too
Answers(m) == Own(m) \cup IF mixed THEN {<<>>} ELSE {}

Copied(array, names) == [i \in 1..MaxItems |-> IF i <= Len(names) THEN names[i] ELSE array[i]]
\* ui_set_chat_list, ui_set_user_list, ui_set_member_list
SetList(m, names) ==
  /\ items' = [items EXCEPT ![m] = Copied(@, names)] /\ count' = [count EXCEPT ![m] = Len(names)]
  /\ IF m = "members" THEN UNCHANGED <<selected, raced>> ELSE selected' = 0 /\ raced' = FALSE

\* load_and_set_chat_list, load_and_set_user_list, load_and_set_member_list
Listed ==
  /\ main.at = "list"
  /\ main' = IF main.then = "users" THEN Listing("users", "keys") ELSE AtKeys
  /\ \/ \E names \in Answers(main.mode) : SetList(main.mode, Kept(main.mode, names))
     \/ mixed /\ UNCHANGED <<lists, selected, raced>>
  /\ UNCHANGED <<panels, mode, open, worker, mine, mixed>>
-----------------------------------------------------------------------------
(* Keys.  While a thread writes the chat list, who reads it without a lock  *)
(* sees the old or the new of everything, and torn names.                  *)

Writing(m) == m = "chats" /\ worker.at = "write"
Counts(m) == {count[m]} \cup IF Writing(m) THEN {Len(worker.names)} ELSE {}
NamesAt(m, i) ==
  {items[m][i]} \cup IF Writing(m) /\ i <= Len(worker.names) THEN {worker.names[i], Torn} ELSE {}
ListNow(m) == {items[m][i] : i \in 1..count[m]}

Key(panel) == main.at = "keys" /\ active = panel

\* handle_key_nav
MoveFocus ==
  /\ Key("none") /\ focus' \in {"chat", "list"} \ {focus}
  /\ UNCHANGED <<active, mode, selected, lists, open, main, worker, mine, mixed, raced>>
Activate ==
  /\ Key("none") /\ active' \in {focus, "chat"}
  /\ UNCHANGED <<focus, mode, selected, lists, open, main, worker, mine, mixed, raced>>
Escape ==
  /\ main.at = "keys" /\ active # "none" /\ active' = "none"
  /\ UNCHANGED <<focus, mode, selected, lists, open, main, worker, mine, mixed, raced>>
\* the letter q ends the loop, in whichever panel it is typed
Quit ==
  /\ main.at = "keys" /\ main' = [at |-> "quit"]
  /\ UNCHANGED <<panels, mode, selected, lists, open, worker, mine, mixed, raced>>

\* mutant: down from the last item
MayMovePastEnd(n) == selected < n
MayMoveDown(n) == selected + 1 < n

\* KEY_UP and KEY_DOWN: where the selection goes is decided, and then set
Move ==
  /\ Key("list")
  /\ \E to \in {selected + 1, selected - 1} :
       /\ to > selected => \E n \in Counts(mode) : MayMoveDown(n)
       /\ to < selected => selected > 0
       /\ main' = [at |-> "move", to |-> to]
  /\ raced' = (raced \/ Writing(mode))
  /\ UNCHANGED <<panels, mode, selected, lists, open, worker, mine, mixed>>
Moved ==
  /\ main.at = "move" /\ selected' = main.to /\ main' = AtKeys
  /\ UNCHANGED <<panels, mode, lists, open, worker, mine, mixed, raced>>

\* KEY_LEFT and KEY_RIGHT: the other mode's list is asked for; there are no
\* members without an open chat
Switch(m) ==
  /\ Key("list") /\ m # mode /\ mode' = m
  /\ IF m = "members" /\ open \notin ChatNames
     THEN /\ items' = items /\ count' = [count EXCEPT ![m] = 0]
          /\ UNCHANGED <<main, mixed>>
     ELSE /\ main' = Listing(m, "keys") /\ mixed' = (mixed \/ WorkerWaits)
          /\ UNCHANGED lists
  /\ selected' = 0 /\ raced' = FALSE
  /\ UNCHANGED <<panels, open, worker, mine>>

\* KEY_ENTER: open_selected_item reads the selection
Enter ==
  /\ Key("list") /\ mode # "members" /\ main' = [at |-> "item", idx |-> selected]
  /\ UNCHANGED <<panels, mode, selected, lists, open, worker, mine, mixed, raced>>

\* mutant: the item behind the last one
UpToCount(idx, n) == idx <= n
InList(idx, n) == idx < n

\* ui_get_list_item gives a pointer into the array, or nothing
Item ==
  /\ main.at = "item"
  /\ \E n \in Counts(mode) :
       main' = IF InList(main.idx, n) /\ main.idx < MaxItems
               THEN [at |-> "name", idx |-> main.idx, listed |-> ListNow(mode), sure |-> ~Writing(mode)]
               ELSE AtKeys
  /\ UNCHANGED <<panels, mode, selected, lists, open, worker, mine, mixed, raced>>

\* the name is copied into the route; there is no dialog with oneself
MakeRoute ==
  /\ main.at = "name"
  /\ \E n \in NamesAt(mode, main.idx + 1) :
       IF n = Me /\ mode = "users" THEN main' = AtKeys /\ UNCHANGED <<panels, mixed>>
       ELSE /\ main' = [at |-> "load", name |-> n, listed |-> main.listed,
                        sure |-> main.sure /\ ~Writing(mode)]
            /\ active' = "chat" /\ focus' = "chat" /\ mixed' = (mixed \/ WorkerWaits)
  /\ UNCHANGED <<mode, selected, lists, open, worker, mine, raced>>

\* load_and_set_chat_messages
Opened ==
  /\ main.at = "load" /\ main' = AtKeys /\ open' \in {open, main.name}
  /\ UNCHANGED <<panels, mode, selected, lists, worker, mine, mixed, raced>>
-----------------------------------------------------------------------------
(* Commands. *)

\* Enter in the chat panel, handle_command: /delete closes the chat it names
\* if that is open; /leave closes the chat and asks for the list at once
Submit(c) ==
  /\ Key("chat") /\ worker = NoWorker
  /\ c.op \in {"leave", "other"} => open # None
  /\ c.op = "leave" => open \in ChatNames
  /\ worker' = [at |-> "call", cmd |-> IF c.op = "leave" THEN [op |-> "leave", name |-> open] ELSE c]
  /\ open' = IF c.op = "leave" \/ (c.op = "delete" /\ c.name = open) THEN None ELSE open
  /\ IF c.op = "leave" THEN main' = Listing("chats", "keys") /\ mixed' = TRUE
                       ELSE UNCHANGED <<main, mixed>>
  /\ UNCHANGED <<panels, mode, selected, lists, mine, raced>>

\* mutant: the thread ends without asking for the list
NeverReloads(op) == FALSE
Reloads(op) == op \in {"create", "delete"}

\* what the server does with a command it accepts
Done(c) ==
  mine' = CASE c.op = "create" -> Append(mine, c.name)
            [] c.op \in {"delete", "leave"} -> Without(mine, c.name)
            [] OTHER -> mine

\* thread_create_chat and its like: the answer to the command
Answered ==
  /\ worker.at = "call"
  /\ \E ok, told \in BOOLEAN :
       /\ mixed \/ told = ok
       /\ ok /\ worker.cmd.op = "create" => worker.cmd.name \notin ToSet(mine)
       /\ IF ok THEN Done(worker.cmd) ELSE UNCHANGED mine
       /\ worker' = IF told /\ Reloads(worker.cmd.op) THEN [at |-> "reload"] ELSE NoWorker
       /\ mixed' = (mixed \/ (worker'.at = "reload" /\ main.at \in {"list", "load"}))
  /\ UNCHANGED <<panels, mode, selected, lists, open, main, raced>>

\* reload_chat_list: the answer arrives, and is written to the list
Reloaded ==
  /\ worker.at = "reload"
  /\ \/ \E names \in Answers("chats") : worker' = [at |-> "write", names |-> Kept("chats", names)]
     \/ mixed /\ worker' = NoWorker
  /\ UNCHANGED <<panels, mode, selected, lists, open, main, mine, mixed, raced>>

Written ==
  /\ worker.at = "write" /\ worker' = NoWorker
  /\ items' = [items EXCEPT !["chats"] = Copied(@, worker.names)]
  /\ count' = [count EXCEPT !["chats"] = Len(worker.names)]
  /\ selected' = 0 /\ raced' = (main.at = "move")
  /\ main' = IF main.at = "name" /\ mode = "chats"
             THEN [main EXCEPT !.listed = @ \cup ToSet(worker.names)] ELSE main
  /\ UNCHANGED <<panels, mode, open, mine, mixed>>

Next ==
  \/ Listed \/ MoveFocus \/ Activate \/ Escape \/ Quit \/ Move \/ Moved \/ Enter \/ Item
  \/ MakeRoute \/ Opened \/ Answered \/ Reloaded \/ Written
  \/ (\E m \in Modes : Switch(m)) \/ (\E c \in Commands : Submit(c))

Spec == Init /\ [][Next]_vars
-----------------------------------------------------------------------------
(* Lists and selection. *)

\* The item that opens was in the list when the key was handled, or in one
\* that replaced it between then and the making of the route, unless the list
\* was just being written: never a name that a longer list left in the array.
OpensWhatWasListed == main.at = "load" /\ main.sure => main.name \in main.listed

\* The selection is an item of the list, or the list is empty, unless a thread
\* replaced the list while a key moved the selection.
SelectionInList == ~raced => selected < count[mode] \/ count[mode] = 0

\* As long as no two threads waited at once, the chat list is the server's
\* when no thread of a command is left: each creation and deletion it was told
\* of has arrived, whatever the user did meanwhile.
ListUpToDate ==
  ~mixed /\ worker = NoWorker /\ main.at # "list" =>
    [i \in 1..count["chats"] |-> items["chats"][i]] = Kept("chats", mine)
=============================================================================
