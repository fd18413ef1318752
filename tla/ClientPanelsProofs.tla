------------------------- MODULE ClientPanelsProofs -------------------------
(***************************************************************************)
(* What the panels of the client keep, for any chats, users and members,   *)
(* any size of the arrays and any keys and commands.                       *)
(***************************************************************************)
EXTENDS ClientPanels, SequenceTheorems, WellFoundedInduction, TLAPS

-----------------------------------------------------------------------------
(* The operators. *)

\* What fails for some number fails for a first one.
LEMMA FirstNumber ==
  ASSUME NEW T \in SUBSET Nat, T # {}
  PROVE  \E i \in T : \A j \in T : ~(j < i)
<1>1. PICK i \in T : \A j \in T : ~(<<j, i>> \in OpToRel(<, Nat))
  BY NatLessThanWellFounded, WFMin
<1> QED
  BY <1>1 DEF OpToRel

\* A list without a name has items of the list.
LEMMA WithoutTyped ==
  ASSUME NEW S, NEW names \in Seq(S), NEW n
  PROVE  Without(names, n) \in Seq(S)
<1> DEFINE L == Len(names)
           Value(f, i) == IF i = 0 THEN <<>> ELSE IF names[i] = n THEN f[i - 1]
                          ELSE Append(f[i - 1], names[i])
           Good(k, f) == f = [i \in 0..k |-> Value(f, i)]
           Bad == {k \in 0..L : \A f : ~Good(k, f)}
           rest == CHOOSE f : Good(L, f)
<1>0. L \in Nat /\ \A i \in 1..L : names[i] \in S
  BY LenProperties, ElementOfSeq
<1> HIDE DEF L
<1>1. Bad = {}
  <2> SUFFICES ASSUME Bad # {} PROVE FALSE
    OBVIOUS
  <2>0. Bad \in SUBSET Nat /\ Bad \subseteq 0..L
    BY <1>0
  <2> HIDE DEF Bad
  <2>1. PICK k \in Bad : \A j \in Bad : ~(j < k)
    BY <2>0, FirstNumber
  <2> USE DEF Bad
  <2>2. CASE k = 0
    <3> DEFINE g == [i \in 0..0 |-> <<>>]
    <3>1. Good(0, g)
      OBVIOUS
    <3> QED
      BY <2>1, <2>2, <3>1
  <2>3. CASE k # 0
    <3>0. k \in 1..L /\ k - 1 \in 0..L /\ k - 1 < k
      BY <1>0, <2>0, <2>1, <2>3
    <3>1. k - 1 \notin Bad
      BY <2>1, <3>0
    <3>2. PICK f : Good(k - 1, f)
      BY <3>0, <3>1
    <3> DEFINE g == [i \in 0..k |-> Value(f, i)]
    <3>3. \A i \in 1..k : g[i - 1] = f[i - 1]
      <4> SUFFICES ASSUME NEW i \in 1..k PROVE g[i - 1] = f[i - 1]
        OBVIOUS
      <4>1. i - 1 \in 0..k /\ i - 1 \in 0..(k - 1)
        BY <3>0
      <4> QED
        BY <3>2, <4>1
    <3>4. \A i \in 0..k : i = 0 \/ i \in 1..k
      BY <3>0
    <3> HIDE DEF g
    <3>5. \A i \in 0..k : Value(g, i) = Value(f, i)
      BY <3>3, <3>4
    <3> USE DEF g
    <3>6. Good(k, g)
      BY <3>5
    <3> QED
      BY <2>1, <3>6
  <2> QED
    BY <2>2, <2>3
<1>2. Good(L, rest)
  <2>1. L \in 0..L
    BY <1>0
  <2>2. \E f : Good(L, f)
    BY <1>1, <2>1
  <2> QED
    BY <2>2
<1>3. Without(names, n) = rest[L]
  BY DEF Without, L
<1> HIDE DEF rest
<1> DEFINE Untyped == {i \in 0..L : rest[i] \notin Seq(S)}
<1>4. Untyped = {}
  <2> SUFFICES ASSUME Untyped # {} PROVE FALSE
    OBVIOUS
  <2>0. Untyped \in SUBSET Nat /\ Untyped \subseteq 0..L
    BY <1>0
  <2> HIDE DEF Untyped
  <2>1. PICK k \in Untyped : \A j \in Untyped : ~(j < k)
    BY <2>0, FirstNumber
  <2> USE DEF Untyped
  <2>2. rest[k] = Value(rest, k)
    BY <1>2, <2>0, <2>1
  <2>3. k # 0
    BY <2>1, <2>2, EmptySeq
  <2>4. k \in 1..L /\ k - 1 \in 0..L /\ k - 1 < k /\ k - 1 \notin Untyped
    BY <1>0, <2>1, <2>3
  <2>5. rest[k - 1] \in Seq(S) /\ names[k] \in S
    BY <1>0, <2>4
  <2>6. Append(rest[k - 1], names[k]) \in Seq(S)
    BY <2>5, AppendProperties
  <2> QED
    BY <2>1, <2>2, <2>3, <2>5, <2>6
<1> QED
  BY <1>0, <1>3, <1>4

\* The names that are kept fit into the array.
LEMMA KeptFits ==
  ASSUME NEW S, NEW names \in Seq(S), NEW m
  PROVE  Kept(m, names) \in Seq(S) /\ Len(Kept(m, names)) \in 0..MaxItems
<1> DEFINE some == IF m = "users" THEN Without(names, Me) ELSE names
           k == IF Len(some) < MaxItems THEN Len(some) ELSE MaxItems
<1>1. some \in Seq(S)
  BY WithoutTyped
<1>2. Len(some) \in Nat /\ \A i \in 1..Len(some) : some[i] \in S
  BY <1>1, LenProperties, ElementOfSeq
<1>3. Kept(m, names) = SubSeq(some, 1, k)
  BY DEF Kept
<1> HIDE DEF some
<1>4. k \in 0..MaxItems /\ k \in 0..Len(some) /\ k <= Len(some)
  BY <1>2, PanelsAssumption
<1> HIDE DEF k
<1>5. \A i \in 1..k : some[i] \in S
  BY <1>2, <1>4
<1>6. SubSeq(some, 1, k) = [i \in 1..k |-> some[i]]
  BY <1>1, <1>4, PanelsAssumption, SubSeqProperties
<1>7. [i \in 1..k |-> some[i]] \in Seq(S)
  BY <1>4, <1>5, PanelsAssumption, IsASeq
<1>8. Len([i \in 1..k |-> some[i]]) = k
  BY <1>4, <1>7, PanelsAssumption, LenProperties
<1> QED
  BY <1>3, <1>4, <1>6, <1>7, <1>8

\* Copied into an array they are its first names.
LEMMA CopiedFirst ==
  ASSUME NEW array, NEW names \in Seq(AnyName), Len(names) \in 0..MaxItems
  PROVE  /\ [i \in 1..Len(names) |-> Copied(array, names)[i]] = names
         /\ array \in [1..MaxItems -> AnyName \cup {None}] =>
              Copied(array, names) \in [1..MaxItems -> AnyName \cup {None}]
         /\ \A i \in 1..MaxItems : Copied(array, names)[i] \in ToSet(names) \cup {array[i]}
<1>1. Len(names) \in Nat /\ DOMAIN names = 1..Len(names)
      /\ names = [i \in 1..Len(names) |-> names[i]]
      /\ \A i \in 1..Len(names) : names[i] \in AnyName
  BY LenProperties, ElementOfSeq
<1>2. \A i \in 1..Len(names) : i \in 1..MaxItems /\ i <= Len(names)
  BY <1>1, PanelsAssumption
<1>3. \A i \in 1..MaxItems : i <= Len(names) => i \in 1..Len(names)
  BY <1>1, PanelsAssumption
<1>4. \A i \in 1..Len(names) : Copied(array, names)[i] = names[i]
  BY <1>2 DEF Copied
<1>5. \A i \in 1..Len(names) : names[i] \in ToSet(names)
  BY <1>1 DEF ToSet
<1>6. [i \in 1..Len(names) |-> Copied(array, names)[i]] = [i \in 1..Len(names) |-> names[i]]
  BY <1>4
<1>7. \A i \in 1..MaxItems : Copied(array, names)[i] \in ToSet(names) \cup {array[i]}
  BY <1>3, <1>5 DEF Copied
<1>8. ASSUME array \in [1..MaxItems -> AnyName \cup {None}]
      PROVE  Copied(array, names) \in [1..MaxItems -> AnyName \cup {None}]
  BY <1>1, <1>3, <1>8 DEF Copied
<1> QED
  BY <1>1, <1>6, <1>7, <1>8

-----------------------------------------------------------------------------
(* Types. *)

Names == AnyName \cup {None}

ListTypes == /\ items \in [Modes -> [1..MaxItems -> Names]] /\ count \in [Modes -> 0..MaxItems]
             /\ mode \in Modes /\ selected \in Nat
MainTypes == /\ main.at = "list" => main.mode \in Modes
             /\ main.at = "move" => main.to \in Nat
             /\ main.at = "item" => main.idx \in Nat
             /\ main.at = "name" => main \in [at : {"name"}, idx : 0..(MaxItems - 1),
                                              listed : SUBSET Names, sure : BOOLEAN]
WorkerTypes == /\ mine \in Seq(ChatNames)
               /\ worker.at = "write" => /\ worker.names \in Seq(AnyName)
                                         /\ Len(worker.names) \in 0..MaxItems
               /\ worker.at = "call" /\ worker.cmd.op = "create" => worker.cmd.name \in ChatNames
Types == ListTypes /\ MainTypes /\ WorkerTypes

\* What an answer lists are names, and as many as fit are kept.
LEMMA AnswersKept ==
  ASSUME WorkerTypes, NEW m \in Modes, NEW names \in Answers(m)
  PROVE  Kept(m, names) \in Seq(AnyName) /\ Len(Kept(m, names)) \in 0..MaxItems
<1>1. Seq(ChatNames) \subseteq Seq(AnyName) /\ Seq(Logins) \subseteq Seq(AnyName)
  <2>1. ASSUME NEW S, S \subseteq AnyName, NEW s \in Seq(S) PROVE s \in Seq(AnyName)
    <3>1. s \in [1..Len(s) -> S] /\ Len(s) \in Nat
      BY LenProperties
    <3> QED
      BY <2>1, <3>1, SeqDef
  <2> QED
    BY <2>1 DEF AnyName
<1>2. <<>> \in Seq(AnyName)
  BY EmptySeq
<1>3. names \in Own(m) \cup {<<>>}
  BY DEF Answers
<1>4. Own(m) \subseteq Seq(AnyName)
  BY <1>1, PanelsAssumption DEF Own, Modes, WorkerTypes
<1>5. names \in Seq(AnyName)
  BY <1>2, <1>3, <1>4
<1> QED
  BY <1>5, KeptFits

\* The initial state.
LEMMA InitTypes == Init => Types
<1> SUFFICES ASSUME Init PROVE Types
  OBVIOUS
<1>1. mine \in Seq(ChatNames)
  <2>1. \A n \in ChatNames : <<n>> \in Seq(ChatNames)
    OBVIOUS
  <2> QED
    BY <2>1, EmptySeq DEF Init
<1> QED
  BY <1>1, PanelsAssumption DEF Init, Types, ListTypes, MainTypes, WorkerTypes, Listing, NoWorker,
     Names, Modes

\* Replacing a list.
LEMMA SetListTypes ==
  ASSUME ListTypes, NEW m \in Modes, NEW names \in Seq(AnyName), Len(names) \in 0..MaxItems,
         SetList(m, names), UNCHANGED mode
  PROVE  ListTypes'
<1>1. Copied(items[m], names) \in [1..MaxItems -> Names]
  BY CopiedFirst DEF ListTypes, Names
<1>2. selected' \in Nat
  BY DEF SetList, ListTypes
<1> QED
  BY <1>1, <1>2 DEF ListTypes, SetList

\* A list that arrives.
LEMMA ListedTypes ==
  ASSUME Types, Listed
  PROVE  Types'
<1>1. main.mode \in Modes /\ main' \in {Listing("users", "keys"), AtKeys}
  BY DEF Listed, Types, MainTypes
<1>2. MainTypes'
  BY <1>1 DEF MainTypes, Listing, AtKeys, Modes
<1>3. WorkerTypes'
  BY DEF Listed, Types, WorkerTypes
<1>4. CASE \E names \in Answers(main.mode) : SetList(main.mode, Kept(main.mode, names))
  <2>1. PICK names \in Answers(main.mode) : SetList(main.mode, Kept(main.mode, names))
    BY <1>4
  <2>2. /\ Kept(main.mode, names) \in Seq(AnyName)
        /\ Len(Kept(main.mode, names)) \in 0..MaxItems
    BY <1>1, AnswersKept DEF Types
  <2>3. UNCHANGED mode
    BY DEF Listed
  <2>4. ListTypes'
    BY <1>1, <2>1, <2>2, <2>3, SetListTypes DEF Types
  <2> QED
    BY <1>2, <1>3, <2>4 DEF Types
<1>5. CASE UNCHANGED <<lists, selected, raced>>
  BY <1>2, <1>3, <1>5 DEF Types, ListTypes, Listed, lists
<1> QED
  BY <1>4, <1>5 DEF Listed

\* Keys.
LEMMA KeyTypes ==
  ASSUME Types,
         \/ MoveFocus \/ Activate \/ Escape \/ Quit \/ Move \/ Moved \/ Enter
         \/ \E m \in Modes : Switch(m)
  PROVE  Types'
<1> USE DEF Types, ListTypes, MainTypes, WorkerTypes
<1>1. CASE MoveFocus \/ Activate \/ Escape
  BY <1>1 DEF MoveFocus, Activate, Escape, lists
<1>2. CASE Quit
  BY <1>2 DEF Quit, lists
<1>3. CASE Move
  <2>1. PICK to \in {selected + 1, selected - 1} :
          (to < selected => selected > 0) /\ main' = [at |-> "move", to |-> to]
    BY <1>3 DEF Move
  <2>2. to \in Nat
    BY <2>1
  <2> QED
    BY <1>3, <2>1, <2>2 DEF Move, lists
<1>4. CASE Moved
  BY <1>4 DEF Moved, lists, AtKeys
<1>5. CASE Enter
  BY <1>5 DEF Enter, lists
<1>6. ASSUME NEW m \in Modes, Switch(m) PROVE Types'
  <2>1. CASE m = "members" /\ open \notin ChatNames
    <3>1. UNCHANGED <<items, main, worker, mine>> /\ mode' = m /\ selected' = 0
          /\ count' = [count EXCEPT ![m] = 0]
      BY <1>6, <2>1 DEF Switch
    <3>2. 0 \in 0..MaxItems
      BY PanelsAssumption
    <3> QED
      BY <3>1, <3>2
  <2>2. CASE ~(m = "members" /\ open \notin ChatNames)
    BY <1>6, <2>2 DEF Switch, lists, Listing
  <2> QED
    BY <2>1, <2>2
<1> QED
  BY <1>1, <1>2, <1>3, <1>4, <1>5, <1>6

\* The item whose name is looked up is one of the array.
LEMMA ItemFound ==
  ASSUME Types, Item, main'.at = "name"
  PROVE  /\ main' = [at |-> "name", idx |-> main.idx, listed |-> ListNow(mode),
                     sure |-> ~Writing(mode)]
         /\ main.idx \in 0..(MaxItems - 1)
         /\ \E n \in Counts(mode) : main.idx < n
<1>1. PICK n \in Counts(mode) :
        main' = IF InList(main.idx, n) /\ main.idx < MaxItems
                THEN [at |-> "name", idx |-> main.idx, listed |-> ListNow(mode),
                      sure |-> ~Writing(mode)]
                ELSE AtKeys
  BY DEF Item
<1>2. main.at = "item" /\ main.idx \in Nat
  BY DEF Item, Types, MainTypes
<1>3. AtKeys.at # "name"
  BY DEF AtKeys
<1>4. InList(main.idx, n) /\ main.idx < MaxItems
  BY <1>1, <1>3
<1>5. main.idx \in 0..(MaxItems - 1)
  BY <1>2, <1>4, PanelsAssumption
<1> QED
  BY <1>1, <1>4, <1>5 DEF InList

\* What a list shows are names.
LEMMA NowNames ==
  ASSUME ListTypes, NEW m \in Modes
  PROVE  ListNow(m) \subseteq Names
<1>1. count[m] \in 0..MaxItems /\ items[m] \in [1..MaxItems -> Names]
  BY DEF ListTypes
<1>2. \A i \in 1..count[m] : i \in 1..MaxItems
  BY <1>1, PanelsAssumption
<1> QED
  BY <1>1, <1>2 DEF ListNow

\* Opening an item.
LEMMA OpenTypes ==
  ASSUME Types, Item \/ MakeRoute \/ Opened
  PROVE  Types'
<1>1. CASE Item
  <2>1. UNCHANGED <<mode, selected, items, count, worker, mine>>
    BY <1>1 DEF Item, lists
  <2>2. main'.at \in {"name", "keys"}
    BY <1>1 DEF Item, AtKeys
  <2>3. ASSUME main'.at = "name"
        PROVE  main' \in [at : {"name"}, idx : 0..(MaxItems - 1), listed : SUBSET Names,
                          sure : BOOLEAN]
    <3>1. ListNow(mode) \subseteq Names
      BY NowNames DEF Types, ListTypes
    <3>2. Writing(mode) \in BOOLEAN
      BY DEF Writing
    <3>3. /\ main' = [at |-> "name", idx |-> main.idx, listed |-> ListNow(mode),
                       sure |-> ~Writing(mode)]
          /\ main.idx \in 0..(MaxItems - 1)
      BY <1>1, <2>3, ItemFound
    <3> QED
      BY <3>1, <3>2, <3>3
  <2>4. MainTypes'
    BY <2>2, <2>3 DEF MainTypes
  <2> QED
    BY <2>1, <2>4 DEF Types, ListTypes, WorkerTypes
<1>2. CASE MakeRoute
  <2>1. UNCHANGED <<mode, selected, items, count, worker, mine>> /\ main'.at \in {"keys", "load"}
    BY <1>2 DEF MakeRoute, lists, AtKeys
  <2> QED
    BY <2>1 DEF Types, ListTypes, WorkerTypes, MainTypes
<1>3. CASE Opened
  BY <1>3 DEF Opened, lists, Types, ListTypes, WorkerTypes, MainTypes, AtKeys
<1> QED
  BY <1>1, <1>2, <1>3

\* Commands.
LEMMA CommandTypes ==
  ASSUME Types, Answered \/ Reloaded \/ Written \/ \E c \in Commands : Submit(c)
  PROVE  Types'
<1>1. ASSUME NEW c \in Commands, Submit(c) PROVE Types'
  <2>1. UNCHANGED <<mode, selected, items, count, mine>>
        /\ (main' = main \/ main' = Listing("chats", "keys"))
    BY <1>1 DEF Submit, lists
  <2>2. /\ worker' = [at |-> "call",
                      cmd |-> IF c.op = "leave" THEN [op |-> "leave", name |-> open] ELSE c]
        /\ c.op = "create" => c.name \in ChatNames
    BY <1>1 DEF Submit, Commands
  <2>3. MainTypes'
    BY <2>1 DEF MainTypes, Types, Listing, Modes
  <2> QED
    BY <2>1, <2>2, <2>3 DEF Types, ListTypes, WorkerTypes
<1>2. CASE Answered
  <2>1. UNCHANGED <<mode, selected, items, count, main>> /\ worker'.at \in {"reload", "none"}
        /\ worker.at = "call"
    BY <1>2 DEF Answered, lists, NoWorker
  <2>2. Done(worker.cmd) \/ mine' = mine
    BY <1>2 DEF Answered
  <2>3. mine \in Seq(ChatNames)
    BY DEF Types, WorkerTypes
  <2>4. ASSUME Done(worker.cmd) PROVE mine' \in Seq(ChatNames)
    <3>1. Without(mine, worker.cmd.name) \in Seq(ChatNames)
      BY <2>3, WithoutTyped
    <3>2. worker.cmd.op = "create" => Append(mine, worker.cmd.name) \in Seq(ChatNames)
      BY <2>1, <2>3, AppendProperties DEF Types, WorkerTypes
    <3> QED
      BY <2>3, <2>4, <3>1, <3>2 DEF Done
  <2> QED
    BY <2>1, <2>2, <2>3, <2>4 DEF Types, ListTypes, MainTypes, WorkerTypes
<1>3. CASE Reloaded
  <2>1. UNCHANGED <<mode, selected, items, count, main, mine>>
    BY <1>3 DEF Reloaded, lists
  <2>2. \/ \E names \in Answers("chats") : worker' = [at |-> "write", names |-> Kept("chats", names)]
        \/ worker' = NoWorker
    BY <1>3 DEF Reloaded
  <2>3. ASSUME NEW names \in Answers("chats")
        PROVE  Kept("chats", names) \in Seq(AnyName) /\ Len(Kept("chats", names)) \in 0..MaxItems
    BY AnswersKept DEF Types, Modes
  <2> QED
    BY <2>1, <2>2, <2>3 DEF Types, ListTypes, MainTypes, WorkerTypes, NoWorker
<1>4. CASE Written
  <2>1. worker.names \in Seq(AnyName) /\ Len(worker.names) \in 0..MaxItems
    BY <1>4 DEF Written, Types, WorkerTypes
  <2>2. Copied(items["chats"], worker.names) \in [1..MaxItems -> Names]
    BY <2>1, CopiedFirst DEF Types, ListTypes, Modes, Names
  <2>3. ListTypes'
    BY <1>4, <2>1, <2>2 DEF Written, Types, ListTypes
  <2>4. WorkerTypes'
    BY <1>4 DEF Written, Types, WorkerTypes, NoWorker
  <2>5. ToSet(worker.names) \subseteq Names
    BY <2>1, LenProperties, ElementOfSeq DEF ToSet, Names
  <2>6. MainTypes'
    BY <1>4, <2>5 DEF Written, Types, MainTypes
  <2> QED
    BY <2>3, <2>4, <2>6 DEF Types
<1> QED
  BY <1>1, <1>2, <1>3, <1>4

\* Every step keeps the types.
LEMMA TypesKept == Types /\ [Next]_vars => Types'
<1> SUFFICES ASSUME Types, [Next]_vars PROVE Types'
  OBVIOUS
<1>1. CASE UNCHANGED vars
  BY <1>1 DEF vars, lists, Types, ListTypes, MainTypes, WorkerTypes
<1>2. CASE Next
  BY <1>2, ListedTypes, KeyTypes, OpenTypes, CommandTypes DEF Next
<1> QED
  BY <1>1, <1>2

\* So they hold in every state.
LEMMA AlwaysTypes == Spec => []Types
<1>1. Init => Types
  BY InitTypes
<1>2. Types /\ [Next]_vars => Types'
  BY TypesKept
<1> QED
  BY <1>1, <1>2, PTL DEF Spec

-----------------------------------------------------------------------------
(* What opens was listed. *)

\* The name under the index is one of those that were listed.
FoundWasListed ==
  main.at = "name" /\ main.sure => items[mode][main.idx + 1] \in main.listed

\* Only these steps matter to it.
LEMMA OtherStepsOpenNothing ==
  ASSUME [Next]_vars, ~Item, ~MakeRoute, ~Written
  PROVE  \/ main' = main /\ UNCHANGED <<items, mode>>
         \/ main'.at \notin {"name", "load"}
<1> USE DEF lists, AtKeys, Listing
<1>1. CASE UNCHANGED vars
  BY <1>1 DEF vars
<1>2. CASE Listed
  BY <1>2 DEF Listed
<1>3. CASE MoveFocus \/ Activate \/ Escape \/ Quit
  BY <1>3 DEF MoveFocus, Activate, Escape, Quit
<1>4. CASE Move \/ Moved \/ Enter
  BY <1>4 DEF Move, Moved, Enter
<1>5. CASE \E m \in Modes : Switch(m)
  BY <1>5 DEF Switch, Key
<1>6. CASE Opened
  BY <1>6 DEF Opened
<1>7. CASE Answered \/ Reloaded
  BY <1>7 DEF Answered, Reloaded
<1>8. CASE \E c \in Commands : Submit(c)
  BY <1>8 DEF Submit
<1> QED
  BY <1>1, <1>2, <1>3, <1>4, <1>5, <1>6, <1>7, <1>8 DEF Next

\* Every step keeps what is known of the item that opens.
LEMMA OpensKept ==
  ASSUME Types, FoundWasListed, OpensWhatWasListed, [Next]_vars
  PROVE  FoundWasListed' /\ OpensWhatWasListed'
<1> USE DEF FoundWasListed, OpensWhatWasListed
<1>1. CASE Item
  <2>1. UNCHANGED <<items, count, mode>> /\ main'.at \in {"name", "keys"}
    BY <1>1 DEF Item, lists, AtKeys
  <2>2. ASSUME main'.at = "name", main'.sure
        PROVE  items[mode][main'.idx + 1] \in main'.listed
    <3>1. /\ main' = [at |-> "name", idx |-> main.idx, listed |-> ListNow(mode),
                       sure |-> ~Writing(mode)]
          /\ main.idx \in 0..(MaxItems - 1)
      BY <1>1, <2>2, ItemFound
    <3>2. PICK n \in Counts(mode) : main.idx < n
      BY <1>1, <2>2, ItemFound
    <3>3. ~Writing(mode)
      BY <2>2, <3>1
    <3>4. n = count[mode] /\ count[mode] \in 0..MaxItems
      BY <3>2, <3>3 DEF Counts, Types, ListTypes
    <3>5. main.idx + 1 \in 1..count[mode]
      BY <3>1, <3>2, <3>4, PanelsAssumption
    <3> QED
      BY <3>1, <3>5 DEF ListNow
  <2> QED
    BY <2>1, <2>2
<1>2. CASE MakeRoute
  <2>1. main.at = "name" /\ main'.at # "name"
    BY <1>2 DEF MakeRoute, AtKeys
  <2>2. ASSUME main'.at = "load", main'.sure PROVE main'.name \in main'.listed
    <3>1. PICK n \in NamesAt(mode, main.idx + 1) :
            main' = [at |-> "load", name |-> n, listed |-> main.listed,
                     sure |-> main.sure /\ ~Writing(mode)]
      BY <1>2, <2>2 DEF MakeRoute, AtKeys
    <3>2. main.sure /\ ~Writing(mode)
      BY <2>2, <3>1
    <3>3. n = items[mode][main.idx + 1]
      BY <3>1, <3>2 DEF NamesAt
    <3> QED
      BY <2>1, <3>1, <3>2, <3>3
  <2> QED
    BY <2>1, <2>2
<1>3. CASE Written
  <2>1. CASE main.at = "name"
    <3>0. main.idx + 1 \in 1..MaxItems /\ main.idx + 1 \in Nat /\ mode' = mode
          /\ mode \in Modes /\ "listed" \in DOMAIN main
      BY <1>3, <2>1, PanelsAssumption DEF Types, MainTypes, ListTypes, Written
    <3>1. CASE mode = "chats"
      <4>1. main' = [main EXCEPT !.listed = @ \cup ToSet(worker.names)]
        BY <1>3, <2>1, <3>1 DEF Written
      <4>2. /\ main'.at = "name" /\ main'.idx = main.idx /\ main'.sure = main.sure
            /\ main'.listed = main.listed \cup ToSet(worker.names)
        BY <2>1, <4>1 DEF Types, MainTypes
      <4>3. items'["chats"] = Copied(items["chats"], worker.names)
        BY <1>3, <3>0, <3>1 DEF Written, Types, ListTypes
      <4>4. worker.names \in Seq(AnyName) /\ Len(worker.names) \in 0..MaxItems
        BY <1>3 DEF Written, Types, WorkerTypes
      <4>5. items'["chats"][main.idx + 1] \in ToSet(worker.names) \cup {items["chats"][main.idx + 1]}
        BY <3>0, <4>3, <4>4, CopiedFirst
      <4> QED
        BY <2>1, <3>0, <3>1, <4>2, <4>5
    <3>2. CASE mode # "chats"
      <4>1. main' = main /\ items'[mode] = items[mode]
        BY <1>3, <3>0, <3>2 DEF Written, Types, ListTypes
      <4> QED
        BY <2>1, <3>0, <4>1
    <3> QED
      BY <3>1, <3>2
  <2>2. CASE main.at # "name"
    BY <1>3, <2>2 DEF Written
  <2> QED
    BY <2>1, <2>2
<1>4. CASE ~Item /\ ~MakeRoute /\ ~Written
  BY <1>4, OtherStepsOpenNothing
<1> QED
  BY <1>1, <1>2, <1>3, <1>4

\* The item that opens was in a list that was shown while the key was handled,
\* never a name a longer list left in the array, unless the list was just
\* being written (ui_get_list_item, open_selected_item).
THEOREM OpensWhatIsListed == Spec => []OpensWhatWasListed
<1>1. Init => FoundWasListed /\ OpensWhatWasListed
  BY DEF Init, FoundWasListed, OpensWhatWasListed, Listing
<1>2. Types /\ FoundWasListed /\ OpensWhatWasListed /\ [Next]_vars
        => FoundWasListed' /\ OpensWhatWasListed'
  BY OpensKept
<1> QED
  BY <1>1, <1>2, AlwaysTypes, PTL DEF Spec

-----------------------------------------------------------------------------
(* The selection. *)

\* Where the selection is about to go is in the list, and it is at the first
\* item when members arrive.
TargetInList == main.at = "move" /\ ~raced => main.to < count[mode] \/ count[mode] = 0
FirstMember == main.at = "list" /\ main.mode = "members" => selected = 0
SelInv == SelectionInList /\ TargetInList /\ FirstMember

\* Every step keeps the selection, and where it is going, in the list.
LEMMA SelectionKept ==
  ASSUME Types, SelInv, [Next]_vars
  PROVE  SelInv'
<1> USE DEF SelInv, SelectionInList, TargetInList, FirstMember
<1>0. count \in [Modes -> 0..MaxItems] /\ mode \in Modes /\ selected \in Nat
  BY DEF Types, ListTypes
\* an item of a list, or an empty list: a selection of the first item is fine
<1>1. ASSUME NEW k \in 0..MaxItems PROVE 0 < k \/ k = 0
  BY PanelsAssumption
<1>2. CASE Listed
  <2>1. main'.at = "keys" \/ main' = Listing("users", "keys")
    BY <1>2 DEF Listed, AtKeys
  <2>2. CASE \E names \in Answers(main.mode) : SetList(main.mode, Kept(main.mode, names))
    <3>1. PICK names \in Answers(main.mode) : SetList(main.mode, Kept(main.mode, names))
      BY <2>2
    <3>2. main.at = "list" /\ main.mode \in Modes /\ mode' = mode
      BY <1>2 DEF Listed, Types, MainTypes
    <3>3. selected' = 0
      BY <3>1, <3>2 DEF SetList
    <3>4. ListTypes'
      BY <1>2, ListedTypes DEF Types
    <3>5. count'[mode'] \in 0..MaxItems
      BY <3>4 DEF ListTypes
    <3> QED
      BY <1>1, <2>1, <3>3, <3>5 DEF Listing
  <2>3. CASE UNCHANGED <<lists, selected, raced>>
    BY <1>2, <2>1, <2>3 DEF Listed, lists, Listing
  <2> QED
    BY <1>2, <2>2, <2>3 DEF Listed
<1>3. CASE MoveFocus \/ Activate \/ Escape \/ Quit \/ Enter
  BY <1>3 DEF MoveFocus, Activate, Escape, Quit, Enter, lists
<1>4. CASE Move
  <2>1. PICK to \in {selected + 1, selected - 1} :
          /\ to > selected => \E n \in Counts(mode) : MayMoveDown(n)
          /\ to < selected => selected > 0
          /\ main' = [at |-> "move", to |-> to]
    BY <1>4 DEF Move
  <2>2. UNCHANGED <<mode, selected, count>> /\ raced' = (raced \/ Writing(mode))
    BY <1>4 DEF Move, lists
  <2>3. ASSUME ~raced' PROVE to < count[mode] \/ count[mode] = 0
    <3>1. ~raced /\ Counts(mode) = {count[mode]}
      BY <2>2, <2>3 DEF Counts
    <3>2. selected < count[mode] \/ count[mode] = 0
      BY <3>1
    <3>3. CASE to = selected + 1
      BY <1>0, <2>1, <3>1, <3>3 DEF MayMoveDown
    <3>4. CASE to = selected - 1
      BY <1>0, <2>1, <3>2, <3>4, PanelsAssumption
    <3> QED
      BY <2>1, <3>3, <3>4
  <2> QED
    BY <2>1, <2>2, <2>3
<1>5. CASE Moved
  BY <1>5 DEF Moved, lists, AtKeys
<1>6. ASSUME NEW m \in Modes, Switch(m) PROVE SelInv'
  <2>1. mode' = m /\ selected' = 0 /\ main'.at # "move"
    BY <1>6 DEF Switch, Key, Listing
  <2>2. ListTypes'
    BY <1>6, KeyTypes DEF Types
  <2>3. count'[mode'] \in 0..MaxItems
    BY <2>2 DEF ListTypes
  <2> QED
    BY <1>1, <2>1, <2>3
<1>7. CASE Item \/ MakeRoute \/ Opened
  <2>1. UNCHANGED <<mode, selected, count, raced>> /\ main'.at \notin {"move", "list"}
    BY <1>7 DEF Item, MakeRoute, Opened, lists, AtKeys
  <2> QED
    BY <2>1
<1>8. ASSUME NEW c \in Commands, Submit(c) PROVE SelInv'
  BY <1>8 DEF Submit, lists, Listing
<1>9. CASE Answered \/ Reloaded
  BY <1>9 DEF Answered, Reloaded, lists
<1>10. CASE Written
  <2>1. selected' = 0 /\ mode' = mode /\ (main.at = "move" => raced')
    BY <1>10 DEF Written
  <2>2. main'.at = "move" => main.at = "move"
    BY <1>10 DEF Written, Types, MainTypes
  <2>3. ListTypes'
    BY <1>10, CommandTypes DEF Types
  <2>4. count'[mode'] \in 0..MaxItems
    BY <2>3 DEF ListTypes
  <2> QED
    BY <1>1, <2>1, <2>2, <2>4
<1>11. CASE UNCHANGED vars
  BY <1>11 DEF vars, lists
<1> QED
  BY <1>2, <1>3, <1>4, <1>5, <1>6, <1>7, <1>8, <1>9, <1>10, <1>11 DEF Next

\* The selection is an item of the list, or the list is empty, whatever keys
\* and commands come, unless a thread replaced the list while a key moved the
\* selection (handle_key_list, ui_set_chat_list).
THEOREM SelectionStaysInList == Spec => []SelectionInList
<1>1. Init => SelInv
  BY DEF Init, SelInv, SelectionInList, TargetInList, FirstMember, Listing, Modes
<1>2. Types /\ SelInv /\ [Next]_vars => SelInv'
  BY SelectionKept
<1>3. SelInv => SelectionInList
  BY DEF SelInv
<1> QED
  BY <1>1, <1>2, <1>3, AlwaysTypes, PTL DEF Spec

-----------------------------------------------------------------------------
(* The chat list. *)

Shown == [i \in 1..count["chats"] |-> items["chats"][i]]

\* As long as no two threads waited at once: what a thread writes is the
\* server's list; and so is what is shown, unless a thread is to ask for the
\* list, or the main thread asks for it.
Follows ==
  ~mixed => /\ worker.at = "write" => worker.names = Kept("chats", mine)
            /\ worker.at = "call" => worker.cmd.op # "leave"
            /\ worker.at \in {"none", "call"} /\ ~(main.at = "list" /\ main.mode = "chats") =>
                 Shown = Kept("chats", mine)

\* A list that is set is the one that is shown.
LEMMA ShownCopied ==
  ASSUME ListTypes, NEW names \in Seq(AnyName), Len(names) \in 0..MaxItems,
         items' = [items EXCEPT !["chats"] = Copied(@, names)],
         count' = [count EXCEPT !["chats"] = Len(names)]
  PROVE  Shown' = names
<1>1. items'["chats"] = Copied(items["chats"], names) /\ count'["chats"] = Len(names)
  BY DEF ListTypes, Modes
<1>2. [i \in 1..Len(names) |-> Copied(items["chats"], names)[i]] = names
  BY CopiedFirst
<1> QED
  BY <1>1, <1>2 DEF Shown

\* The list the server has is one that fits.
LEMMA MineKept ==
  ASSUME WorkerTypes
  PROVE  Kept("chats", mine) \in Seq(AnyName) /\ Len(Kept("chats", mine)) \in 0..MaxItems
<1>1. mine \in Answers("chats")
  BY DEF Answers, Own
<1> QED
  BY <1>1, AnswersKept DEF Modes

\* Every step keeps what the list follows.
LEMMA FollowsKept ==
  ASSUME Types, Follows, [Next]_vars
  PROVE  Follows'
<1> SUFFICES ASSUME ~mixed' PROVE Follows'
  BY DEF Follows
<1> USE DEF Follows
<1>1. CASE Listed
  <2>1. /\ UNCHANGED <<worker, mine>> /\ ~mixed /\ main.at = "list" /\ main.mode \in Modes
        /\ ~(main'.at = "list" /\ main'.mode = "chats")
    BY <1>1 DEF Listed, Listing, AtKeys, Types, MainTypes
  <2>2. SetList(main.mode, Kept(main.mode, IF main.mode = "chats" THEN mine ELSE <<>>))
        \/ main.mode # "chats"
    BY <1>1, <2>1 DEF Listed, Answers, Own
  <2>3. CASE main.mode = "chats"
    <3>1. SetList("chats", Kept("chats", mine))
      BY <2>2, <2>3
    <3>2. Shown' = Kept("chats", mine)
      BY <3>1, MineKept, ShownCopied DEF SetList, Types
    <3> QED
      BY <2>1, <3>2
  <2>4. CASE main.mode # "chats"
    <3>1. PICK names : SetList(main.mode, names)
      BY <1>1, <2>1 DEF Listed
    <3>2. items'["chats"] = items["chats"] /\ count'["chats"] = count["chats"]
      BY <2>1, <2>4, <3>1 DEF SetList, Types, ListTypes, Modes
    <3>3. Shown' = Shown
      BY <3>2 DEF Shown
    <3> QED
      BY <2>1, <2>4, <3>3
  <2> QED
    BY <2>3, <2>4
<1>2. CASE UNCHANGED <<items, count, worker, mine, mixed>>
           /\ (main.at = "list" => main' = main)
  BY <1>2 DEF Shown
<1>3. CASE MoveFocus \/ Activate \/ Escape \/ Quit \/ Move \/ Moved \/ Enter \/ Item \/ Opened
  <2>1. UNCHANGED <<items, count, worker, mine, mixed>> /\ (main.at = "list" => main' = main)
    BY <1>3 DEF MoveFocus, Activate, Escape, Quit, Move, Moved, Enter, Item, Opened, lists, Key
  <2> QED
    BY <1>2, <2>1
<1>4. CASE MakeRoute
  <2>1. UNCHANGED <<items, count, worker, mine>> /\ main.at = "name" /\ ~mixed
    BY <1>4 DEF MakeRoute, lists
  <2> QED
    BY <2>1 DEF Shown
<1>5. ASSUME NEW m \in Modes, Switch(m) PROVE Follows'
  <2>1. UNCHANGED <<worker, mine>> /\ ~mixed /\ main.at = "keys"
    BY <1>5 DEF Switch, Key
  <2>2. CASE m = "members" /\ open \notin ChatNames
    <3>1. items' = items /\ count'["chats"] = count["chats"]
      BY <1>5, <2>2 DEF Switch, Types, ListTypes, Modes
    <3>2. Shown' = Shown
      BY <3>1 DEF Shown
    <3> QED
      BY <2>1, <3>2
  <2>3. CASE ~(m = "members" /\ open \notin ChatNames)
    <3>1. UNCHANGED <<items, count>>
      BY <1>5, <2>3 DEF Switch, lists
    <3> QED
      BY <2>1, <3>1 DEF Shown
  <2> QED
    BY <2>2, <2>3
<1>6. ASSUME NEW c \in Commands, Submit(c) PROVE Follows'
  <2>1. c.op # "leave"
    BY <1>6 DEF Submit
  <2>2. UNCHANGED <<items, count, mine, main, mixed>> /\ worker = NoWorker
        /\ worker' = [at |-> "call", cmd |-> c]
    BY <1>6, <2>1 DEF Submit, lists
  <2>3. worker.at = "none" /\ worker'.at = "call" /\ worker'.cmd = c
    BY <2>2 DEF NoWorker
  <2> QED
    BY <2>1, <2>2, <2>3 DEF Shown
<1>7. CASE Answered
  <2>1. UNCHANGED <<items, count, main>> /\ worker.at = "call" /\ ~mixed
    BY <1>7 DEF Answered, lists
  <2>2. worker.cmd.op # "leave"
    BY <2>1
  <2>3. PICK ok \in BOOLEAN :
          /\ IF ok THEN Done(worker.cmd) ELSE UNCHANGED mine
          /\ worker' = IF ok /\ Reloads(worker.cmd.op) THEN [at |-> "reload"] ELSE NoWorker
    BY <1>7, <2>1 DEF Answered
  <2>4. worker'.at = "reload" \/ worker'.at = "none"
    BY <2>3 DEF NoWorker
  <2>5. ASSUME worker'.at # "reload" PROVE mine' = mine
    BY <2>2, <2>3, <2>5 DEF Done, Reloads
  <2> QED
    BY <2>1, <2>4, <2>5 DEF Shown
<1>8. CASE Reloaded
  <2>1. UNCHANGED <<items, count, main, mine>> /\ ~mixed
    BY <1>8 DEF Reloaded, lists
  <2>2. worker' = [at |-> "write", names |-> Kept("chats", mine)]
    BY <1>8, <2>1 DEF Reloaded, Answers, Own
  <2> QED
    BY <2>1, <2>2
<1>9. CASE Written
  <2>1. worker.names = Kept("chats", mine) /\ mine' = mine /\ worker' = NoWorker
    BY <1>9 DEF Written
  <2>2. Shown' = worker.names
    BY <1>9, <2>1, MineKept, ShownCopied DEF Written, Types
  <2> QED
    BY <2>1, <2>2 DEF NoWorker
<1>10. CASE UNCHANGED vars
  BY <1>2, <1>10 DEF vars, lists
<1> QED
  BY <1>1, <1>3, <1>4, <1>5, <1>6, <1>7, <1>8, <1>9, <1>10 DEF Next

\* The chat list follows the user's own commands: as long as no two threads
\* waited at once, it is the server's when no thread of a command is left
\* (thread_create_chat, thread_delete_chat, reload_chat_list).
THEOREM ListFollows == Spec => []ListUpToDate
<1>1. Init => Follows
  BY DEF Init, Follows, NoWorker, Listing
<1>2. Types /\ Follows /\ [Next]_vars => Follows'
  BY FollowsKept
<1>3. Follows => ListUpToDate
  BY DEF Follows, ListUpToDate, Shown, NoWorker
<1> QED
  BY <1>1, <1>2, <1>3, AlwaysTypes, PTL DEF Spec
=============================================================================
