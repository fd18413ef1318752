--------------------------- MODULE JsonFileProofs ---------------------------
(***************************************************************************)
(* Proofs about JsonFile, for any number of processes, elements and calls  *)
(* and any faults: the types, the exclusion of changes and reads, and that *)
(* the file implements AtomicFile.                                         *)
(***************************************************************************)
EXTENDS JsonFile, SequenceTheorems, TLAPS

\* What the repositories make of an array is an array.
LEMMA ApplyType ==
  ASSUME NEW o \in Op, NEW s \in Seq(Items)
  PROVE  Apply(o, s) \in Seq(Items)
<1>1. o.item \in Items
  BY DEF Op
<1>2. Append(s, o.item) \in Seq(Items)
  BY <1>1
<1>3. ASSUME Has(s, o.item)
      PROVE  WithoutFirst(s, o.item) \in Seq(Items)
  <2>1. Len(s) \in Nat /\ \A i \in 1..Len(s) : s[i] \in Items
    BY LenProperties, ElementOfSeq
  <2>2. Len(s) - 1 \in Nat
    BY <1>3, <2>1 DEF Has
  <2>3. \A k \in 1..(Len(s) - 1) : s[k] \in Items /\ s[k + 1] \in Items
    BY <2>1
  <2>4. WithoutFirst(s, o.item) \in [1..(Len(s) - 1) -> Items]
    BY <2>3 DEF WithoutFirst
  <2> QED
    BY <2>2, <2>4
<1> QED
  BY <1>2, <1>3 DEF Apply, Saves, Op

\* What a load makes of the file is an array.
LEMMA ParsedType == TypeOK => \A s \in Parsed : s \in Seq(Items)
<1>1. <<>> \in Seq(Items)
  OBVIOUS
<1>2. TypeOK => data \in Seq(Items)
  BY DEF TypeOK
<1>3. \A s \in Parsed : s = data \/ s = <<>>
  BY DEF Parsed
<1> QED
  BY <1>1, <1>2, <1>3

(***************************************************************************)
(* Type correctness.                                                       *)
(***************************************************************************)
LEMMA InitType == Init => TypeOK
<1>1. ASSUME Init PROVE TypeOK
  <2>1. NoOp \in Op
    BY FileAssumption DEF NoOp, Op
  <2> QED
    BY <1>1, <2>1 DEF Init, TypeOK, Pcs
<1> QED
  BY <1>1

\* Every step keeps the types.
LEMMA NextType == TypeOK /\ [Next]_vars => TypeOK'
<1> SUFFICES ASSUME TypeOK, [Next]_vars PROVE TypeOK'
  OBVIOUS
<1> USE DEF TypeOK, Pcs
<1>1. CASE UNCHANGED vars
  BY <1>1 DEF vars
<1>2. ASSUME NEW p \in Procs, NEW o \in Op, Call(p, o) PROVE TypeOK'
  BY <1>2 DEF Call, Goto, Result
<1>3. ASSUME NEW p \in Procs, OpenToChange(p) PROVE TypeOK'
  BY <1>3 DEF OpenToChange, Goto
<1>4. ASSUME NEW p \in Procs, OpenToChangeFails(p) PROVE TypeOK'
  BY <1>4 DEF OpenToChangeFails, Goto, Result
<1>5. ASSUME NEW p \in Procs, LockEx(p) PROVE TypeOK'
  BY <1>5 DEF LockEx, Goto
<1>6. ASSUME NEW p \in Procs, Load(p) PROVE TypeOK'
  <2>1. PICK s \in Parsed :
          IF Saves(op[p], s)
          THEN /\ Goto(p, "load", "save") /\ buf' = [buf EXCEPT ![p] = Apply(op[p], s)]
               /\ UNCHANGED res
          ELSE /\ Goto(p, "load", "close") /\ Result(p, Outcome(op[p], s))
               /\ UNCHANGED buf
    BY <1>6 DEF Load
  <2>2. s \in Seq(Items)
    BY ParsedType
  <2>3. Apply(op[p], s) \in Seq(Items)
    BY <2>2, ApplyType
  <2>4. Outcome(op[p], s) \in {"ok", "failed"}
    BY DEF Outcome
  <2> QED
    BY <1>6, <2>1, <2>3, <2>4, ZenonT(40) DEF Load, Goto, Result
<1>7. ASSUME NEW p \in Procs, PrintFails(p) PROVE TypeOK'
  BY <1>7 DEF PrintFails, Goto, Result
<1>8. ASSUME NEW p \in Procs, Truncate(p) PROVE TypeOK'
  BY <1>8 DEF Truncate, Goto, Result
<1>9. ASSUME NEW p \in Procs, Write(p) PROVE TypeOK'
  BY <1>9 DEF Write, Goto
<1>10. ASSUME NEW p \in Procs, WriteFails(p) PROVE TypeOK'
  BY <1>10 DEF WriteFails, WriteResult, Goto, Result
<1>11. ASSUME NEW p \in Procs, OpenToRead(p) PROVE TypeOK'
  BY <1>11 DEF OpenToRead, Goto
<1>12. ASSUME NEW p \in Procs, OpenToReadFails(p) PROVE TypeOK'
  BY <1>12 DEF OpenToReadFails, Goto, Result
<1>13. ASSUME NEW p \in Procs, LockSh(p) PROVE TypeOK'
  BY <1>13 DEF LockSh, Goto
<1>14. ASSUME NEW p \in Procs, Read(p) PROVE TypeOK'
  <2>1. \A s \in Parsed : s \in Seq(Items)
    BY ParsedType
  <2> QED
    BY <1>14, <2>1 DEF Read, Goto, Result
<1>15. ASSUME NEW p \in Procs, Close(p) PROVE TypeOK'
  BY <1>15 DEF Close, Unlock, Goto
<1>16. ASSUME NEW p \in Procs, Kill(p) PROVE TypeOK'
  BY <1>16 DEF Kill, Unlock
<1> QED
  BY <1>1, <1>2, <1>3, <1>4, <1>5, <1>6, <1>7, <1>8, <1>9, <1>10, <1>11,
     <1>12, <1>13, <1>14, <1>15, <1>16 DEF Next, Step

\* The variables keep their types, and only a text that parses holds elements.
THEOREM TypeCorrect == Spec => []TypeOK
  BY InitType, NextType, PTL DEF Spec
-----------------------------------------------------------------------------
(***************************************************************************)
(* The inductive invariant.  Exclusive alone is not inductive: that a      *)
(* process is between its load and its save says nothing of the others     *)
(* unless it holds the lock, which it does; and what it is about to save   *)
(* was computed from what the file still holds.                            *)
(***************************************************************************)
Changing == {"exlock", "load", "save", "write"}

Locked ==
  /\ \A p \in Procs : pc[p] \in {"load", "save", "write"} => ex = p
  /\ \A p \in Procs : pc[p] = "read" => p \in sh
  /\ ex # NoProc => sh = {}

Kinds ==
  \A p \in Procs : /\ pc[p] \in Changing => op[p].kind # "read"
                   /\ pc[p] \in {"shlock", "read"} => op[p].kind = "read"

Computed ==
  \A p \in Procs : pc[p] = "save" =>
    \E s \in Parsed : Saves(op[p], s) /\ buf[p] = Apply(op[p], s)

Truncated == \A p \in Procs : pc[p] = "write" => disk = "empty" /\ data = <<>>

IInv == TypeOK /\ Locked /\ Kinds /\ Computed /\ Truncated

\* The invariant holds at the start.
LEMMA InitIInv == Init => IInv
  BY InitType DEF Init, IInv, Locked, Kinds, Computed, Truncated, Changing

\* A process between its load and its save has the lock.
LEMMA NextLocked == IInv /\ [Next]_vars => Locked'
<1> SUFFICES ASSUME IInv, [Next]_vars PROVE Locked'
  OBVIOUS
<1>0. NoProc \notin Procs
  BY FileAssumption
<1> USE <1>0 DEF IInv, TypeOK, Pcs, Locked
<1>1. CASE UNCHANGED vars
  BY <1>1 DEF vars
<1>2. ASSUME NEW p \in Procs, LockEx(p) PROVE Locked'
  BY <1>2 DEF LockEx, ExFree, Goto
<1>3. ASSUME NEW p \in Procs, LockSh(p) PROVE Locked'
  BY <1>3 DEF LockSh, ShFree, Goto
<1>4. ASSUME NEW p \in Procs, Close(p) PROVE Locked'
  BY <1>4 DEF Close, Unlock, Goto
<1>5. ASSUME NEW p \in Procs, Kill(p) PROVE Locked'
  BY <1>5 DEF Kill, Unlock
<1>6. ASSUME NEW p \in Procs,
             \/ (\E o \in Op : Call(p, o)) \/ OpenToChange(p) \/ OpenToChangeFails(p)
             \/ OpenToRead(p) \/ OpenToReadFails(p)
      PROVE  Locked'
  BY <1>6 DEF Call, OpenToChange, OpenToChangeFails, OpenToRead, OpenToReadFails, Goto
<1>7. ASSUME NEW p \in Procs,
             \/ Load(p) \/ PrintFails(p) \/ Truncate(p) \/ Write(p)
             \/ WriteFails(p) \/ Read(p)
      PROVE  Locked'
  BY <1>7 DEF Load, PrintFails, Truncate, Write, WriteFails, Read, Goto
<1> QED
  BY <1>1, <1>2, <1>3, <1>4, <1>5, <1>6, <1>7 DEF Next, Step

\* A process keeps to the steps of its kind.
LEMMA NextKinds == IInv /\ [Next]_vars => Kinds'
<1> SUFFICES ASSUME IInv, [Next]_vars PROVE Kinds'
  OBVIOUS
<1> USE DEF IInv, TypeOK, Pcs, Kinds, Changing
<1>1. CASE UNCHANGED vars
  BY <1>1 DEF vars
<1>2. ASSUME NEW p \in Procs, \E o \in Op : Call(p, o) PROVE Kinds'
  BY <1>2 DEF Call, Goto
<1>3. ASSUME NEW p \in Procs,
             \/ OpenToChange(p) \/ OpenToChangeFails(p) \/ OpenToRead(p)
             \/ OpenToReadFails(p) \/ LockEx(p) \/ LockSh(p)
      PROVE  Kinds'
  BY <1>3 DEF OpenToChange, OpenToChangeFails, OpenToRead, OpenToReadFails, LockEx,
              LockSh, Goto
<1>4. ASSUME NEW p \in Procs,
             \/ Load(p) \/ PrintFails(p) \/ Truncate(p) \/ Write(p) \/ WriteFails(p)
             \/ Read(p) \/ Close(p) \/ Kill(p)
      PROVE  Kinds'
  BY <1>4 DEF Load, PrintFails, Truncate, Write, WriteFails, Read, Close, Kill, Goto
<1> QED
  BY <1>1, <1>2, <1>3, <1>4 DEF Next, Step

\* The file is empty only while its writer has it.
LEMMA NextTruncated == IInv /\ [Next]_vars => Truncated'
<1> SUFFICES ASSUME IInv, [Next]_vars PROVE Truncated'
  OBVIOUS
<1> USE DEF IInv, TypeOK, Pcs, Truncated, Locked
<1>1. CASE UNCHANGED vars
  BY <1>1 DEF vars
<1>2. ASSUME NEW p \in Procs,
             \/ (\E o \in Op : Call(p, o)) \/ OpenToChange(p) \/ OpenToChangeFails(p)
             \/ OpenToRead(p) \/ OpenToReadFails(p) \/ LockEx(p) \/ LockSh(p)
      PROVE  Truncated'
  BY <1>2 DEF Call, OpenToChange, OpenToChangeFails, OpenToRead, OpenToReadFails,
              LockEx, LockSh, Goto
<1>3. ASSUME NEW p \in Procs, Load(p) \/ PrintFails(p) \/ Read(p) \/ Close(p) \/ Kill(p)
      PROVE  Truncated'
  BY <1>3 DEF Load, PrintFails, Read, Close, Kill, Goto
<1>4. ASSUME NEW p \in Procs, Truncate(p) \/ Write(p) \/ WriteFails(p)
      PROVE  Truncated'
  BY <1>4 DEF Truncate, Write, WriteFails, Goto
<1> QED
  BY <1>1, <1>2, <1>3, <1>4 DEF Next, Step

\* What a waiting save was computed from stays in the file: only the holder
\* of the exclusive lock writes.
LEMMA NextComputed == IInv /\ [Next]_vars => Computed'
<1> SUFFICES ASSUME IInv, [Next]_vars, NEW q \in Procs, pc'[q] = "save"
             PROVE  (\E s \in Parsed : Saves(op[q], s) /\ buf[q] = Apply(op[q], s))'
  BY DEF Computed
<1> USE DEF IInv, TypeOK, Pcs, Locked, Computed
<1>1. ASSUME pc[q] = "save", data' = data, op'[q] = op[q], buf'[q] = buf[q]
      PROVE  (\E s \in Parsed : Saves(op[q], s) /\ buf[q] = Apply(op[q], s))'
  <2>1. PICK s \in Parsed : Saves(op[q], s) /\ buf[q] = Apply(op[q], s)
    BY <1>1
  <2>2. Parsed' = Parsed
    BY <1>1 DEF Parsed
  <2>3. Saves(op'[q], s) /\ buf'[q] = Apply(op'[q], s)
    BY <1>1, <2>1
  <2> QED
    BY <2>2, <2>3 DEF Saves, Apply
<1>2. CASE UNCHANGED vars
  BY <1>1, <1>2 DEF vars
<1>3. ASSUME NEW p \in Procs, Load(p), p = q
      PROVE  (\E s \in Parsed : Saves(op[q], s) /\ buf[q] = Apply(op[q], s))'
  <2>1. PICK s \in Parsed : Saves(op[p], s) /\ buf' = [buf EXCEPT ![p] = Apply(op[p], s)]
    BY <1>3 DEF Load, Goto
  <2>2. Parsed' = Parsed /\ op' = op
    BY <1>3 DEF Parsed, Load
  <2> QED
    BY <1>3, <2>1, <2>2 DEF Saves, Apply
<1>4. ASSUME NEW p \in Procs, Load(p), p # q
      PROVE  pc[q] = "save" /\ data' = data /\ op'[q] = op[q] /\ buf'[q] = buf[q]
  BY <1>4 DEF Load, Goto
<1>5. ASSUME NEW p \in Procs,
             \/ (\E o \in Op : Call(p, o)) \/ OpenToChange(p) \/ OpenToChangeFails(p)
             \/ OpenToRead(p) \/ OpenToReadFails(p) \/ LockEx(p) \/ LockSh(p)
      PROVE  pc[q] = "save" /\ data' = data /\ op'[q] = op[q] /\ buf'[q] = buf[q]
  BY <1>5 DEF Call, OpenToChange, OpenToChangeFails, OpenToRead, OpenToReadFails,
              LockEx, LockSh, Goto
<1>6. ASSUME NEW p \in Procs, PrintFails(p) \/ Read(p) \/ Close(p) \/ Kill(p)
      PROVE  pc[q] = "save" /\ data' = data /\ op'[q] = op[q] /\ buf'[q] = buf[q]
  BY <1>6 DEF PrintFails, Read, Close, Kill, Goto
<1>7. ASSUME NEW p \in Procs, Truncate(p) \/ Write(p) \/ WriteFails(p)
      PROVE  FALSE
  <2>1. ex = p /\ pc'[p] # "save"
    BY <1>7 DEF Truncate, Write, WriteFails, Goto
  <2>2. p # q /\ pc[q] = "save"
    BY <1>7, <2>1 DEF Truncate, Write, WriteFails, Goto
  <2> QED
    BY <2>1, <2>2
<1> QED
  BY <1>1, <1>2, <1>3, <1>4, <1>5, <1>6, <1>7 DEF Next, Step

\* The invariant holds in every state.
LEMMA Invariance == Spec => []IInv
<1>1. IInv /\ [Next]_vars => IInv'
  BY NextType, NextLocked, NextKinds, NextComputed, NextTruncated DEF IInv
<1> QED
  BY InitIInv, <1>1, PTL DEF Spec

(***************************************************************************)
(* Changes exclude each other and exclude reads.                           *)
(***************************************************************************)
THEOREM MutualExclusion == Spec => []Exclusive
<1>1. IInv => Exclusive
  BY FileAssumption DEF IInv, Locked, Exclusive
<1> QED
  BY <1>1, Invariance, PTL
-----------------------------------------------------------------------------
(***************************************************************************)
(* A change that succeeds has stored its element: from the truncation on   *)
(* that is what the buffer to be written holds, and while the changing     *)
(* process has the lock nobody else changes the file.                      *)
(***************************************************************************)
Adds(p) == op[p].kind \in {"append", "add"}

Stored ==
  /\ \A p \in Procs : pc[p] = "write" /\ Adds(p) => Has(buf[p], op[p].item)
  /\ OkMeansStored

\* What an operation that adds an element saves has it.
LEMMA AppliedHas ==
  ASSUME NEW o \in Op, NEW s \in Seq(Items), o.kind \in {"append", "add"}, Saves(o, s)
  PROVE  Has(Apply(o, s), o.item)
<1>1. o.item \in Items /\ Apply(o, s) = Append(s, o.item)
  BY DEF Op, Apply
<1>2. /\ Len(Append(s, o.item)) = Len(s) + 1 /\ Len(s) \in Nat
      /\ Append(s, o.item)[Len(s) + 1] = o.item
  BY <1>1, AppendProperties
<1> QED
  BY <1>1, <1>2 DEF Has

\* At the start nobody reported a success.
LEMMA InitStored == Init => Stored
BY DEF Init, Stored, OkMeansStored

\* Every step keeps what was reported as stored.
LEMMA NextStored == IInv /\ Stored /\ [Next]_vars => Stored'
<1> SUFFICES ASSUME IInv, Stored, [Next]_vars PROVE Stored'
  OBVIOUS
<1> USE DEF Stored, OkMeansStored, Adds, IInv, Goto, Result
<1>0. pc \in [Procs -> Pcs] /\ op \in [Procs -> Op] /\ res \in [Procs -> {"none", "ok", "failed"}]
  BY DEF TypeOK
<1>1. CASE UNCHANGED vars
  BY <1>1 DEF vars
<1>2. ASSUME NEW p \in Procs, NEW o \in Op, Call(p, o) PROVE Stored'
  BY <1>0, <1>2 DEF Call
<1>3. ASSUME NEW p \in Procs,
             OpenToChange(p) \/ OpenToChangeFails(p) \/ LockEx(p) \/ PrintFails(p)
      PROVE  Stored'
  <2>1. CASE OpenToChange(p)
    BY <1>0, <2>1 DEF OpenToChange
  <2>2. CASE OpenToChangeFails(p)
    BY <1>0, <2>2 DEF OpenToChangeFails
  <2>3. CASE LockEx(p)
    BY <1>0, <2>3, FileAssumption DEF LockEx, ExFree
  <2>4. CASE PrintFails(p)
    BY <1>0, <2>4 DEF PrintFails
  <2> QED
    BY <1>3, <2>1, <2>2, <2>3, <2>4
<1>4. ASSUME NEW p \in Procs, Load(p) PROVE Stored'
  <2>1. PICK s \in Parsed :
          IF Saves(op[p], s)
          THEN /\ Goto(p, "load", "save") /\ buf' = [buf EXCEPT ![p] = Apply(op[p], s)]
               /\ UNCHANGED res
          ELSE /\ Goto(p, "load", "close") /\ Result(p, Outcome(op[p], s))
               /\ UNCHANGED buf
    BY <1>4 DEF Load
  <2>2. UNCHANGED <<data, ex, op>> /\ pc[p] = "load"
    BY <1>4 DEF Load
  <2>3. CASE Saves(op[p], s)
    <3>1. /\ pc' = [pc EXCEPT ![p] = "save"] /\ UNCHANGED res
          /\ \A q \in Procs : q # p => buf'[q] = buf[q]
      BY <2>1, <2>3 DEF TypeOK
    <3> QED
      BY <1>0, <2>2, <3>1
  <2>4. CASE ~Saves(op[p], s)
    <3>1. pc' = [pc EXCEPT ![p] = "close"] /\ UNCHANGED buf
          /\ res' = [res EXCEPT ![p] = Outcome(op[p], s)]
      BY <2>1, <2>4
    <3>2. Adds(p) => Has(data, op[p].item)
      <4>1. Adds(p) => Has(s, op[p].item)
        BY <2>4 DEF Saves
      <4>2. ~Has(<<>>, op[p].item)
        BY DEF Has
      <4>3. s = data \/ s = <<>>
        BY DEF Parsed
      <4> QED
        BY <4>1, <4>2, <4>3
    <3> QED
      BY <1>0, <2>2, <3>1, <3>2
  <2> QED
    BY <2>3, <2>4
<1>5. ASSUME NEW p \in Procs, Truncate(p) PROVE Stored'
  <2>1. ex = p
    BY <1>5 DEF Truncate, Locked
  <2>2. PICK s \in Parsed : Saves(op[p], s) /\ buf[p] = Apply(op[p], s)
    BY <1>5 DEF Truncate, Computed
  <2>3. s \in Seq(Items) /\ op[p] \in Op
    BY <1>0, ParsedType
  <2>4. Adds(p) => Has(buf[p], op[p].item)
    BY <2>2, <2>3, AppliedHas
  <2> QED
    BY <1>0, <1>5, <2>1, <2>4 DEF Truncate
<1>6. ASSUME NEW p \in Procs, Write(p) PROVE Stored'
  <2>1. ex = p
    BY <1>6 DEF Write, Locked
  <2> QED
    BY <1>0, <1>6, <2>1 DEF Write
<1>7. ASSUME NEW p \in Procs, WriteFails(p) PROVE Stored'
  <2>1. ex = p
    BY <1>7 DEF WriteFails, Locked
  <2> QED
    BY <1>0, <1>7, <2>1 DEF WriteFails, WriteResult
<1>8. ASSUME NEW p \in Procs, OpenToRead(p) \/ OpenToReadFails(p) \/ LockSh(p) \/ Read(p)
      PROVE  Stored'
  <2>1. CASE OpenToRead(p)
    BY <1>0, <2>1 DEF OpenToRead
  <2>2. CASE OpenToReadFails(p)
    BY <1>0, <2>2 DEF OpenToReadFails
  <2>3. CASE LockSh(p)
    BY <1>0, <2>3 DEF LockSh
  <2>4. CASE Read(p)
    <3>1. op[p].kind = "read"
      BY <2>4 DEF Read, Kinds
    <3> QED
      BY <1>0, <2>4, <3>1 DEF Read
  <2> QED
    BY <1>8, <2>1, <2>2, <2>3, <2>4
<1>9. ASSUME NEW p \in Procs, Close(p) PROVE Stored'
  BY <1>0, <1>9, FileAssumption DEF Close, Unlock
<1>10. ASSUME NEW p \in Procs, Kill(p) PROVE Stored'
  BY <1>0, <1>10, FileAssumption DEF Kill, Unlock
<1> QED
  BY <1>1, <1>2, <1>3, <1>4, <1>5, <1>6, <1>7, <1>8, <1>9, <1>10 DEF Next, Step

\* What a change reports as saved is in the file, whatever fails: OkMeansStored.
THEOREM SavedIsStored == Spec => []OkMeansStored
<1>1. Init => Stored
  BY InitStored
<1>2. IInv /\ Stored /\ [Next]_vars => Stored'
  BY NextStored
<1>3. Spec => []IInv
  BY Invariance
<1>4. Stored => OkMeansStored
  BY DEF Stored
<1> QED
  BY <1>1, <1>2, <1>3, <1>4, PTL DEF Spec
-----------------------------------------------------------------------------
(***************************************************************************)
(* The refinement.  One process at most is at "write", so Content is the   *)
(* array it is about to write, or else the one in the file.                *)
(***************************************************************************)
LEMMA ContentOfWriter ==
  ASSUME IInv
  PROVE  /\ \A p \in Procs : pc[p] = "write" => Content = buf[p]
         /\ (\A p \in Procs : pc[p] # "write") => Content = data
<1>1. ASSUME NEW p \in Procs, pc[p] = "write" PROVE Content = buf[p]
  <2>1. \A q \in Procs : pc[q] = "write" => q = p
    BY <1>1 DEF IInv, Locked
  <2>2. (CHOOSE q \in Procs : pc[q] = "write") = p
    BY <1>1, <2>1
  <2> QED
    BY <1>1, <2>2 DEF Content
<1>2. (\A p \in Procs : pc[p] # "write") => Content = data
  BY DEF Content
<1> QED
  BY <1>1, <1>2

\* An initial state of the locked file is one of the atomic file.
LEMMA RefineInit == Init => File!Init
<1> SUFFICES ASSUME Init PROVE File!Init
  OBVIOUS
<1>1. Content = <<>>
  BY DEF Init, Content
<1>2. Phase = [p \in Procs |-> "idle"]
  BY DEF Init, Phase
<1> QED
  BY <1>1, <1>2 DEF Init, File!Init, File!NoOp, NoOp

\* A step of the locked file is a step of the atomic file, or changes nothing there.
LEMMA RefineNext == IInv /\ IInv' /\ [Next]_vars => [File!Next]_(File!atomicVars)
<1> SUFFICES ASSUME IInv, IInv', [Next]_vars PROVE [File!Next]_(File!atomicVars)
  OBVIOUS
<1>types. TypeOK /\ TypeOK'
  BY DEF IInv
<1>now. /\ \A p \in Procs : pc[p] = "write" => Content = buf[p]
        /\ (\A p \in Procs : pc[p] # "write") => Content = data
  BY ContentOfWriter
<1>then. /\ \A p \in Procs : pc'[p] = "write" => Content' = buf'[p]
         /\ (\A p \in Procs : pc'[p] # "write") => Content' = data'
  <2>1. ASSUME NEW p \in Procs, pc'[p] = "write" PROVE Content' = buf'[p]
    <3>1. \A q \in Procs : pc'[q] = "write" => q = p
      BY <2>1 DEF IInv, Locked
    <3>2. (CHOOSE q \in Procs : pc'[q] = "write") = p
      BY <2>1, <3>1
    <3> QED
      BY <2>1, <3>2 DEF Content
  <2>2. (\A p \in Procs : pc'[p] # "write") => Content' = data'
    BY DEF Content
  <2> QED
    BY <2>1, <2>2
\* a step that neither enters nor leaves "write" and leaves the file alone
<1>same. ASSUME data' = data, NEW p \in Procs,
                \A q \in Procs : q # p => pc'[q] = pc[q] /\ buf'[q] = buf[q],
                pc[p] # "write", pc'[p] # "write"
         PROVE  Content' = Content
  <2>1. CASE \E q \in Procs : pc[q] = "write"
    <3>1. PICK q \in Procs : pc[q] = "write"
      BY <2>1
    <3>2. q # p /\ pc'[q] = "write" /\ buf'[q] = buf[q]
      BY <1>same, <3>1
    <3> QED
      BY <3>1, <3>2, <1>now, <1>then
  <2>2. CASE \A q \in Procs : pc[q] # "write"
    <3>1. \A q \in Procs : pc'[q] # "write"
      BY <1>same, <2>2
    <3> QED
      BY <1>same, <2>2, <3>1, <1>now, <1>then
  <2> QED
    BY <2>1, <2>2
<1>base. ASSUME NEW s \in Parsed PROVE s = data \/ (s = <<>> /\ Faults # {})
  BY DEF Parsed
\* the end of a pending call, seen from AtomicFile
<1>done. ASSUME NEW p \in Procs, NEW from \in {"open", "load", "save", "read"},
                Goto(p, from, "close")
         PROVE  Phase[p] = "pending" /\ Phase' = [Phase EXCEPT ![p] = "done"]
  <2>1. Phase[p] = "pending"
    BY <1>done, <1>types DEF Goto, Phase, TypeOK, Pcs
  <2>2. Phase'[p] = "done" /\ \A q \in Procs : q # p => Phase'[q] = Phase[q]
    BY <1>done, <1>types DEF Goto, Phase, TypeOK, Pcs
  <2> QED
    BY <2>1, <2>2 DEF Phase
<1>0. CASE UNCHANGED vars
  BY <1>0 DEF vars, File!atomicVars, Content, Phase
<1>1. ASSUME NEW p \in Procs, NEW o \in Op, Call(p, o) PROVE File!Next
  <2>1. Phase[p] = "idle" /\ Phase' = [Phase EXCEPT ![p] = "pending"]
    BY <1>1, <1>types DEF Call, Goto, Phase, TypeOK, Pcs
  <2>2. Content' = Content
    BY <1>1, <1>types, <1>same DEF Call, Goto, TypeOK
  <2>3. File!Invoke(p, o)
    BY <1>1, <2>1, <2>2 DEF Call, Result, File!Invoke, File!Move, File!Result
  <2> QED
    BY <2>3 DEF File!Next, File!Op, Op
<1>2. ASSUME NEW p \in Procs,
             OpenToChange(p) \/ LockEx(p) \/ OpenToRead(p) \/ LockSh(p)
      PROVE  UNCHANGED File!atomicVars
  <2>1. Phase' = Phase
    BY <1>2, <1>types DEF OpenToChange, LockEx, OpenToRead, LockSh, Goto, Phase, TypeOK, Pcs
  <2>2. /\ data' = data /\ buf' = buf /\ pc[p] # "write" /\ pc'[p] # "write"
        /\ \A q \in Procs : q # p => pc'[q] = pc[q]
    BY <1>2, <1>types DEF OpenToChange, LockEx, OpenToRead, LockSh, Goto, TypeOK
  <2>3. Content' = Content
    BY <2>2, <1>same
  <2> QED
    BY <1>2, <2>1, <2>3 DEF OpenToChange, LockEx, OpenToRead, LockSh, File!atomicVars
<1>3. ASSUME NEW p \in Procs, OpenToChangeFails(p) \/ PrintFails(p) PROVE File!Next
  <2>1. Phase[p] = "pending" /\ Phase' = [Phase EXCEPT ![p] = "done"]
    BY <1>3, <1>done DEF OpenToChangeFails, PrintFails
  <2>2. Content' = Content
    BY <1>3, <1>types, <1>same DEF OpenToChangeFails, PrintFails, Goto, TypeOK
  <2>3. Faults # {}
    BY <1>3 DEF OpenToChangeFails, PrintFails
  <2>4. File!Fail(p)
    BY <1>3, <2>1, <2>2, <2>3
    DEF OpenToChangeFails, PrintFails, Result, File!Fail, File!Move, File!Result
  <2> QED
    BY <2>4 DEF File!Next
<1>4. ASSUME NEW p \in Procs, Load(p) PROVE File!Next \/ UNCHANGED File!atomicVars
  <2>1. PICK s \in Parsed :
          IF Saves(op[p], s)
          THEN /\ Goto(p, "load", "save") /\ buf' = [buf EXCEPT ![p] = Apply(op[p], s)]
               /\ UNCHANGED res
          ELSE /\ Goto(p, "load", "close") /\ Result(p, Outcome(op[p], s))
               /\ UNCHANGED buf
    BY <1>4 DEF Load
  <2>2. Content = data /\ Content' = Content
    <3>1. \A q \in Procs : pc[q] # "write"
      BY <1>4, <2>1, <1>types DEF Goto, IInv, Locked
    <3>2. \A q \in Procs : pc'[q] # "write"
      BY <2>1, <3>1, <1>types DEF Goto, TypeOK
    <3> QED
      BY <1>4, <3>1, <3>2, <1>now, <1>then DEF Load
  <2>3. CASE Saves(op[p], s)
    <3>1. Phase' = Phase
      BY <2>1, <2>3, <1>types DEF Goto, Phase, TypeOK, Pcs
    <3> QED
      BY <1>4, <2>1, <2>2, <2>3, <3>1 DEF Load, File!atomicVars
  <2>4. CASE ~Saves(op[p], s)
    <3>1. Phase[p] = "pending" /\ Phase' = [Phase EXCEPT ![p] = "done"]
      BY <2>1, <2>4, <1>done
    <3>2. op[p].kind # "read"
      BY <2>1, <2>4 DEF Goto, IInv, Kinds, Changing
    <3>3. s \in File!Base
      BY <1>base, <2>2 DEF File!Base
    <3>4. File!Edit(p)
      BY <1>4, <2>1, <2>2, <2>4, <3>1, <3>2, <3>3
      DEF Load, Result, File!Edit, File!Move, File!Result, File!Saves, Saves,
          File!Has, Has, File!Outcome, Outcome
    <3> QED
      BY <3>4 DEF File!Next
  <2> QED
    BY <2>3, <2>4
<1>5. ASSUME NEW p \in Procs, Truncate(p) PROVE File!Next
  <2>1. PICK s \in Parsed : Saves(op[p], s) /\ buf[p] = Apply(op[p], s)
    BY <1>5 DEF Truncate, Goto, IInv, Computed
  <2>2. Phase[p] = "pending" /\ Phase' = [Phase EXCEPT ![p] = "done"]
    BY <1>5, <1>types DEF Truncate, Goto, Phase, TypeOK, Pcs
  <2>3. Content = data
    BY <1>5, <1>now DEF Truncate, Goto, IInv, Locked
  <2>4. Content' = buf[p]
    <3>1. pc'[p] = "write" /\ buf' = buf
      BY <1>5, <1>types DEF Truncate, Goto, TypeOK
    <3> QED
      BY <3>1, <1>then
  <2>5. s \in File!Base
    BY <1>base, <2>3 DEF File!Base
  <2>6. op[p].kind # "read" /\ Outcome(op[p], s) = "ok"
    BY <2>1 DEF Saves, Outcome, IInv, Kinds, Changing
  <2>7. File!Edit(p)
    BY <1>5, <2>1, <2>2, <2>4, <2>5, <2>6
    DEF Truncate, Result, File!Edit, File!Move, File!Result, File!Saves, Saves,
        File!Has, Has, File!Outcome, Outcome, File!Apply, Apply, File!WithoutFirst,
        WithoutFirst
  <2> QED
    BY <2>7 DEF File!Next
<1>6. ASSUME NEW p \in Procs, Write(p) PROVE UNCHANGED File!atomicVars
  <2>1. Phase' = Phase
    BY <1>6, <1>types DEF Write, Goto, Phase, TypeOK, Pcs
  <2>2. Content = buf[p]
    BY <1>6, <1>now DEF Write, Goto
  <2>3. Content' = data'
    BY <1>6, <1>then, <1>types DEF Write, Goto, TypeOK, IInv, Locked
  <2> QED
    BY <1>6, <2>1, <2>2, <2>3 DEF Write, File!atomicVars
<1>7. ASSUME NEW p \in Procs, WriteFails(p) PROVE File!Next
  <2>1. Phase[p] = "done" /\ Phase' = Phase
    BY <1>7, <1>types DEF WriteFails, Goto, Phase, TypeOK, Pcs
  <2>2. Content' = <<>>
    BY <1>7, <1>then, <1>types DEF WriteFails, Goto, TypeOK, IInv, Locked
  <2>3. File!Lose(p)
    BY <1>7, <2>1, <2>2 DEF WriteFails, WriteResult, Result, File!Lose, File!Result
  <2> QED
    BY <2>3 DEF File!Next
<1>8. ASSUME NEW p \in Procs, OpenToReadFails(p) PROVE File!Next
  <2>1. Phase[p] = "pending" /\ Phase' = [Phase EXCEPT ![p] = "done"]
    BY <1>8, <1>done DEF OpenToReadFails
  <2>2. Content' = Content
    BY <1>8, <1>types, <1>same DEF OpenToReadFails, Goto, TypeOK
  <2>3. <<>> \in File!Base
    <3>1. CASE disk = "missing"
      BY <3>1, <1>types, <1>now DEF TypeOK, IInv, Truncated, File!Base
    <3>2. CASE "open" \in Faults
      BY <3>2 DEF File!Base
    <3> QED
      BY <1>8, <3>1, <3>2 DEF OpenToReadFails
  <2>4. File!Read(p)
    BY <1>8, <2>1, <2>2, <2>3
    DEF OpenToReadFails, Result, File!Read, File!Move, File!Result
  <2> QED
    BY <2>4 DEF File!Next
<1>9. ASSUME NEW p \in Procs, Read(p) PROVE File!Next
  <2>1. Phase[p] = "pending" /\ Phase' = [Phase EXCEPT ![p] = "done"]
    BY <1>9, <1>done DEF Read
  <2>2. PICK s \in Parsed : view' = [view EXCEPT ![p] = s]
    BY <1>9 DEF Read
  <2>3. Content = data /\ Content' = Content
    <3>1. \A q \in Procs : pc[q] # "write"
      BY <1>9, FileAssumption DEF Read, Goto, IInv, Locked
    <3>2. \A q \in Procs : pc'[q] # "write"
      BY <1>9, <3>1, <1>types DEF Read, Goto, TypeOK
    <3> QED
      BY <1>9, <3>1, <3>2, <1>now, <1>then DEF Read
  <2>4. s \in File!Base
    BY <1>base, <2>3 DEF File!Base
  <2>5. op[p].kind = "read"
    BY <1>9 DEF Read, Goto, IInv, Kinds
  <2>6. File!Read(p)
    BY <1>9, <2>1, <2>2, <2>3, <2>4, <2>5
    DEF Read, Result, File!Read, File!Move, File!Result
  <2> QED
    BY <2>6 DEF File!Next
<1>10. ASSUME NEW p \in Procs, Close(p) PROVE File!Next
  <2>1. Phase[p] = "done" /\ Phase' = [Phase EXCEPT ![p] = "idle"]
    BY <1>10, <1>types DEF Close, Goto, Phase, TypeOK, Pcs
  <2>2. Content' = Content
    BY <1>10, <1>types, <1>same DEF Close, Goto, TypeOK
  <2>3. File!Return(p)
    BY <1>10, <2>1, <2>2 DEF Close, File!Return, File!Move
  <2> QED
    BY <2>3 DEF File!Next
<1>11. ASSUME NEW p \in Procs, Kill(p) PROVE File!Next
  <2>1. Phase' = [Phase EXCEPT ![p] = "dead"]
    BY <1>11, <1>types DEF Kill, Phase, TypeOK, Pcs
  <2>2. Faults # {}
    BY <1>11 DEF Kill
  <2>3. /\ data' = data /\ buf' = buf /\ pc'[p] = "dead"
        /\ \A q \in Procs : q # p => pc'[q] = pc[q]
    BY <1>11, <1>types DEF Kill, TypeOK
  <2>4. CASE pc[p] = "write"
    <3>1. data' = <<>>
      BY <2>3, <2>4 DEF IInv, Truncated
    <3>2. \A q \in Procs : pc'[q] # "write"
      BY <2>3, <2>4 DEF IInv, Locked
    <3> QED
      BY <1>11, <2>1, <2>2, <3>1, <3>2, <1>then DEF Kill, File!Next, File!Die, File!Base
  <2>5. CASE pc[p] # "write"
    <3>1. Content' = Content
      BY <2>3, <2>5, <1>same
    <3> QED
      BY <1>11, <2>1, <2>2, <3>1 DEF Kill, File!Next, File!Die, File!Base
  <2> QED
    BY <2>4, <2>5
<1> QED
  BY <1>0, <1>1, <1>2, <1>3, <1>4, <1>5, <1>6, <1>7, <1>8, <1>9, <1>10, <1>11
  DEF Next, Step

(***************************************************************************)
(* Every file the repositories keep is atomic, whatever interleaving of    *)
(* its users, and in the presence of faults loses all or nothing.          *)
(***************************************************************************)
THEOREM Atomicity == Spec => ImplementsAtomicFile
<1>1. Init => File!Init
  BY RefineInit
<1> QED
  BY <1>1, RefineNext, Invariance, PTL DEF Spec, ImplementsAtomicFile, File!Spec
=============================================================================
