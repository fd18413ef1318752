------------------------------ MODULE JsonFile ------------------------------
(***************************************************************************)
(* One file of the repositories (users.json, chats.json or a message       *)
(* file), shared by the server's children: locked_load and locked_save     *)
(* around a change, load_json_file for a read.  flock excludes the         *)
(* children from each other; the kernel drops a lock with the descriptor   *)
(* that took it, also when its owner is killed.                            *)
(***************************************************************************)
EXTENDS JsonArray

CONSTANTS
  Procs,   \* the children that use the file
  MaxOps,  \* bound on the calls of each
  Faults,  \* what may fail: a subset of {"open", "memory", "write", "kill"}
  NoProc

ASSUME FileAssumption ==
  /\ NoProc \notin Procs /\ MaxOps \in Nat
  /\ Faults \subseteq {"open", "memory", "write", "kill"}
  /\ Items # {}

VARIABLES
  disk,  \* "missing", "empty", "torn" or "json": the state of the file
  data,  \* the array it holds when it is "json", else <<>>
  ex,    \* the process that holds LOCK_EX
  sh,    \* the processes that hold LOCK_SH
  pc,    \* where each process is
  op,    \* its current or last operation
  buf,   \* the array it is going to save
  res,   \* what its last operation returned
  view,  \* the array its last load_json_file returned
  calls  \* its calls so far, bounded by MaxOps

vars == <<disk, data, ex, sh, pc, op, buf, res, view, calls>>

Init ==
  /\ disk = "missing" /\ data = <<>> /\ ex = NoProc /\ sh = {}
  /\ pc = [p \in Procs |-> "idle"]
  /\ op = [p \in Procs |-> NoOp]
  /\ buf = [p \in Procs |-> <<>>] /\ view = [p \in Procs |-> <<>>]
  /\ res = [p \in Procs |-> "none"] /\ calls = [p \in Procs |-> 0]

Goto(p, from, to) == pc[p] = from /\ pc' = [pc EXCEPT ![p] = to]
Result(p, r) == res' = [res EXCEPT ![p] = r]

Call(p, o) ==
  /\ calls[p] < MaxOps /\ Goto(p, "idle", "open")
  /\ op' = [op EXCEPT ![p] = o] /\ Result(p, "none")
  /\ calls' = [calls EXCEPT ![p] = @ + 1]
  /\ UNCHANGED <<disk, data, ex, sh, buf, view>>

\* mutant: O_TRUNC given to open
OpenTruncating(p) ==
  /\ op[p].kind # "read" /\ Goto(p, "open", "exlock") /\ disk' = "empty"
  /\ UNCHANGED <<data, ex, sh, op, buf, res, view, calls>>

\* a change creates the file; what is not there has nothing to read
OpenToChange(p) ==
  /\ op[p].kind # "read" /\ Goto(p, "open", "exlock")
  /\ disk' = IF disk = "missing" THEN "empty" ELSE disk
  /\ UNCHANGED <<data, ex, sh, op, buf, res, view, calls>>

\* nothing is saved through the descriptor -1
OpenToChangeFails(p) ==
  /\ "open" \in Faults /\ op[p].kind # "read" /\ Goto(p, "open", "close")
  /\ Result(p, "failed")
  /\ UNCHANGED <<disk, data, ex, sh, op, buf, view, calls>>

\* mutant: a change takes no lock
ExUnlocked == TRUE
\* mutant: LOCK_EX does not wait for the readers
ExFreeOfWriters == ex = NoProc
ExFree == ex = NoProc /\ sh = {}
ShFree == ex = NoProc

LockEx(p) ==
  /\ Goto(p, "exlock", "load") /\ ExFree /\ ex' = p
  /\ UNCHANGED <<disk, data, sh, op, buf, res, view, calls>>

\* what parses: without memory for it, as without any text, an empty array
Parsed == {data} \cup (IF "memory" \in Faults THEN {<<>>} ELSE {})

Load(p) ==
  /\ \E s \in Parsed :
       IF Saves(op[p], s)
       THEN /\ Goto(p, "load", "save") /\ buf' = [buf EXCEPT ![p] = Apply(op[p], s)]
            /\ UNCHANGED res
       ELSE /\ Goto(p, "load", "close") /\ Result(p, Outcome(op[p], s))
            /\ UNCHANGED buf
  /\ UNCHANGED <<disk, data, ex, sh, op, view, calls>>

PrintFails(p) ==
  /\ "memory" \in Faults /\ Goto(p, "save", "close") /\ Result(p, "failed")
  /\ UNCHANGED <<disk, data, ex, sh, op, buf, view, calls>>

Truncate(p) ==
  /\ Goto(p, "save", "write") /\ Result(p, "ok")
  /\ disk' = "empty" /\ data' = <<>>
  /\ UNCHANGED <<ex, sh, op, buf, view, calls>>

Write(p) ==
  /\ Goto(p, "write", "close") /\ disk' = "json" /\ data' = buf[p]
  /\ UNCHANGED <<ex, sh, op, buf, res, view, calls>>

\* mutant: the count write returned is not compared
ShortWriteResult(p) == UNCHANGED res
WriteResult(p) == Result(p, "failed")

\* nothing written, or a part: no text or none that parses
WriteFails(p) ==
  /\ "write" \in Faults /\ Goto(p, "write", "close") /\ WriteResult(p)
  /\ disk' \in {"empty", "torn"} /\ data' = <<>>
  /\ UNCHANGED <<ex, sh, op, buf, view, calls>>

OpenToRead(p) ==
  /\ op[p].kind = "read" /\ disk # "missing" /\ Goto(p, "open", "shlock")
  /\ UNCHANGED <<disk, data, ex, sh, op, buf, res, view, calls>>

OpenToReadFails(p) ==
  /\ op[p].kind = "read" /\ (disk = "missing" \/ "open" \in Faults)
  /\ Goto(p, "open", "close") /\ Result(p, "ok")
  /\ view' = [view EXCEPT ![p] = <<>>]
  /\ UNCHANGED <<disk, data, ex, sh, op, buf, calls>>

LockSh(p) ==
  /\ Goto(p, "shlock", "read") /\ ShFree /\ sh' = sh \cup {p}
  /\ UNCHANGED <<disk, data, ex, op, buf, res, view, calls>>

Read(p) ==
  /\ Goto(p, "read", "close") /\ Result(p, "ok")
  /\ \E s \in Parsed : view' = [view EXCEPT ![p] = s]
  /\ UNCHANGED <<disk, data, ex, sh, op, buf, calls>>

\* mutant: a reader keeps its lock
UnlockEx(p) == ex' = (IF ex = p THEN NoProc ELSE ex) /\ UNCHANGED sh
Unlock(p) == ex' = (IF ex = p THEN NoProc ELSE ex) /\ sh' = sh \ {p}

Close(p) ==
  /\ Goto(p, "close", "idle") /\ Unlock(p)
  /\ UNCHANGED <<disk, data, op, buf, res, view, calls>>

Kill(p) ==
  /\ "kill" \in Faults /\ pc[p] # "dead"
  /\ pc' = [pc EXCEPT ![p] = "dead"] /\ Unlock(p)
  /\ UNCHANGED <<disk, data, op, buf, res, view, calls>>

Step(p) == \/ OpenToChange(p) \/ OpenToChangeFails(p) \/ LockEx(p) \/ Load(p)
           \/ PrintFails(p) \/ Truncate(p) \/ Write(p) \/ WriteFails(p)
           \/ OpenToRead(p) \/ OpenToReadFails(p) \/ LockSh(p) \/ Read(p)
           \/ Close(p)
Next == \E p \in Procs : Step(p) \/ Kill(p) \/ \E o \in Op : Call(p, o)

Spec == Init /\ [][Next]_vars

\* a process runs until its call returns; the kernel grants a lock in the end
FairSpec == Spec /\ \A p \in Procs : SF_vars(Step(p))
-----------------------------------------------------------------------------
Pcs == {"idle", "open", "exlock", "load", "save", "write", "shlock", "read",
        "close", "dead"}

(* The types of the variables; only a text that parses holds elements. *)
TypeOK ==
  /\ disk \in {"missing", "empty", "torn", "json"}
  /\ data \in Seq(Items) /\ (disk # "json" => data = <<>>)
  /\ ex \in Procs \cup {NoProc} /\ sh \subseteq Procs
  /\ pc \in [Procs -> Pcs] /\ op \in [Procs -> Op]
  /\ buf \in [Procs -> Seq(Items)] /\ view \in [Procs -> Seq(Items)]
  /\ res \in [Procs -> {"none", "ok", "failed"}]
  /\ calls \in [Procs -> Nat]

(***************************************************************************)
(* From the load to the save a changing process has the file for itself:   *)
(* nobody else is between its own load and save, and nobody reads.         *)
(***************************************************************************)
Exclusive ==
  \A p, q \in Procs :
     pc[p] \in {"load", "save", "write"} /\ p # q =>
        pc[q] \notin {"load", "save", "write", "read"}

(***************************************************************************)
(* A change that returns success did leave its element in the file, and it *)
(* is there until the lock is released: what the truncation or a failing   *)
(* write destroyed is never reported as saved.                             *)
(***************************************************************************)
OkMeansStored ==
  \A p \in Procs :
     pc[p] = "close" /\ ex = p /\ res[p] = "ok" /\ op[p].kind \in {"append", "add"}
       => Has(data, op[p].item)

(***************************************************************************)
(* The file is atomic: every call takes effect at one moment, a change     *)
(* when it truncates the file and a read when it reads.  Without faults    *)
(* nothing is lost; with them the contents can be lost, but whole, and     *)
(* nobody ever acts on a part of them.                                     *)
(***************************************************************************)
Content == IF \E p \in Procs : pc[p] = "write"
           THEN buf[CHOOSE p \in Procs : pc[p] = "write"] ELSE data
Phase == [p \in Procs |->
            CASE pc[p] = "idle" -> "idle"
              [] pc[p] = "dead" -> "dead"
              [] pc[p] \in {"write", "close"} -> "done"
              [] OTHER -> "pending"]
File == INSTANCE AtomicFile WITH content <- Content, phase <- Phase, Faulty <- Faults # {}
ImplementsAtomicFile == File!Spec

(***************************************************************************)
(* Every call returns, however many others use the file and whatever       *)
(* fails, unless its process is killed: no lock is kept, also by those     *)
(* that fail or die, and nobody waits for a lock while holding one.        *)
(***************************************************************************)
CallsReturn == \A p \in Procs : pc[p] = "open" ~> pc[p] \in {"idle", "dead"}
=============================================================================
