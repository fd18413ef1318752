----------------------------- MODULE AtomicFile -----------------------------
(***************************************************************************)
(* The promise of a repository file: every operation takes effect at one   *)
(* moment between its call and its return, on the contents all the others  *)
(* left.  With Faulty, a call may fail or its process die, and then the    *)
(* contents may be lost as well: all of them, never a part.                *)
(***************************************************************************)
EXTENDS JsonArray

CONSTANTS Procs, Faulty

VARIABLES
  content,  \* the array in the file
  phase,    \* where each process is in its call
  op,       \* the operation it called last
  res,      \* what that returned
  view      \* what its last read returned

atomicVars == <<content, phase, op, res, view>>

Init ==
  /\ content = <<>>
  /\ phase = [p \in Procs |-> "idle"]
  /\ op = [p \in Procs |-> NoOp]
  /\ res = [p \in Procs |-> "none"]
  /\ view = [p \in Procs |-> <<>>]

Move(p, from, to) == phase[p] = from /\ phase' = [phase EXCEPT ![p] = to]
Result(p, r) == res' = [res EXCEPT ![p] = r]

\* the contents a faulty call finds may be taken for an empty array
Base == {content} \cup (IF Faulty THEN {<<>>} ELSE {})

Invoke(p, o) ==
  /\ Move(p, "idle", "pending")
  /\ op' = [op EXCEPT ![p] = o] /\ Result(p, "none")
  /\ UNCHANGED <<content, view>>

Edit(p) ==
  /\ op[p].kind # "read" /\ Move(p, "pending", "done")
  /\ \E s \in Base :
       /\ Result(p, Outcome(op[p], s))
       /\ content' = IF Saves(op[p], s) THEN Apply(op[p], s) ELSE content
  /\ UNCHANGED <<op, view>>

Read(p) ==
  /\ op[p].kind = "read" /\ Move(p, "pending", "done") /\ Result(p, "ok")
  /\ \E s \in Base : view' = [view EXCEPT ![p] = s]
  /\ UNCHANGED <<content, op>>

Return(p) == Move(p, "done", "idle") /\ UNCHANGED <<content, op, res, view>>

Fail(p) ==
  /\ Faulty /\ Move(p, "pending", "done") /\ Result(p, "failed")
  /\ UNCHANGED <<content, op, view>>

Lose(p) ==
  /\ Faulty /\ phase[p] = "done" /\ Result(p, "failed") /\ content' = <<>>
  /\ UNCHANGED <<phase, op, view>>

Die(p) ==
  /\ Faulty /\ phase' = [phase EXCEPT ![p] = "dead"]
  /\ content' \in Base
  /\ UNCHANGED <<op, res, view>>

Next == \E p \in Procs : \/ \E o \in Op : Invoke(p, o)
                         \/ Edit(p) \/ Read(p) \/ Return(p)
                         \/ Fail(p) \/ Lose(p) \/ Die(p)

Spec == Init /\ [][Next]_atomicVars
=============================================================================
