----------------------------- MODULE JsonArray ------------------------------
(***************************************************************************)
(* What the repositories do to the JSON array of a file, once it is        *)
(* loaded.  An element is a user, a chat, a member or a message; elements  *)
(* are compared by the one key the code compares (login or name).          *)
(***************************************************************************)
EXTENDS Naturals, Sequences

CONSTANTS Items

Op == [kind : {"append", "add", "remove", "read"}, item : Items]

\* the operation of a process that has not called any
NoOp == [kind |-> "read", item |-> CHOOSE x \in Items : TRUE]

Has(s, x) == \E i \in 1..Len(s) : s[i] = x

\* the loops that find an element delete its first occurrence and stop:
\* from there on every element moves up by one
WithoutFirst(s, x) ==
  [k \in 1..(Len(s) - 1) |-> IF \E j \in 1..k : s[j] = x THEN s[k + 1] ELSE s[k]]

\* whether the operation goes on to locked_save
Saves(o, s) == CASE o.kind = "append" -> TRUE
                 [] o.kind = "add"    -> ~Has(s, o.item)
                 [] o.kind = "remove" -> Has(s, o.item)
                 [] o.kind = "read"   -> FALSE

\* the array it saves
Apply(o, s) == IF ~Saves(o, s) THEN s
               ELSE IF o.kind = "remove" THEN WithoutFirst(s, o.item)
               ELSE Append(s, o.item)

\* what it returns when nothing fails: a member that is already there is a
\* success, an element to remove that is not there is not
Outcome(o, s) == IF o.kind = "remove" /\ ~Has(s, o.item) THEN "failed" ELSE "ok"
=============================================================================
