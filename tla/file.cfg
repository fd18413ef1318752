\* Three children; opening, memory, writing and the processes may fail.
SPECIFICATION FairSpec
CONSTANTS
  q1 = q1  q2 = q2  q3 = q3  a = a  b = b
  NoProc = NoProc
  Procs = {q1, q2, q3}
  Items = {a}
  MaxOps = 1
  Faults = {"open", "memory", "write", "kill"}
INVARIANTS TypeOK Exclusive 
PROPERTIES ImplementsAtomicFile 
CHECK_DEADLOCK FALSE
