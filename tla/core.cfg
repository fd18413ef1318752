\* Two connections, every way they can end, fork and accept failing.
SPECIFICATION Spec
CONSTANTS
  c1 = c1  c2 = c2  p1 = p1  p2 = p2
  alice = alice  bob = bob
  NoPid = NoPid  NoLogin = NoLogin  NoConn = NoConn
  Conns = {c1, c2}
  Pids = {p1, p2}
  Logins = {alice, bob}
  MaxClients = 2
  TargetLists <- ToOneself
  MaxRequests = 1
  PipeCapacity = 2
  Leavers = {c1, c2}
  Faults = {"accept", "fork"}
SYMMETRY Symmetry
INVARIANTS TypeOK LockDiscipline DescriptorsAccounted LiveChildHasEntry 
  DeliveredInOrder DeliveredOnce
PROPERTY ImplementsBus
CHECK_DEADLOCK FALSE
