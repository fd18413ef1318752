\* A client that leaves while the parent is inside the mutex.
SPECIFICATION FairSpec
CONSTANTS
  c1 = c1  c2 = c2  p1 = p1  p2 = p2
  alice = alice  bob = bob
  NoPid = NoPid  NoLogin = NoLogin  NoConn = NoConn
  Conns = {c1, c2}
  Pids = {p1, p2}
  Logins = {alice, bob}
  MaxClients = 2
  TargetLists <- OneTarget
  MaxRequests = 1
  PipeCapacity = 2
  Leavers = {c1, c2}
  Faults = {}
PROPERTY DispatchRoundEnds
CHECK_DEADLOCK FALSE
