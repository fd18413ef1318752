\* Nobody leaves and nothing fails; the pipe holds a single write.
SPECIFICATION FairSpec
CONSTANTS
  c1 = c1  c2 = c2  p1 = p1  p2 = p2
  alice = alice  bob = bob
  NoPid = NoPid  NoLogin = NoLogin  NoConn = NoConn
  Conns = {c1, c2}
  Pids = {p1, p2}
  Logins = {alice, bob}
  MaxClients = 2
  TargetLists <- Private
  MaxRequests = 1
  PipeCapacity = 1
  Leavers = {}
  Faults = {}
PROPERTIES PipesDrained RequestsAnswered
CHECK_DEADLOCK FALSE
