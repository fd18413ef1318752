\* One child serves every request; one of two logins is registered.
SPECIFICATION Spec
CONSTANTS
  q1 = q1  q2 = q2  alice = alice  bob = bob  x = x  y = y  team = team  club = club
  Procs = {q1}
  Logins = {alice, bob}
  Passwords = {x, y}
  Names = {team, club}
  InitialUsers <- OneUser
  InitialChats <- NoChats
  FilesFail = FALSE
  MaxCalls = 7
SYMMETRY Symmetry
INVARIANTS LoginsUnique NamesUnique
PROPERTIES  InfoCountsChats
CHECK_DEADLOCK FALSE
