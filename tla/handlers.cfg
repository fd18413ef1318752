\* Two children, any two requests each that change something or are about
\* messages; one login is registered, the other is not; files may fail to open.
SPECIFICATION MSpec
CONSTANTS
  q1 = q1  q2 = q2  alice = alice  bob = bob  x = x  y = y  team = team
  Procs = {q1, q2}
  Logins = {alice, bob}
  Passwords = {x, y}
  Names = {team}
  InitialUsers <- OneUser
  InitialChats <- OneChat
  FilesFail = TRUE
  MaxCalls = 2
  Served = {"register", "login", "create", "delete", "add", "remove"}
  Messages <- ChatAndDialog
SYMMETRY Symmetry
INVARIANTS MTypeOK MembersSound ToldIsStored
PROPERTIES PasswordStable 
CHECK_DEADLOCK FALSE
