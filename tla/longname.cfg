\* A plain login and plain chat names, of every length around the limits.
SPECIFICATION Spec
CONSTANTS
  Users <- PlainUsers
  ChatNames <- PlainChats
  MaxLogin = 4
  MaxRoute = 10
INVARIANT LeavingKeepsChat
CHECK_DEADLOCK FALSE
