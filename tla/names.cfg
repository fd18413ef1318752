\* Names of every length around the limits, with every separator.
SPECIFICATION Spec
CONSTANTS
  Users <- SomeUsers
  ChatNames <- SomeChats
  MaxLogin = 4
  MaxRoute = 10
INVARIANTS ReachesHandler  DialogsApart
CHECK_DEADLOCK FALSE
