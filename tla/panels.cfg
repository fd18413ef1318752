\* Two chats and two other users; two items fit.
SPECIFICATION Spec
CONSTANTS
  me = me  bob = bob  carol = carol  team = team  club = club
  None = None  Torn = Torn
  ChatNames = {team, club}
  Logins = {me, bob, carol}
  Registered <- Users
  Me = me
  MemberLists <- SomeMembers
  MaxItems = 2
SYMMETRY Symmetry
INVARIANTS OpensWhatWasListed SelectionInList 
CHECK_DEADLOCK FALSE
