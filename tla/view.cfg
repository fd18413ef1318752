\* A chat and a dialog; this user and another one post; two messages fit.
SPECIFICATION FairSpec
CONSTANTS
  me = me  bob = bob  carol = carol  team = team  None = None
  Me = me
  Others = {bob}
  Chats = {team}
  MaxMessages = 2
  MaxPosts = 3
  MaxSwitches = 2
INVARIANTS  TwiceOnlyIfRead StrayIsFirst LiveOrder 
 
CHECK_DEADLOCK FALSE
