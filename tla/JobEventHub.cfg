SPECIFICATION FairSpec
CONSTANTS
  Sessions = {s1, s2}
  MaxProgress = 2
INVARIANTS
  HubInv
  NothingLost
  ClosedIsComplete
  SubscribersFollow
PROPERTIES
  SessionsEnd
CHECK_DEADLOCK FALSE
