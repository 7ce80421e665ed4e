SPECIFICATION Spec
CONSTANTS
  Sdus = {s1}
  MaxParts = 4
  MaxCookie = 4
  MaxInbox = 2
  PaPowers = {}
  PaDefault = 22
  Left = 1
  Zabey = 1
  MaxQueue = 2
  MaxFailures = 1
  Timeouts = FALSE
INVARIANT FollowsFew
