SPECIFICATION FairSpec
CONSTANTS
  Sdus = {s1}
  MaxParts = 2
  MaxCookie = 2
  MaxInbox = 1
  PaPowers = {}
  PaDefault = 22
  Left = 1
  Zabey = 1
  MaxQueue = 1
  MaxFailures = 1
  Timeouts = TRUE
PROPERTIES SduSettles
