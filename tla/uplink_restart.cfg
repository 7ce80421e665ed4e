SPECIFICATION Spec
CONSTANTS
  Sdus = {s1, s2}
  MaxParts = 1
  MaxCookie = 3
  MaxInbox = 2
  PaPowers = {}
  PaDefault = 22
  Left = 1
  Zabey = 1
  MaxQueue = 2
  MaxFailures = 1
  Timeouts = TRUE
SYMMETRY Symmetry
INVARIANT RadiatedIsTrue
