SPECIFICATION FairSpec
CONSTANTS
  Sdus = {s1, s2}
  MaxParts = 2
  MaxCookie = 2
  MaxInbox = 1
INVARIANTS TypeOK OneOutcome PartsAccounted
PROPERTIES Settles
