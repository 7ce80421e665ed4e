SPECIFICATION FairSpec
CONSTANTS
  Receivers = {"radio", "uslp", "tun"}
  MaxParts = 4
  MaxMessages = 2
INVARIANTS TypeOK
PROPERTIES ReadsWholeMessages EveryMessageRead
