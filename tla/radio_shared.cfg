SPECIFICATION Spec
CONSTANTS
  Cookies = {c1, c2, c3}
  NoCookie = NoCookie
  PaPowers <- Powers
  PaDefault = 22
  Left = 1
  Zabey = 2
  MaxQueue = 1
  MaxJunk = 1
SYMMETRY Symmetry
INVARIANTS TypeOK FrameAccounting NoForeignPayload
PROPERTIES OneTxPerSilence PowerHonoured
