SPECIFICATION Spec
CONSTANTS
  Cookies = {c1, c2}
  NoCookie = NoCookie
  PaPowers = {10}
  PaDefault = 22
  Left = 1
  Zabey = 3
  MaxQueue = 2
  MaxJunk = 0
INVARIANTS SentMeansRadiated
