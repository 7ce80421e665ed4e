SPECIFICATION FairSpec
CONSTANTS
  Cookies = {c1, c2}
  NoCookie = NoCookie
  PaPowers = {}
  PaDefault = 22
  Left = 1
  Zabey = 2
  MaxQueue = 2
  MaxJunk = 0
INVARIANTS SentMeansRadiated ReportUpToDate
PROPERTIES OutcomesReported ImplementsLifecycle TransmissionEnds WaitingEnds OutcomePublished StopHonoured
