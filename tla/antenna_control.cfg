SPECIFICATION FairSpec
CONSTANTS
  Half = 4
  Top = 2
  Bottom <- BottomDef
  None = None
  MinRotation = 2
  Angles <- AnglesDef
  Targets <- TargetsDef
  North <- NorthDef
  MaxCommands = 4
INVARIANTS TypeOK BooksTrueOnceHomed AzimuthKept ElevationKept
PROPERTIES AimsTheShortestWay ZeroIsFound AimSettles
