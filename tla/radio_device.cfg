SPECIFICATION FairSpec
CONSTANTS
  MaxTrouble = 4
INVARIANTS TypeOK OneSwitch WorksWhenReady
PROPERTIES ComesBack
