SPECIFICATION Spec
CONSTANTS
  MaxMessages = 4
  MaxRuns = 2
  Hollow = {2}
INVARIANTS TypeOK LogFollowsBus ReadsWholeMessages LosesOneAtMost InterruptKeepsLog
