\* Two JVMs, two ports, everything fair that the code makes progress on.
SPECIFICATION FairSpec
CONSTANTS
  Jvms = {j1, j2}
  None = None
  Ports = {1, 2}
  Preferred = 1
  Attempts = 2
  MaxWaiting = 2
INVARIANTS TypeOK StartExcludesStop Agreement
PROPERTIES PendingClears StopTakesEffect
