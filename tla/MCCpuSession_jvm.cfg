\* An agent of another JVM may answer on the preferred port.
SPECIFICATION Spec
CONSTANTS
  Jvms = {j1, j2}
  None = None
  Ports = {1, 2}
  Preferred = 1
  Attempts = 2
  MaxWaiting = 2
INVARIANTS RightJvm
SYMMETRY Symmetry
