\* Exceptions, and recording stopped and started while calls and allocation
\* boundaries are in progress; what they leave makes the stack deeper than the calls.
CONSTANTS
  Methods = {m1}
  Traced = {t1}
  Statements = {}
  SamplingInterval = 2
  FirstReading = 1
  MaxDepth = 2
  MaxFrames = 3
  MaxClock = 2
  MaxInvocations = 2
SPECIFICATION Spec
INVARIANTS TypeOK FramesNested NoTimeCountedTwice
SYMMETRY Symmetry
VIEW WithoutHistory
