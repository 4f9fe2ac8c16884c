\* Method calls and allocation boundaries under one recording, every second
\* call timed, starting at a thread clock of zero.
CONSTANTS
  Methods = {m1, m2}
  Traced = {t1}
  Statements = {}
  SamplingInterval = 2
  FirstReading = 0
  MaxDepth = 3
  MaxFrames = 3
  MaxClock = 3
  MaxInvocations = 2
SPECIFICATION SpecCalls
INVARIANTS Balanced DrainedWhenIdle NeverOverReported
SYMMETRY Symmetry
