\* As MCMethodHooks_exact, with the sampling the agent really starts with.
CONSTANTS
  Methods = {m1}
  Traced = {}
  Statements = {q1}
  SamplingInterval = 2
  FirstReading = 1
  MaxDepth = 3
  MaxFrames = 4
  MaxClock = 4
  MaxInvocations = 2
SPECIFICATION SpecSql
INVARIANT SqlTimed
