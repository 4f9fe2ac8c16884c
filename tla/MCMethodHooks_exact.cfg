\* Every call timed, SQL statements and allocation boundaries inside methods.
CONSTANTS
  Methods = {m1, m2}
  Traced = {t1}
  Statements = {q1}
  SamplingInterval = 1
  FirstReading = 1
  MaxDepth = 3
  MaxFrames = 3
  MaxClock = 4
  MaxInvocations = 2
SPECIFICATION SpecSql
INVARIANTS ExactWhenAllSampled
SYMMETRY Symmetry
