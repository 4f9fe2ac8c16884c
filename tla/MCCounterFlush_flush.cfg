\* One application thread, two commands at once, one array replacement.
SPECIFICATION Spec
CONSTANTS
  Threads = {t1}
  Flushers = {f1, f2}
  MethodCount = 2
  Capacity = 1
  MaxCalls = 2
SYMMETRY Symmetry
INVARIANTS TypeOK ExactUnlessRaced
