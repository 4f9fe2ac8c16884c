\* Two application threads, one command at a time; all get their turn.
SPECIFICATION FairSpec
CONSTANTS
  Threads = {t1, t2}
  Flushers = {f1}
  MethodCount = 2
  Capacity = 1
  MaxCalls = 1
PROPERTIES CountsArrive
