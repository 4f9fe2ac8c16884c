\* Two threads, two connections, two probes, three frames of a stack,
\* two calibration calls of each probe.
SPECIFICATION DataSpec
CONSTANTS
  Threads = {"t1", "t2"}
  Connections = {"c1", "c2"}
  NoOne = "none"
  Probes = {0, 1}
  AgentMethods = {"agent"}
  Unreadable = {"x"}
  MaxFrames = 3
  Iterations = 2
  Costs = {0, 1}
  Plans <- MCPlans
  Objects = {"o1", "o2", "o3", "o4"}
  Sites <- MCSites
  Boundaries = {7}
  NoisyRoots = {8}
  Backing = {9}
CHECK_DEADLOCK FALSE
INVARIANTS TypeOK TreeCovers ReplyIsTree StaleBounded JdbcQuiet LiveCovers RepliesLive
