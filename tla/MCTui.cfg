\* Two JVMs; pages of two rows on a terminal with room for one or three, four CPU rows, two callees drawn, filters of one letter.
SPECIFICATION FairSpec
CONSTANTS
  Jvms = {"a", "b", "jps"}
  None = "none"
  Tools = {"jps"}
  Demo = {"b"}
  Letters = {"p"}
  PageRows = 2
  Rooms = {1, 3}
  RowLimit = 4
  ShownCallees = 2
  SampleLimit = 2
  FilterLimit = 1
  Scenarios <- MCScenarios
INVARIANTS TypeOK OneCategoryMarked DataOfSelected ActsOnHighlighted TablesAgree
PROPERTIES JvmFixed DeltasAgainstShown  MemoryLoads
