\* Calls on cursors that hops hand out, under a budget that evicts.
SPECIFICATION SessionSpec
CONSTANTS
  None = None
  a = a  b = b  c = c  d = d  x = x  y = y
  Names = {a, b, c, d, x, y}
  Doc <- Mixed
  RootStart = 0
  SlotBudget = 6
  ObjectMemberCap = 2
  ArrayInterval = 2
  Clients = {c1}
  Ops = {"hop", "get"}
  Paths <- HopPaths
VIEW RankedView
INVARIANTS CacheTruthful AnswersTransparent OneDepth
PROPERTIES ShallowOutlivesDeep
