\* One call at a time under a budget that evicts.
SPECIFICATION SessionSpec
CONSTANTS
  None = None
  a = a  b = b  c = c  d = d  x = x  y = y
  Names = {a, b, c, d, x, y}
  Doc <- Mixed
  RootStart = 0
  SlotBudget = 5
  ObjectMemberCap = 2
  ArrayInterval = 2
  Clients = {c1}
  Ops = {"get", "iter"}
  Paths <- MixedPaths
VIEW RankedView
INVARIANTS TypeOK CacheTruthful DensePrefix AnswersTransparent SlotsAccounted
PROPERTIES NothingForgotten
