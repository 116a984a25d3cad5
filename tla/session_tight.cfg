\* Two calls in flight under a budget that sheds one of two siblings.
SPECIFICATION SessionSpec
CONSTANTS
  None = None
  a = a  b = b  c = c  d = d  x = x  y = y
  Names = {a, b, c, d, x, y}
  Doc <- Mixed
  RootStart = 0
  SlotBudget = 5
  ObjectMemberCap = 2
  ArrayInterval = 2
  Clients = {c1, c2}
  Ops = {"has"}
  Paths <- TightPaths
VIEW RankedView
INVARIANTS SlotsAccounted CacheTruthful FindsAreTrue SeedsStand
PROPERTIES NothingForgotten
