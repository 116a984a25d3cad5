\* Two calls in flight over a budget with room for only one of two siblings.
SPECIFICATION SessionSpec
CONSTANTS
  None = None
  a = a  b = b  c = c  d = d  x = x  y = y
  Names = {a, b, c, d, x, y}
  Doc <- TwoObjects
  RootStart = 0
  SlotBudget = 6
  ObjectMemberCap = 9
  ArrayInterval = 2
  Clients = {c1, c2}
  Ops = {"has"}
  Paths <- SiblingPaths
VIEW RankedView
INVARIANTS DensePrefix
