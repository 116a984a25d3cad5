\* The calls and the budget of session_race, where evictions spare the nodes that
\* the other call relies on.
SPECIFICATION SessionSpec
CONSTANTS
  None = None
  a = a  b = b  c = c  d = d  x = x  y = y
  Names = {a, b, c, d, x, y}
  Doc <- TwoObjects
  RootStart = 0
  SlotBudget = 6
  ObjectMemberCap = 9
  ArrayInterval = 2
  Clients = {c1, c2}
  Ops = {"has", "get"}
  Paths <- SiblingPaths
VIEW RankedView
ACTION_CONSTRAINT Spares
INVARIANTS DensePrefix CacheTruthful
PROPERTIES NothingForgotten ImplementsQuery
