\* One newline in front of the root object.
SPECIFICATION SessionSpec
CONSTANTS
  None = None
  a = a  b = b  c = c  d = d  x = x  y = y
  Names = {a, b, c, d, x, y}
  Doc <- LeadingNewline
  RootStart = 1
  SlotBudget = 4
  ObjectMemberCap = 2
  ArrayInterval = 2
  Clients = {c1}
  Ops = {"get"}
  Paths <- RootPaths
VIEW RankedView
INVARIANTS WholeDocument
