CONSTANTS
  Size = 3
  Offsets = {0, 1, 2, 4}
  Lengths = {1, 2}
  MaxRun = 2
  MaxQueued = 2
SPECIFICATION FairSpec
INVARIANTS TypeOK PositionKept
PROPERTIES ImplementsReads EveryReadSettles
