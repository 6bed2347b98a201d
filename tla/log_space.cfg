SPECIFICATION Spec
CONSTANTS
  Proc = {p1, p2, p3}
  Block = {b1, b2, b3, b4, b5, b6}
  Data = {0}
  Zero = 0
  MAXOPBLOCKS = 3
  LOGSIZE = 6
  nlog = 6
  OpBlocks = 2
  REFMOD = 4
  Recycle = {b1, b2, b3, b4, b5, b6}
  MaxCrash = 0
  NoBlock = NoBlock
  NotCached = NotCached
SYMMETRY Symmetry
INVARIANTS LogFits LoggedIsPinned
