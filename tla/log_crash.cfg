SPECIFICATION FairSpec
CONSTANTS
  Proc = {p1, p2}
  Block = {b1, b2}
  Data = {0, 1}
  Zero = 0
  MAXOPBLOCKS = 2
  LOGSIZE = 4
  nlog = 4
  OpBlocks = 2
  REFMOD = 4
  Recycle = {}
  MaxCrash = 2
  NoBlock = NoBlock
  NotCached = NotCached
INVARIANTS QuiescentIsDurable
PROPERTIES Atomicity WriteAhead SleepersWake
