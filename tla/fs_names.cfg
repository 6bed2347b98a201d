SPECIFICATION Spec
CONSTANTS
  NINODES = 6
  NBLOCK = 6
  NINODE = 5
  NDIRECT = 1
  NINDIRECT = 1
  BSIZE = 2
  Name = {"a", "d"}
  None = None
  Proc = {p1, p2}
  Calls <- MCCalls
  Starts <- MCStarts
  MaxWrite = 3
  MaxCalls = 3
  MaxCrash = 1
SYMMETRY Perms
INVARIANTS BlocksExact LinksExact RefExact CacheCoherent IputWontBlock SoundUnlessRemoved
PROPERTIES DiskChangesInTx
