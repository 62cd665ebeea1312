SPECIFICATION FairSpec
CONSTANTS
  Threads = {t1, t2}
  Main = t1
  Chunks = {c1, c2, c3, c4, c5}
  MaxCount = 4
  Fallback = Fallback
  Nobody = Nobody
INVARIANTS
  TypeOK
  NoChunkTwice
  NothingLost
  LocksHeldByLiving
PROPERTIES
  RegionReleased
CHECK_DEADLOCK FALSE
