SPECIFICATION FairSpec
CONSTANTS
  Threads = {t1, t2, t3}
  kMaxSpinIters = 1
INVARIANTS
  TypeOK
  WaitersCounted
  AwakeWriterFlagged
  NoOneForgotten
PROPERTIES
  LockSpec
  WantedIsTaken
