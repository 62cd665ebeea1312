SPECIFICATION Spec
CONSTANTS
  Chunks <- MCChunks
  Primary <- MCPrimary
  Cap <- MCCap
  MaxCap = 3
  Backend = "glibc"
  ReleaseFrom = 2
  Flip = TRUE
  poison_in_malloc = TRUE
  poison_in_free = TRUE
  poison_reuse = FALSE
  DanglingStores = FALSE
INVARIANTS
  NoMissedByte
  NoFalseAlarm
  RecycledIsPoisoned
