SPECIFICATION Spec
CONSTANTS
  Chunks <- MCChunks
  Primary <- MCPrimary
  Cap <- MCReuseCap
  MaxCap = 3
  Backend = "combined"
  ReleaseFrom = 2
  Flip = FALSE
  poison_in_malloc = TRUE
  poison_in_free = TRUE
  poison_reuse = TRUE
  DanglingStores = TRUE
INVARIANTS
  TypeOK
  NoMissedByte
  NoFalseAlarm
  RecordedExtentValid
