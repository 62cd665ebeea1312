SPECIFICATION Spec
CONSTANTS
  Threads = {"main", "worker"}
  Main = "main"
  Viol = {"a", "b"}
  PcOf <- DensePcOf
  HashOf <- DenseHashOf
  EdgeIdx <- MCEdgeIdx
  MapSize = 8
  HandlerOf <- PcOnlyHandler
  SkipKnown = FALSE
  HaltOnError = FALSE
  Persistent = FALSE
  Interruptible = TRUE
INVARIANTS
  TypeOK
  SeenIsReported
  FoldComplete
  RunsPaidFor
PROPERTIES
  LogSpec
  RunsOnlyForNews
