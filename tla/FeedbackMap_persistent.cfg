SPECIFICATION Spec
CONSTANTS
  Threads = {"main", "worker"}
  Main = "main"
  Viol = {"a", "b"}
  PcOf <- DensePcOf
  HashOf <- DenseHashOf
  EdgeIdx <- MCEdgeIdx
  MapSize = 8
  HandlerOf <- FastHandler
  SkipKnown = FALSE
  HaltOnError = FALSE
  Persistent = TRUE
  Interruptible = FALSE
INVARIANTS
  SeenIsReported
