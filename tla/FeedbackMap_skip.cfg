SPECIFICATION Spec
CONSTANTS
  Threads = {"main"}
  Main = "main"
  Viol = {"a", "b"}
  PcOf <- WidePcOf
  HashOf <- WideHashOf
  EdgeIdx <- MCEdgeIdx
  MapSize = 8
  HandlerOf <- FastHandler
  SkipKnown = TRUE
  HaltOnError = FALSE
  Persistent = FALSE
  Interruptible = TRUE
INVARIANTS
  KnownWasReported
