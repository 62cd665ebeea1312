SPECIFICATION FairSpec
CONSTANTS
  Threads = {"main"}
  Main = "main"
  Viol = {"a", "b", "c"}
  PcOf <- ThreePcOf
  HashOf <- ThreeHashOf
  EdgeIdx <- MCEdgeIdx
  MapSize = 8
  HandlerOf <- MixedHandlers
  SkipKnown = TRUE
  HaltOnError = FALSE
  Persistent = TRUE
  Interruptible = TRUE
INVARIANTS
  CompletedIsSeen
PROPERTIES
  LeftoverIsSeen
