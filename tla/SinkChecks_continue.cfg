SPECIFICATION Spec
CONSTANTS
    Blocks <- MCBlocks
    Entry = 1
    NoLoop = NoLoop
    Loads = {x, y}
    x = x
    y = y
    Programs <- MCPrograms
    Modes = {"legacy", "bb", "loop"}
    SinkPastBarriers = FALSE
CHECK_DEADLOCK FALSE
INVARIANT
    EveryPoisonedLoadReported
