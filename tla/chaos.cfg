SPECIFICATION Spec
CONSTANTS
    t1 = t1
    t2 = t2
    h1 = h1
    h2 = h2
    MaxGates = 4
    MaxDrafts = 1
    Ticks <- TwoTicks
    Handlers <- TwoHandlers
    ShadowMode = FALSE
    Legacy = TRUE
    Environment <- Anything
SYMMETRY Threads
INVARIANT HumansDecideFirst
INVARIANT CompletionMeansDelivered
CHECK_DEADLOCK FALSE
