SPECIFICATION SpecModes
CONSTANTS
    t1 = t1
    t2 = t2
    h1 = h1
    h2 = h2
    MaxGates = 7
    MaxDrafts = 2
    Ticks <- TwoTicks
    Handlers <- OneHandler
    ShadowMode = FALSE
    Legacy = FALSE
    Environment <- Restarts
CHECK_DEADLOCK FALSE
INVARIANT OnePendingGate
INVARIANT OneRunPerNode
INVARIANT NothingInShadow
PROPERTY ComesBackToAHuman
