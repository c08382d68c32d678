SPECIFICATION Spec
CONSTANTS
    t1 = t1
    t2 = t2
    h1 = h1
    h2 = h2
    MaxGates = 7
    MaxDrafts = 2
    Ticks <- TwoTicks
    Handlers <- OneHandler
    ShadowMode = FALSE
    Legacy = FALSE
    Environment <- Disciplined
INVARIANT AwaitingIffGate
INVARIANT PublishesApprovedDraft
PROPERTY DecisionsAreFinal
PROPERTY CompletedIsFinal
PROPERTY ImplementsHumanGatedDelivery
CHECK_DEADLOCK FALSE
