SPECIFICATION SpecSettings
CONSTANTS
    a = a
    p1 = p1
    p2 = p2
    h1 = h1
    nobody = nobody
    Tickets <- OneTicket
    Threads <- TwoThreads
    Humans <- OneHuman
    NoThread = nobody
    Answers <- Said
    Concurrency = 1
    MaxVersion = 1
    MaxRuns = 2
    MaxProposals = 2
    Environment <- Unasked
INVARIANT NoOutdatedVerdict
INVARIANT ManualEstimateStands
PROPERTY VerdictsOnlyGetNewer
PROPERTY DecisionsStand
SYMMETRY Alike
CHECK_DEADLOCK FALSE
