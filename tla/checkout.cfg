SPECIFICATION SpecSettings
CONSTANTS
    a = a
    b = b
    WorkOrders = {a, b}
    Managed = TRUE
    Environment <- QueueTrouble
CHECK_DEADLOCK FALSE
INVARIANT PatchIsOwn
INVARIANT PublishesWhatWasReviewed
INVARIANT IntegrationStaysClean
