SPECIFICATION SpecSettings
CONSTANTS
    x1 = x1
    x2 = x2
    p1 = p1
    Tickets <- OneTicket
    MaxRecords = 3
    MaxOrders = 2
    Promotions <- OnePromotion
    Environment <- Races
SYMMETRY Symmetric
CHECK_DEADLOCK FALSE
INVARIANT OneOpenRecord
INVARIANT OneActiveOrder
INVARIANT FailureCanBeRecorded
PROPERTY DeliveredOnce
PROPERTY ConsumerStartsAlone
