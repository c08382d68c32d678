SPECIFICATION SpecSettings
CONSTANTS
    a = a
    b = b
    p0 = p0
    p1 = p1
    p2 = p2
    Tickets <- TwoTickets
    Rank <- ByRank
    Days <- Estimates
    Verdicts <- AnalystSays
    Capacity = 2
    Duration = 1
    DaysPerWeek = 1
    Threads <- OneThread
    MaxDay = 1
    MaxNumber = 2
    MaxItems = 2
    Environment <- Unforced
SYMMETRY Symmetric
CHECK_DEADLOCK FALSE
INVARIANT BilledOnce
INVARIANT BillsDeliveredWork
INVARIANT ReportedMeansPosted
INVARIANT ManualSelectionStands
PROPERTY ReportsOnce
