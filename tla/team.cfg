SPECIFICATION Spec
CONSTANTS
    u1 = u1
    u2 = u2
    nobody = nobody
    Users <- TwoUsers
    Founder = u1
    Nobody = nobody
    MaxClock = 2
    Environment <- OneByOne
INVARIANT FlushedMeansDelivered
INVARIANT IndexFollowsMembership
INVARIANT TeamHasAnAdmin
PROPERTY SnapshotMovesForward
CHECK_DEADLOCK FALSE
