SPECIFICATION FairSpec
CONSTANTS
    Processes = {p, q}
    Nobody = Nobody
    OldVersions = {3, 6, 10, 12}
    MaxIds = 3
    MaxCrashes = 1
    Environment <- Incidental
INVARIANT ReadyMeansComplete
INVARIANT IdsAreUnique
PROPERTY EveryProcessIsServed
