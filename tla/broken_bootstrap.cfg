SPECIFICATION Spec
CONSTANTS
    Processes = {p}
    Nobody = Nobody
    OldVersions = {3, 6, 10, 12}
    MaxIds = 3
    MaxCrashes = 1
    Environment <- BrokenSchema
INVARIANT ReadyMeansComplete
