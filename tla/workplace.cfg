SPECIFICATION SpecSettings
CONSTANTS
    a = a
    b = b
    d = d
    r1 = r1
    r2 = r2
    r3 = r3
    g1 = g1
    g2 = g2
    Runs = {g1, g2}
    WorkOrders = {a, b}
    Nobody = Nobody
    Environment <- AtOnce
    Requests = {r1, r2, r3}
    MaxAtOnce = 1
    ProjectKeys <- TwoKeys
    Default = d
    Kinds <- AllKinds
    SettingsEvents <- Mishaps
    ManifestRoles = {"developer", "reporter"}
    NewRoles <- Newer
    Repos = {"api", "app"}
    NoRepo = "none"
    SetupEvents <- Updates
    MaxIssues = 3
    PageSize = 2
    MaxFetches = 1
    JiraEvents <- Stirs
SYMMETRY Symmetric
CHECK_DEADLOCK FALSE
INVARIANT GuardsHold
INVARIANT ProjectsAndSettingsStand
INVARIANT ServersStayApart
INVARIANT AutomationHolds
INVARIANT ScanSeesTheProject
