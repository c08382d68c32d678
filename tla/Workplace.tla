------------------------------ MODULE Workplace ------------------------------
(***************************************************************************)
(* What a delivery relies on: the guards of the agents (this module's own  *)
(* constants and variables), the projects and their settings, the          *)
(* automation of a project, and the fetch of its issues from Jira.  The    *)
(* parts share no state.  What the delivery expects of each is stated at   *)
(* the end.                                                                *)
(***************************************************************************)
EXTENDS AgentGuards, Naturals

CONSTANTS
    Requests,          \* to the HTTP API; each is made once
    MaxAtOnce,         \* requests under way at a time
    ProjectKeys, Default, Kinds, SettingsEvents,        \* ProjectSettings
    ManifestRoles, NewRoles, Repos, NoRepo, SetupEvents, \* Provisioning
    MaxIssues, PageSize, MaxFetches, JiraEvents         \* JiraSearch

VARIABLES
    mapping, torn, active, global, cloud, req, want, created, mishaps,  \* ProjectSettings
    bundle, serving, repo, file, th, edits, cuts,                       \* Provisioning
    jira, server, fetch, fetches, stirs                                 \* JiraSearch

Settings == INSTANCE ProjectSettings WITH Projects <- ProjectKeys, incidents <- mishaps,
                Environment <- SettingsEvents

Automation == INSTANCE Provisioning WITH Roles <- ManifestRoles, incidents <- cuts,
                  Environment <- SetupEvents

Search == INSTANCE JiraSearch WITH incidents <- stirs, Environment <- JiraEvents

\* No role is called like the state file, and no thread of a request is the starting one.
ASSUME ManifestAssumption == Automation!State \notin ManifestRoles
ASSUME BootAssumption     == Automation!Boot \notin Requests
\* The key of a plugin without a mapping ("default") is no project, no project is nobody.
ASSUME DefaultAssumption  == Default \notin ProjectKeys
ASSUME NobodyIsNoProject  == Nobody \notin ProjectKeys \cup {Default}
\* A project may have no issue, a page has one.
ASSUME PagesAssumption    == MaxIssues \in Nat /\ PageSize \in Nat \ {0}

-----------------------------------------------------------------------------
\* Projects and stored settings outlive registrations, shares and crashes
\* (ProjectsAreKept and SettingsStand of local_projects.py, project_settings.py).
ProjectsAndSettingsStand == Settings!NothingIsLost

\* Requests that meet do not store one project's server under another
\* (StoredServerIsOwn of install_project_mcp_hooks).
ServersStayApart == Settings!StoredServerIsOwn

\* A ready project has its manifests, that agree on the repository and keep what a human
\* edited (ReadyMeansProvisioned, RepoAgrees and EditsStand of provisioner.py, upgrade.py).
AutomationHolds == Automation!ProvisioningHolds

\* A fetch for the scan has all of the project's issues, once, and no others
\* (FetchIsComplete and FetchIsSound of _search_issues, fetch_issues_for_readiness).
ScanSeesTheProject == Search!FetchIsComplete /\ Search!FetchIsSound
=============================================================================
