--------------------------- MODULE ProjectSettings ---------------------------
(***************************************************************************)
(* The local projects and their settings: project_mapping.yaml, the active *)
(* project in delivery.yaml, the integration servers of the process, and   *)
(* the projects shared with an organization.  Every change of the mapping  *)
(* reads the whole file, and later truncates and writes the whole file.    *)
(* Requests run in threads; the middleware of a request runs on the event  *)
(* loop.  Read and write of delivery.yaml is one step.                     *)
(***************************************************************************)
EXTENDS FiniteSets, Naturals, Sequences

CONSTANTS
    Projects,
    Default,      \* DEFAULT_PROJECT_KEY, a project nobody uses
    Requests,     \* each is made once
    Kinds,        \* what is requested: poll, put, connect, register, share
    Nobody,
    MaxAtOnce,    \* requests under way at a time
    Environment   \* subset of {"crash", "client_stops", "partial_body",
                  \* "org_project"}

Allows(event) == event \in Environment

\* A setting nobody stored, its default, and what a user chose.
Settings == {"unset", "default", "mine"}

\* An integration server: whose address, whose credentials (Nobody's: none).
Keys     == Projects \cup {Default}
Owners   == Keys \cup {Nobody}
Configs  == [address : Owners, env : Owners]
NoConfig == [address |-> Nobody, env |-> Nobody]

Entries  == [sprint : Settings, scope : Settings, config : Configs]
Blank    == [sprint |-> "unset", scope |-> "unset", config |-> NoConfig]
IsMapping(m) == DOMAIN m \subseteq Keys /\ \A p \in DOMAIN m : m[p] \in Entries
Empty    == [p \in {} |-> Blank]

Scoped == {"poll", "put", "connect"}      \* requests with a project header

VARIABLES
    mapping,    \* what project_mapping.yaml holds when it is not torn
    torn,       \* it is truncated and not written yet
    active,     \* the project of delivery.yaml
    global,     \* the Jira server of the process's configuration
    cloud,      \* the projects of the organization
    req,        \* per request: where it is and what it has read
    want,       \* observed: the settings users stored
    created,    \* observed: the projects there are
    incidents   \* observed

files    == <<mapping, torn, active, global, cloud>>
observed == <<want, created, incidents>>
vars     == <<files, req, observed>>

Pcs == {"idle", "listing", "activating", "applying", "handling", "updating", "read",
        "open", "storing", "saving", "registered", "settling", "posting", "finalizing",
        "unlisting", "reactivating", "done"}

TypeOK ==
    /\ IsMapping(mapping) /\ IsMapping(cloud) /\ torn \in BOOLEAN
    /\ active \in Owners /\ global \in Configs
    /\ \A r \in Requests : req[r].pc \in Pcs /\ req[r].project \in Keys
    /\ want \in [Keys -> [{"sprint", "scope"} -> Settings]]
    /\ created \subseteq Keys

Unwanted == [f \in {"sprint", "scope"} |-> "unset"]

NewRequest == [pc |-> "idle", kind |-> "poll", project |-> Default, header |-> FALSE,
               copy |-> Empty, todo |-> <<>>, then |-> "done", config |-> NoConfig,
               payload |-> Blank]

\* A new installation, or one with a project, that older versions did not put in the
\* mapping.
Init ==
    /\ active \in Projects \cup {Nobody}
    /\ mapping \in {Empty} \cup {[p \in {q} |-> Blank] : q \in {active} \ {Nobody}}
    /\ torn = FALSE /\ global = NoConfig /\ cloud = Empty
    /\ req = [r \in Requests |-> NewRequest]
    /\ want = [p \in Keys |-> Unwanted]
    /\ created = DOMAIN mapping \cup ({active} \ {Nobody})
    /\ incidents = {}

\* load_project_mapping: a truncated file is an empty mapping.
Content == IF torn THEN Empty ELSE mapping

EntryOf(m, p) == IF p \in DOMAIN m THEN m[p] ELSE Blank

With(m, p, entry) == [q \in DOMAIN m \cup {p} |-> IF q = p THEN entry ELSE m[q]]

Without(m, p) == [q \in DOMAIN m \ {p} |-> m[q]]

\* list_local_projects
Listed == DOMAIN Content \cup ({active} \ {Nobody})

\* What load_delivery_automation_config resolves without a project key, in a server that
\* runs without LIVINGCOLOR_PROJECT_KEY.
ActiveKey == IF active = Nobody THEN Default ELSE active

OrDefault(value) == IF value = "unset" THEN "default" ELSE value

Busy == {r \in Requests : req[r].pc \notin {"idle", "done"}}

\* A middleware runs from its first to its last step without another one.
OnLoop(r) == req[r].header
LoopFree  == \A r \in Requests : ~OnLoop(r)

At(r, pc) == req[r].pc = pc
Go(r, pc) == req' = [req EXCEPT ![r].pc = pc]

\* A request that is answered keeps nothing.
Answered(r) == [NewRequest EXCEPT !.pc = "done"]
Answer(r)   == req' = [req EXCEPT ![r] = Answered(r)]

-----------------------------------------------------------------------------
(* A change of the mapping: _upsert_mapping_entry and those that do the same. *)

Update(p, field, value) == [project |-> p, field |-> field, value |-> value]

SetField(m, u) == With(m, u.project, [EntryOf(m, u.project) EXCEPT ![u.field] = u.value])

\* Mutant: the project that was active stays where it was.
RegisterAlone(m, p, previous) == With(m, p, EntryOf(m, p))

\* register_local_project names the project that was active, too.
RegisterIn(m, p, previous) ==
    LET both == IF previous = p THEN m ELSE With(m, previous, EntryOf(m, previous))
    IN  With(both, p, EntryOf(both, p))

Updated(m, u) ==
    CASE u.field = "register" -> RegisterIn(m, u.project, u.value)
      [] u.field = "remove"   -> Without(m, u.project)
      [] OTHER                -> SetField(m, u)

StartUpdates(r, updates, then) ==
    req' = [req EXCEPT ![r].pc = "updating", ![r].todo = updates, ![r].then = then]

ReadMapping(r) ==
    /\ At(r, "updating")
    /\ req' = [req EXCEPT ![r].pc = "read", ![r].copy = Content]
    /\ UNCHANGED <<files, observed>>

Truncate(r) ==
    /\ At(r, "read")
    /\ torn' = TRUE
    /\ Go(r, "open")
    /\ UNCHANGED <<mapping, active, global, cloud, observed>>

\* The fields of a PUT are what a user stored; a new project has none.
Wanted(r, u) ==
    IF req[r].kind = "put" /\ u.field # "config" THEN [want EXCEPT ![u.project][u.field] = u.value]
    ELSE IF u.field = "register" /\ u.project \notin DOMAIN req[r].copy
         THEN [want EXCEPT ![u.project] = Unwanted]
         ELSE want

WriteMapping(r) ==
    LET u    == Head(req[r].todo)
        rest == Tail(req[r].todo)
        next == IF rest = <<>> THEN req[r].then ELSE "updating"
    IN  /\ At(r, "open")
        /\ mapping' = Updated(req[r].copy, u)
        /\ torn' = FALSE
        /\ IF next = "done" THEN Answer(r)
           ELSE req' = [req EXCEPT ![r].pc = next, ![r].todo = rest, ![r].copy = Empty]
        /\ want' = Wanted(r, u)
        /\ UNCHANGED <<active, global, cloud, created, incidents>>

-----------------------------------------------------------------------------
(* ProjectContextMiddleware: activate the project, apply its integrations. *)

Receive(r, kind, p) ==
    /\ At(r, "idle")
    /\ Cardinality(Busy) < MaxAtOnce
    /\ kind \in Scoped => LoopFree /\ (p \in Listed \/ Allows("org_project"))
    /\ req' = [req EXCEPT ![r] = [NewRequest EXCEPT
                 !.pc = IF kind \in Scoped THEN "listing" ELSE "handling",
                 !.header = kind \in Scoped, !.kind = kind, !.project = p]]
    /\ incidents' = incidents \cup {e \in {"overlap"} : Busy # {}}
                              \cup {e \in {"unlisted"} : kind \in Scoped /\ p \notin Listed}
    /\ UNCHANGED <<files, want, created>>

\* The middleware goes on with the integrations; the handler of a PUT, that activates
\* the project again, with what it stores.
AfterActivation(r) == IF OnLoop(r) THEN "applying" ELSE "storing"

\* activate_local_project, which does nothing for a project that is not listed
ListProjects(r) ==
    /\ At(r, "listing")
    /\ Go(r, IF req[r].project \in Listed THEN "activating" ELSE AfterActivation(r))
    /\ UNCHANGED <<files, observed>>

SetActive(r) ==
    /\ At(r, "activating")
    /\ active' = req[r].project
    /\ Go(r, AfterActivation(r))
    /\ UNCHANGED <<mapping, torn, global, cloud, observed>>

\* {**below, **above}
Merge(below, above) ==
    [k \in {"address", "env"} |-> IF above[k] = Nobody THEN below[k] ELSE above[k]]

\* Mutant: the project that is active in delivery.yaml.
ActiveScope(r) == ActiveKey

\* get_project_context: the project of the request's own context.
ScopeOf(r) == req[r].project

\* The save hook stores a server under the project, then in the process's configuration.
SaveServer(r, config) ==
    req' = [req EXCEPT ![r].pc = "updating", ![r].then = "saving", ![r].config = config,
                       ![r].todo = <<Update(ScopeOf(r), "config", config)>>]

LeaveLoop(r) == req' = [req EXCEPT ![r].pc = "handling", ![r].header = FALSE]

\* apply_project_mcp_runtime
ApplyRuntime(r) ==
    LET stored == EntryOf(Content, req[r].project).config IN
    /\ At(r, "applying")
    /\ IF stored = NoConfig THEN LeaveLoop(r) ELSE SaveServer(r, Merge(global, stored))
    /\ UNCHANGED <<files, observed>>

SaveGlobal(r) ==
    /\ At(r, "saving")
    /\ global' = req[r].config
    /\ IF OnLoop(r) THEN LeaveLoop(r) ELSE Answer(r)
    /\ UNCHANGED <<mapping, torn, active, cloud, observed>>

-----------------------------------------------------------------------------
(* The handlers. *)

Handles(r, kind) == At(r, "handling") /\ req[r].kind = kind

\* A GET.
AnswerPoll(r) ==
    /\ Handles(r, "poll")
    /\ Answer(r)
    /\ UNCHANGED <<files, observed>>

PutSettings(r) ==
    /\ Handles(r, "put")
    /\ Go(r, "listing")
    /\ UNCHANGED <<files, observed>>

\* The scope a change of other settings keeps.
CurrentScope(p) == OrDefault(EntryOf(Content, p).scope)

\* save_delivery_project_config writes the sprint, then the scope.
StoreSettings(r, scopeInBody) ==
    LET p == req[r].project
        scope == IF scopeInBody THEN "mine" ELSE CurrentScope(p)
    IN  /\ At(r, "storing")
        /\ StartUpdates(r, <<Update(p, "sprint", "mine"), Update(p, "scope", scope)>>, "done")
        /\ UNCHANGED <<files, observed>>

\* upsert_integration_server_config
ConnectServer(r, body) ==
    /\ Handles(r, "connect")
    /\ body.env = Nobody => Allows("partial_body")
    /\ SaveServer(r, Merge(global, body))
    /\ UNCHANGED <<files, observed>>

\* register_local_project: the mapping, the active project, the settings of whichever
\* project is active by then.
Register(r) ==
    /\ Handles(r, "register")
    /\ StartUpdates(r, <<Update(req[r].project, "register", ActiveKey)>>, "registered")
    /\ UNCHANGED <<files, observed>>

ActivateRegistered(r) ==
    /\ At(r, "registered")
    /\ active' = req[r].project
    /\ created' = created \cup {req[r].project}
    /\ Go(r, "settling")
    /\ UNCHANGED <<mapping, torn, global, cloud, want, incidents>>

\* load_delivery_automation_config
EffectiveSprint(p) == OrDefault(EntryOf(Content, p).sprint)

SettleRegistered(r) ==
    LET p == req[r].project IN
    /\ At(r, "settling")
    /\ StartUpdates(r, <<Update(p, "sprint", EffectiveSprint(ActiveKey)),
                         Update(p, "scope", CurrentScope(p))>>, "done")
    /\ UNCHANGED <<files, observed>>

\* The UI shares a project: it takes the payload, posts it, has the project removed.
BuildSharePayload(r) ==
    LET p == req[r].project IN
    /\ Handles(r, "share")
    /\ IF p \in Listed THEN req' = [req EXCEPT ![r].pc = "posting",
                                               ![r].payload = EntryOf(Content, p)]
                        ELSE Answer(r)
    /\ UNCHANGED <<files, observed>>

\* save_project_config of the organization; the answer may be lost.
PostShared(r) ==
    /\ At(r, "posting")
    /\ cloud' = With(cloud, req[r].project, req[r].payload)
    /\ \/ Go(r, "finalizing")
       \/ Allows("client_stops") /\ Answer(r)
    /\ UNCHANGED <<mapping, torn, active, global, observed>>

\* remove_local_project
RemoveProject(r) ==
    LET p == req[r].project IN
    /\ At(r, "finalizing")
    /\ IF p \in DOMAIN Content THEN StartUpdates(r, <<Update(p, "remove", p)>>, "unlisting")
                                ELSE Go(r, "unlisting")
    /\ UNCHANGED <<files, observed>>

Deactivate(r) ==
    /\ At(r, "unlisting")
    /\ IF active = req[r].project THEN active' = Nobody /\ Go(r, "reactivating")
                                  ELSE UNCHANGED active /\ Answer(r)
    /\ UNCHANGED <<mapping, torn, global, cloud, observed>>

\* The first project that remains.
Reactivate(r) ==
    /\ At(r, "reactivating")
    /\ IF Listed = {} THEN UNCHANGED active ELSE active' \in Listed
    /\ Answer(r)
    /\ UNCHANGED <<mapping, torn, global, cloud, observed>>

\* The process stops; the configuration of its servers is a file, too.
Crash ==
    /\ Allows("crash")
    /\ Busy # {}
    /\ req' = [r \in Requests |-> IF r \in Busy THEN Answered(r) ELSE req[r]]
    /\ incidents' = incidents \cup {e \in {"torn_file"} : torn}
                              \cup {e \in {"half_removed"} : \E r \in Requests : At(r, "unlisting")}
    /\ UNCHANGED <<files, want, created>>

Bodies(p) == {[address |-> p, env |-> e] : e \in {p, Nobody}}

HandlerStep(r) ==
    \/ AnswerPoll(r) \/ PutSettings(r)
    \/ \E scopeInBody \in BOOLEAN : StoreSettings(r, scopeInBody)
    \/ \E body \in Bodies(req[r].project) : ConnectServer(r, body)
    \/ Register(r) \/ ActivateRegistered(r) \/ SettleRegistered(r)
    \/ BuildSharePayload(r) \/ PostShared(r) \/ RemoveProject(r) \/ Deactivate(r)
    \/ Reactivate(r)

Next ==
    \/ Crash
    \/ \E r \in Requests :
          \/ \E kind \in Kinds, p \in Projects : Receive(r, kind, p)
          \/ ReadMapping(r) \/ Truncate(r) \/ WriteMapping(r)
          \/ ListProjects(r) \/ SetActive(r) \/ ApplyRuntime(r) \/ SaveGlobal(r)
          \/ HandlerStep(r)

Spec == Init /\ [][Next]_vars

-----------------------------------------------------------------------------
(* Properties. *)

\* Where one request for a listed project follows the other, and no crash leaves the
\* mapping truncated: a project that was created is local or shared, wherever a
\* registration, a removal or a share stops, ...
ProjectsAreKept ==
    ~torn /\ incidents \subseteq {"half_removed"} =>
        \A p \in created : p \in Listed \cup DOMAIN cloud

\* ... and the settings a user stored stand, through registrations, activations and
\* integrations of any project, until they are shared, unless a crash leaves the name of
\* a project that was removed for another share.
SettingsStand ==
    ~torn /\ incidents = {} =>
        \A p \in Keys, f \in {"sprint", "scope"} :
            want[p][f] # "unset" => want[p][f] \in {EntryOf(mapping, p)[f], EntryOf(cloud, p)[f]}

NothingIsLost == ProjectsAreKept /\ SettingsStand

\* Whatever requests for several projects run at the same time and lose to each other,
\* the server stored for a project is its own, unless one was stored with an address
\* only: where the process's configuration belongs to another one, it is not taken over.
StoredServerIsOwn ==
    \A p \in DOMAIN mapping : mapping[p].config \in {NoConfig, [address |-> p, env |-> p]}
=============================================================================
