---------------------------- MODULE Provisioning ----------------------------
(***************************************************************************)
(* The automation of one project: a manifest per agent role, rendered from *)
(* the templates of the plugin, and a state file that says the project is  *)
(* ready.  A setup writes the manifests and then the state, a change of    *)
(* the default repository patches them one by one, and the start of a new  *)
(* plugin version renders again what no human edited.  A file is truncated *)
(* and then written.  The change of the mapping is one step here:          *)
(* ProjectSettings has its two.                                            *)
(***************************************************************************)
EXTENDS FiniteSets, Naturals

CONSTANTS
    Roles,        \* VALID_ROLES of the newer templates
    NewRoles,     \* those the older templates do not have
    Repos,
    NoRepo,
    Requests,     \* each is made once
    MaxAtOnce,    \* requests under way at a time
    Environment   \* subset of {"crash", "update", "edit", "break", "remove"}

Allows(event) == event \in Environment

Versions  == 1 .. 2
AnyRepo   == Repos \cup {NoRepo}

\* A manifest or the state file; broken: a manifest that is not YAML.
Absent    == [kind |-> "absent", version |-> 0, repo |-> NoRepo, edited |-> FALSE]
Truncated == [Absent EXCEPT !.kind = "truncated"]
Broken    == [Absent EXCEPT !.kind = "broken"]
Rendered(version, r) == [kind |-> "whole", version |-> version, repo |-> r, edited |-> FALSE]
Files     == {Absent, Truncated, Broken}
             \cup [kind : {"whole"}, version : Versions, repo : AnyRepo, edited : BOOLEAN]

State   == "automation.yaml"
Paths   == Roles \cup {State}
Boot    == "boot"
Threads == Requests \cup {Boot}

VARIABLES
    bundle,     \* the version of the templates of the plugin
    serving,    \* the start is over
    repo,       \* default_repo of the project's mapping
    file,
    th,         \* per thread: where it is, what it has read and has to write
    edits,      \* observed: manifests edited by hand and not set up again since
    incidents   \* observed

vars == <<bundle, serving, repo, file, th, edits, incidents>>

Idle == [pc |-> "idle", task |-> "none", todo |-> {}, path |-> State, text |-> Absent,
         repo |-> NoRepo]
Done == [Idle EXCEPT !.pc = "done"]

Tasks == {"none", "setup", "patch", "upgrade"}
Pcs   == {"idle", "merging", "choosing", "open", "writing", "done"}

TypeOK ==
    /\ bundle \in Versions /\ serving \in BOOLEAN /\ repo \in AnyRepo
    /\ file \in [Paths -> Files]
    /\ th \in [Threads -> [pc : Pcs, task : Tasks, todo : SUBSET Paths, path : Paths,
                           text : Files, repo : AnyRepo]]
    /\ edits \subseteq Roles
    /\ incidents \subseteq {"cut", "overlap", "broken"}

Init ==
    /\ bundle \in Versions
    /\ serving = TRUE
    /\ repo \in AnyRepo
    /\ file = [p \in Paths |-> Absent]
    /\ th = [t \in Threads |-> IF t = Boot THEN Done ELSE Idle]
    /\ edits = {} /\ incidents = {}

BundleRoles == IF bundle = 2 THEN Roles ELSE Roles \ NewRoles

Busy == {t \in Threads : th[t].pc \notin {"idle", "done"}}

At(t, pc) == th[t].pc = pc

\* is_automation_ready, load_automation_state
Readable(p) == file[p].kind = "whole"
Ready       == Readable(State)

StateVersion == IF Ready THEN file[State].version ELSE 0

OnDisk(p) == file[p].kind # "absent"

-----------------------------------------------------------------------------
(* Writing one file after the other. *)

\* ProjectAutomationProvisioner writes every file, a patch what it can read.
Skips(t, p) ==
    \/ th[t].task = "patch" /\ ~Readable(p)
    \/ /\ th[t].task = "upgrade"
       /\ IF OnDisk(p) THEN ~Readable(p) \/ file[p].edited \/ bundle <= file[p].version
                       ELSE bundle <= StateVersion

Text(t, p) ==
    IF th[t].task = "patch" THEN [file[p] EXCEPT !.repo = th[t].repo]
                            ELSE Rendered(bundle, th[t].repo)

\* Mutant: the state is written as soon as the manifests are.
AnyOrder(todo) == todo

\* The manifests in any order, then the state.
NextPaths(todo) == IF todo = {State} THEN todo ELSE todo \ {State}

\* The thread is done with a path.  The start is over with its last one.
Leave(t, p) ==
    LET rest == th[t].todo \ {p} IN
    /\ th' = [th EXCEPT ![t] = IF rest = {} THEN Done
                               ELSE [@ EXCEPT !.pc = "choosing", !.todo = rest, !.path = State,
                                              !.text = Absent]]
    /\ serving' = (serving \/ rest = {})

\* A patch and an upgrade read what is there, and do not expect it not to be YAML.
Raises(t, p) == th[t].task # "setup" /\ file[p] = Broken

GiveUp(t, p) ==
    /\ At(t, "choosing") /\ p \in NextPaths(th[t].todo)
    /\ Raises(t, p)
    /\ th' = [th EXCEPT ![t] = Done]
    /\ serving' = TRUE
    /\ incidents' = incidents \cup {"broken"}
    /\ UNCHANGED <<bundle, repo, file, edits>>

Skip(t, p) ==
    /\ At(t, "choosing") /\ p \in NextPaths(th[t].todo)
    /\ ~Raises(t, p) /\ Skips(t, p)
    /\ Leave(t, p)
    /\ UNCHANGED <<bundle, repo, file, edits, incidents>>

Choose(t, p) ==
    /\ At(t, "choosing") /\ p \in NextPaths(th[t].todo)
    /\ ~Skips(t, p)
    /\ th' = [th EXCEPT ![t].pc = "open", ![t].path = p, ![t].text = Text(t, p)]
    /\ UNCHANGED <<bundle, serving, repo, file, edits, incidents>>

Open(t) ==
    /\ At(t, "open")
    /\ file' = [file EXCEPT ![th[t].path] = Truncated]
    /\ th' = [th EXCEPT ![t].pc = "writing"]
    /\ UNCHANGED <<bundle, serving, repo, edits, incidents>>

Write(t) ==
    /\ At(t, "writing")
    /\ file' = [file EXCEPT ![th[t].path] = th[t].text]
    /\ edits' = IF th[t].task = "setup" THEN edits \ {th[t].path} ELSE edits
    /\ Leave(t, th[t].path)
    /\ UNCHANGED <<bundle, repo, incidents>>

-----------------------------------------------------------------------------
(* The requests. *)

MayStart(r) == serving /\ At(r, "idle") /\ Cardinality(Busy) < MaxAtOnce

Met == incidents \cup {e \in {"overlap"} : Busy # {}}

\* discover_gitlab_repos: one of the repositories, whatever the heuristics make of the
\* list, or none when the list is empty or cannot be fetched.
Discoveries == AnyRepo

\* _existing_ready_result
SetUpAlready == Ready /\ StateVersion = bundle /\ \A r \in BundleRoles : OnDisk(r)

\* provision: prerequisites that are missing end it before anything is written.
Setup(r, force, prerequisites) ==
    /\ MayStart(r)
    /\ th' = [th EXCEPT ![r] = IF ~prerequisites \/ (~force /\ SetUpAlready) THEN Done
                               ELSE [Idle EXCEPT !.pc = "merging", !.task = "setup"]]
    /\ incidents' = IF prerequisites THEN Met ELSE incidents
    /\ UNCHANGED <<bundle, serving, repo, file, edits>>

DefaultRepo(saved, found) == IF saved = NoRepo THEN found ELSE saved

\* The discovery may find nothing; a default repository that is set stays.
MergeMapping(r, found) ==
    LET chosen == DefaultRepo(repo, found) IN
    /\ At(r, "merging")
    /\ repo' = chosen
    /\ th' = [th EXCEPT ![r].pc = "choosing", ![r].todo = BundleRoles \cup {State},
                        ![r].repo = chosen]
    /\ UNCHANGED <<bundle, serving, file, edits, incidents>>

\* persist_project_default_repo
ChangeRepo(r, chosen) ==
    /\ MayStart(r)
    /\ repo' = chosen
    /\ th' = [th EXCEPT ![r] = [Idle EXCEPT !.pc = "choosing", !.task = "patch", !.repo = chosen,
                                            !.todo = BundleRoles \cup {State}]]
    /\ incidents' = Met
    /\ UNCHANGED <<bundle, serving, file, edits>>

\* remove_local_project leaves the files of the project where they are.
Remove ==
    /\ Allows("remove") /\ serving /\ Busy = {}
    /\ repo' = NoRepo
    /\ UNCHANGED <<bundle, serving, file, th, edits, incidents>>

Edit(role) ==
    /\ Allows("edit") /\ serving /\ Busy = {}
    /\ Readable(role)
    /\ file' = [file EXCEPT ![role].edited = TRUE]
    /\ edits' = edits \cup {role}
    /\ UNCHANGED <<bundle, serving, repo, th, incidents>>

Break(role) ==
    /\ Allows("break") /\ serving /\ Busy = {}
    /\ Readable(role)
    /\ file' = [file EXCEPT ![role] = Broken]
    /\ edits' = edits \ {role}
    /\ UNCHANGED <<bundle, serving, repo, th, incidents>>

\* The process stops, between two requests or in the middle of one, and starts again, as
\* it is or with a new version.
Restart ==
    /\ Busy = {} \/ Allows("crash")
    /\ bundle' \in {bundle} \cup {v \in {2} : Allows("update")}
    /\ serving' = FALSE
    /\ th' = [t \in Threads |-> IF t = Boot THEN Idle ELSE IF t \in Busy THEN Done ELSE th[t]]
    /\ incidents' = incidents \cup {e \in {"cut"} : Busy \ {Boot} # {}}
    /\ UNCHANGED <<repo, file, edits>>

\* upgrade_all_project_manifests takes the projects that have a state file, one after the
\* other; a broken manifest of one before this one ends it for all.
MissUpgrade ==
    /\ At(Boot, "idle") /\ Allows("break")
    /\ th' = [th EXCEPT ![Boot] = Done]
    /\ serving' = TRUE
    /\ incidents' = incidents \cup {"broken"}
    /\ UNCHANGED <<bundle, repo, file, edits>>

StartUpgrade ==
    /\ At(Boot, "idle")
    /\ IF OnDisk(State)
       THEN /\ th' = [th EXCEPT ![Boot] = [Idle EXCEPT !.pc = "choosing", !.task = "upgrade",
                                                       !.todo = BundleRoles, !.repo = repo]]
            /\ UNCHANGED serving
       ELSE /\ th' = [th EXCEPT ![Boot] = Done]
            /\ serving' = TRUE
    /\ UNCHANGED <<bundle, repo, file, edits, incidents>>

Next ==
    \/ Remove \/ Restart \/ StartUpgrade \/ MissUpgrade
    \/ \E role \in Roles : Edit(role) \/ Break(role)
    \/ \E r \in Requests :
          \/ \E force, prerequisites \in BOOLEAN : Setup(r, force, prerequisites)
          \/ \E found \in Discoveries : MergeMapping(r, found)
          \/ \E chosen \in Repos : ChangeRepo(r, chosen)
    \/ \E t \in Threads :
          \/ \E p \in Paths : GiveUp(t, p) \/ Skip(t, p) \/ Choose(t, p)
          \/ Open(t) \/ Write(t)

Spec == Init /\ [][Next]_vars

-----------------------------------------------------------------------------
(* Properties. *)

\* A project that is ready has a manifest for every role of the plugin that serves it,
\* whatever setups, changes and crashes met and however old the setup is, unless a manifest
\* that is not YAML has stopped a patch or an upgrade, ...
ReadyMeansProvisioned ==
    serving /\ Ready /\ "broken" \notin incidents => \A role \in BundleRoles : OnDisk(role)

\* ... between requests that neither met nor were cut short, the manifests, the state and
\* the mapping name one default repository, ...
RepoAgrees ==
    Busy = {} /\ incidents = {} /\ repo # NoRepo =>
        \A p \in Paths : Readable(p) => file[p].repo = repo

\* ... and no start and no change of the repository takes a manifest back that a human
\* edited.
EditsStand ==
    Busy = {} /\ incidents = {} => \A role \in edits : file[role].edited

ProvisioningHolds == ReadyMeansProvisioned /\ RepoAgrees /\ EditsStand
=============================================================================
