----------------------------- MODULE AgentGuards -----------------------------
(***************************************************************************)
(* The guards a developer or publisher agent works under: a workspace      *)
(* confinement and a scope guard, both registered in the process under the *)
(* name of the task, the role of the thread, and shadow mode.  Several     *)
(* runs share the process, its registries and its environment variables.   *)
(* A tool call is one of a few kinds: what it is for the checks.           *)
(***************************************************************************)
CONSTANTS
    Runs,         \* agent runs the process may have at a time
    WorkOrders,
    Nobody,
    Environment   \* what may happen besides one agent at a time

EnvironmentEvents == {"interleave", "overlap", "factory_failure", "no_contract"}

ASSUME EnvironmentAssumption == Environment \subseteq EnvironmentEvents
ASSUME NobodyAssumption      == Nobody \notin Runs \cup WorkOrders

Allows(event) == event \in Environment

Roles     == {"developer", "publisher"}
Contracts == {"none", "planned", "workspace"}

\* What a file or terminal call touches, besides the repository.
ReadTools    == {"read_skill"}
PathTools    == ReadTools \cup {"write_skill", "write_planned", "write_unplanned",
                                "write_artifact", "write_elsewhere"}
GitWrites    == {"commit"}
Terminal     == GitWrites \cup {"leave", "push", "force_push", "fetch_url"}
VcsWrites    == {"gitlab_write", "github_write"}
McpTools     == VcsWrites \cup {"jira_write", "jira_read"}
Calls        == PathTools \cup Terminal \cup McpTools

VARIABLES
    shadow,     \* LIVINGCOLOR_SHADOW_MODE, fixed when the process starts
    run,        \* the runs and what their threads keep
    confined,   \* workspace_confinement._active_guards: the run that made a task's guard
    scoped,     \* scope_enforcement._active_guards
    cwd,        \* TERMINAL_CWD
    escaped,    \* observed: forbidden calls that were carried out
    incidents   \* observed

vars == <<shadow, run, confined, scoped, cwd, escaped, incidents>>

\* delivery-dev-<work order> and delivery-publish-<work order>
Tasks == Roles \X WorkOrders

TaskOf(role, w) == <<role, w>>

Task(r) == TaskOf(run[r].role, run[r].wo)

Resting == {"idle", "stopped", "accepted", "failed"}
Pcs     == Resting \cup {"activated", "talking", "talked", "unscoped"}

NoRun == [pc |-> "idle", wo |-> Nobody, role |-> "developer", merging |-> FALSE,
          contract |-> "none", prev |-> Nobody, kept |-> Nobody, confinement |-> "open",
          scope |-> "open", refused |-> FALSE, created |-> FALSE]

TypeOK ==
    /\ shadow \in BOOLEAN
    /\ run \in [Runs -> [pc : Pcs, wo : WorkOrders \cup {Nobody}, role : Roles,
                         merging : BOOLEAN, contract : Contracts,
                         prev : WorkOrders \cup {Nobody}, kept : Runs \cup {Nobody},
                         confinement : {"open", "blocked"}, scope : {"open", "blocked"},
                         refused : BOOLEAN, created : BOOLEAN]]
    /\ confined \in [Tasks -> Runs \cup {Nobody}]
    /\ scoped \in [Tasks -> Runs \cup {Nobody}]
    /\ cwd \in WorkOrders \cup {Nobody}
    /\ escaped \subseteq Roles \X Calls
    /\ incidents \subseteq EnvironmentEvents

Init ==
    /\ shadow \in BOOLEAN
    /\ run = [r \in Runs |-> NoRun]
    /\ confined = [t \in Tasks |-> Nobody]
    /\ scoped = [t \in Tasks |-> Nobody]
    /\ cwd = Nobody
    /\ escaped = {}
    /\ incidents = {}

At(r, pc) == run[r].pc = pc
Go(r, pc) == run' = [run EXCEPT ![r].pc = pc]

-----------------------------------------------------------------------------
(* The checks.  A guard is named by the run that registered it. *)

\* WorkspaceConfinementGuard: paths outside of the root, and leaving it.
OutsideRoot(call) == call \in {"write_skill", "write_elsewhere", "leave"}

\* check_path_against_contract, evaluate_terminal_command
OutOfScope(contract, call) ==
    \/ call \in {"write_artifact", "write_elsewhere", "leave"}
    \/ contract = "planned" /\ call = "write_unplanned"

DeniedByPolicy(r, speaker, call) ==
    \/ call = "force_push"
    \/ speaker = "publisher" /\ call = "fetch_url"
    \/ run[r].role # "publisher" /\ ~run[r].merging /\ call = "push"
    \/ ~run[r].merging /\ call \in GitWrites

\* A guard that has refused a call refuses every later one.
ConfinementRefuses(r, call) ==
    LET g == confined[Task(r)] IN
    /\ call \in PathTools \cup Terminal
    /\ g # Nobody
    /\ run[g].confinement = "blocked" \/ OutsideRoot(call)

ScopeRefuses(r, call) ==
    LET g == scoped[Task(r)] IN
    /\ call \in (PathTools \ ReadTools) \cup Terminal
    /\ g # Nobody
    /\ \/ run[g].scope = "blocked"
       \/ OutOfScope(run[g].contract, call)
       \/ DeniedByPolicy(g, run[r].role, call)

\* check_terminal_command
ShadowRefusesCommand(call) == shadow /\ call \in {"push", "force_push"} \cup GitWrites

\* check_mcp_tool: in standard mode VCS writes are the publisher's.
McpRefuses(role, call) ==
    \/ shadow /\ call \in {"jira_write", "gitlab_write"}
    \/ call \in VcsWrites /\ role # "publisher"

-----------------------------------------------------------------------------
(* A run: HermesDeveloperAgent.execute and HermesPublisherAgent.execute. *)

\* A slot stands for the objects of its run as long as something refers to them.
Referred(r) ==
    \/ \E t \in Tasks : r \in {confined[t], scoped[t]}
    \/ \E s \in Runs \ {r} : run[s].kept = r

\* The engine starts a run, others may have theirs under way.  Activation pins the
\* directory and registers the confinement, replacing one of the same task.
Activate(r, w, role, merging, contract) ==
    LET others == {s \in Runs \ {r} : run[s].pc \notin Resting} IN
    /\ run[r].pc \in Resting
    /\ ~Referred(r)
    /\ role = "publisher" => ~merging /\ contract = "workspace"
    /\ contract = "none" => Allows("no_contract")
    /\ others # {} => Allows("interleave")
    /\ (\E s \in others : Task(s) = TaskOf(role, w)) => Allows("overlap")
    /\ run' = [run EXCEPT ![r] = [NoRun EXCEPT !.pc = "activated", !.wo = w, !.role = role,
                                     !.merging = merging, !.contract = contract, !.prev = cwd]]
    /\ cwd' = w
    /\ confined' = [confined EXCEPT ![TaskOf(role, w)] = r]
    /\ incidents' = incidents
                    \cup {e \in {"interleave"} : others # {}}
                    \cup {e \in {"overlap"} : \E s \in others : Task(s) = TaskOf(role, w)}
                    \cup {e \in {"no_contract"} : contract = "none"}
    /\ UNCHANGED <<shadow, scoped, escaped>>

\* guard_from_context; the developer keeps the confinement it finds registered.
RegisterScope(r, pc) ==
    /\ At(r, "activated")
    /\ run' = [run EXCEPT ![r].pc = pc, ![r].kept = confined[Task(r)]]
    /\ scoped' = IF run[r].contract = "none" THEN scoped ELSE [scoped EXCEPT ![Task(r)] = r]

StartAgent(r) ==
    /\ RegisterScope(r, "talking")
    /\ UNCHANGED <<shadow, confined, cwd, escaped, incidents>>

\* The developer builds its agent before the try that removes the guards.
DeveloperFactoryFails(r) ==
    /\ Allows("factory_failure")
    /\ run[r].role = "developer"
    /\ RegisterScope(r, "failed")
    /\ incidents' = incidents \cup {"factory_failure"}
    /\ UNCHANGED <<shadow, confined, cwd, escaped>>

PublisherFactoryFails(r) ==
    /\ Allows("factory_failure")
    /\ run[r].role = "publisher"
    /\ RegisterScope(r, "talked")
    /\ UNCHANGED <<shadow, confined, cwd, escaped, incidents>>

\* What an agent must not do, whatever guards are registered.
Forbidden(r, call) ==
    \/ call \in {"write_skill", "write_elsewhere", "leave", "force_push"}
    \/ run[r].contract = "planned" /\ call = "write_unplanned"
    \/ ~run[r].merging /\ call \in GitWrites
    \/ run[r].role = "developer" /\ ~run[r].merging /\ call = "push"
    \/ run[r].role = "developer" /\ call \in VcsWrites
    \/ run[r].role = "publisher" /\ call = "fetch_url"
    \/ shadow /\ call \in {"push", "jira_write", "gitlab_write"} \cup GitWrites

\* The guard that refuses remembers it, and the agent is told.
CallConfined(r, call) ==
    /\ At(r, "talking")
    /\ ConfinementRefuses(r, call)
    /\ run' = [run EXCEPT ![confined[Task(r)]].confinement = "blocked", ![r].refused = TRUE]
    /\ UNCHANGED <<shadow, confined, scoped, cwd, escaped, incidents>>

CallOutOfScope(r, call) ==
    /\ At(r, "talking")
    /\ ~ConfinementRefuses(r, call)
    /\ ScopeRefuses(r, call)
    /\ run' = [run EXCEPT ![scoped[Task(r)]].scope = "blocked", ![r].refused = TRUE]
    /\ UNCHANGED <<shadow, confined, scoped, cwd, escaped, incidents>>

Refused(r, call) ==
    \/ ConfinementRefuses(r, call)
    \/ ScopeRefuses(r, call)
    \/ ShadowRefusesCommand(call)
    \/ McpRefuses(run[r].role, call)

CallCarriedOut(r, call) ==
    /\ At(r, "talking")
    /\ ~Refused(r, call)
    /\ run' = [run EXCEPT ![r].created = @ \/ (run[r].role = "publisher" /\ call \in VcsWrites)]
    /\ escaped' = escaped \cup {c \in {<<run[r].role, call>>} : Forbidden(r, call)}
    /\ UNCHANGED <<shadow, confined, scoped, cwd, incidents>>

\* The conversation ends, well or badly.
EndConversation(r) ==
    /\ At(r, "talking")
    /\ Go(r, "talked")
    /\ UNCHANGED <<shadow, confined, scoped, cwd, escaped, incidents>>

\* clear_scope_guard removes what is registered, whoever registered it.
ClearScope(r) ==
    /\ At(r, "talked")
    /\ Go(r, "unscoped")
    /\ scoped' = [scoped EXCEPT ![Task(r)] = Nobody]
    /\ UNCHANGED <<shadow, confined, cwd, escaped, incidents>>

\* deactivate_workspace_runtime.  What is left of a run is its outcome, and its
\* confinement for whoever kept that.
Deactivate(r, outcome) ==
    LET kept == \E s \in Runs \ {r} : run[s].kept = r IN
    /\ At(r, "unscoped")
    /\ confined' = [confined EXCEPT ![Task(r)] = Nobody]
    /\ cwd' = run[r].prev
    /\ run' = [run EXCEPT ![r] = [NoRun EXCEPT
                 !.pc = outcome, !.role = run[r].role,
                 !.confinement = IF kept THEN run[r].confinement ELSE "open",
                 !.refused = outcome = "accepted" /\ run[r].refused]]
    /\ UNCHANGED <<shadow, scoped, escaped, incidents>>

\* Mutant: only the scope guard is asked.
OnlyScopeBlocked(r) == run[r].contract # "none" /\ run[r].scope = "blocked"

Blocked(r) ==
    \/ run[run[r].kept].confinement = "blocked"
    \/ run[r].contract # "none" /\ run[r].scope = "blocked"

\* A developer whose guard refused something hands over a blocked result.
JudgeDeveloper(r) ==
    /\ run[r].role = "developer"
    /\ Deactivate(r, IF Blocked(r) THEN "stopped" ELSE "accepted")

\* A publisher is judged by the merge request it says it created.
JudgePublisher(r) ==
    /\ run[r].role = "publisher"
    /\ \/ run[r].created /\ Deactivate(r, "accepted")
       \/ Deactivate(r, "failed")

RunStep(r) ==
    \/ StartAgent(r) \/ DeveloperFactoryFails(r) \/ PublisherFactoryFails(r)
    \/ \E call \in Calls : CallConfined(r, call) \/ CallOutOfScope(r, call)
                           \/ CallCarriedOut(r, call)
    \/ EndConversation(r) \/ ClearScope(r) \/ JudgeDeveloper(r) \/ JudgePublisher(r)

Next ==
    \E r \in Runs :
        \/ \E w \in WorkOrders, role \in Roles, merging \in BOOLEAN, contract \in Contracts :
               Activate(r, w, role, merging, contract)
        \/ RunStep(r)

Spec == Init /\ [][Next]_vars

-----------------------------------------------------------------------------
(* Properties. *)

\* As long as two runs of one task do not overlap and a scope contract exists,
\* whoever else registers and removes guards, fails or works at the same time:
\* no agent does what its role and its work order forbid, ...
NothingForbiddenIsDone ==
    incidents \cap {"overlap", "no_contract"} = {} => escaped = {}

\* ... a developer that was refused something by a guard is not taken as done, ...
StoppedIsNotAccepted ==
    incidents \cap {"overlap", "no_contract"} = {} =>
        \A r \in Runs : At(r, "accepted") /\ run[r].role = "developer" => ~run[r].refused

\* ... and when nobody works, no guard and no directory is left behind.
LeavesNoTrace ==
    (\A r \in Runs : run[r].pc \in Resting) /\ "factory_failure" \notin incidents =>
        /\ \A t \in Tasks : confined[t] = Nobody /\ scoped[t] = Nobody
        /\ "interleave" \notin incidents => cwd = Nobody

GuardsHold == NothingForbiddenIsDone /\ StoppedIsNotAccepted /\ LeavesNoTrace
=============================================================================
