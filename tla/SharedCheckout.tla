--------------------------- MODULE SharedCheckout ---------------------------
(***************************************************************************)
(* The git checkouts in which developer agents work and from which the     *)
(* publisher pushes.  A checkout LivingColor manages is shared by all work *)
(* orders of the project; another one is copied for each work order.       *)
(* Content is abstract: a tree gives, for each path, who changed it.       *)
(* Every sequence of git commands the code runs for one purpose is a step. *)
(***************************************************************************)
EXTENDS FiniteSets

CONSTANTS
    WorkOrders,
    Managed,      \* is_managed_repo_checkout
    Environment   \* what may happen besides a smooth delivery

EnvironmentEvents ==
    {"rejection", "push_failure", "agent_failure", "block", "confinement", "stray_file",
     "late_target", "refresh", "drift", "overlap"}

ASSUME ManagedAssumption     == Managed \in BOOLEAN
ASSUME EnvironmentAssumption == Environment \subseteq EnvironmentEvents
ASSUME NamesAssumption       == WorkOrders \cap {"team", "hotfix", "main", "staging"} = {}

\* The plan's file, another one of the repository, and one that is not in it.
Tracked == {"planned", "unplanned"}
Paths   == Tracked \cup {"new"}
Planned == {"planned"}

Authors  == WorkOrders \cup {"team", "hotfix"}
Trees    == [Paths -> SUBSET Authors]
Branches == WorkOrders \cup {"main", "staging"}
NoTree   == [p \in {} |-> {}]
Pristine == [p \in Paths |-> {}]

\* With drift, the integration branch and the merge target changed one file.
MainTree    == IF "drift" \in Environment THEN [Pristine EXCEPT !["planned"] = {"hotfix"}]
                                          ELSE Pristine
StagingTree == IF "drift" \in Environment THEN [Pristine EXCEPT !["planned"] = {"team"}]
                                          ELSE Pristine

Spaces   == IF Managed THEN {"shared"} ELSE WorkOrders
Space(w) == IF Managed THEN "shared" ELSE w

VARIABLES
    repo,          \* per space: current branch, working tree, index and branch tips
    remoteTarget,  \* the merge target branch exists on the remote
    wo             \* per work order: what its nodes, gates and running agent know

vars == <<repo, remoteTarget, wo>>

Phases   == {"implement", "merge"}
Idle     == {"queued", "published", "development_failed", "publication_failed"}
Stations == Idle \cup {"requeued", "developing", "code_review", "draft_review", "publishing"}

TypeOK ==
    /\ repo \in [Spaces -> [head : Branches, tree : Trees, index : Trees,
                            tips : [Branches -> Trees \cup {NoTree}]]]
    /\ remoteTarget \in BOOLEAN
    /\ wo \in [WorkOrders ->
                [at : Stations, phase : Phases, feedback : BOOLEAN,
                 baseline : Trees \cup {NoTree}, targetKnown : BOOLEAN,
                 base : Trees, guard : {"open", "blocked", "halted"},
                 reviewed : Trees, flagged : BOOLEAN, pushed : Trees \cup {NoTree}]]

Clone == [head |-> "main", tree |-> MainTree, index |-> MainTree,
          tips |-> [b \in Branches |-> IF b = "main" THEN MainTree ELSE NoTree]]

Init ==
    /\ repo = [s \in Spaces |-> Clone]
    /\ remoteTarget \in BOOLEAN
    /\ wo = [w \in WorkOrders |->
               [at |-> "queued", phase |-> "implement", feedback |-> FALSE,
                baseline |-> NoTree, targetKnown |-> FALSE, base |-> MainTree,
                guard |-> "open", reviewed |-> MainTree, flagged |-> FALSE, pushed |-> NoTree]]

-----------------------------------------------------------------------------
(* Git, as the code uses it. *)

Tip(r) == r.tips[r.head]

\* A change of p that is not committed goes along with a checkout of tree t.
Carried(r, p, t) == t[p] = Tip(r)[p] \/ r.index[p] = t[p]

\* git checkout: refused when it would overwrite a change.
MayCheckout(r, t) ==
    \A p \in Paths : Carried(r, p, t) \/ (r.tree[p] = r.index[p] /\ r.index[p] = Tip(r)[p])

Checkout(r, b, t) ==
    [head  |-> b,
     tree  |-> [p \in Paths |-> IF Carried(r, p, t) THEN r.tree[p] ELSE t[p]],
     index |-> [p \in Paths |-> IF Carried(r, p, t) THEN r.index[p] ELSE t[p]],
     tips  |-> [r.tips EXCEPT ![b] = t]]

StageAll(r)  == [r EXCEPT !.index = r.tree]
CommitAll(r) == [r EXCEPT !.index = r.tree, !.tips = [@ EXCEPT ![r.head] = r.tree]]

InTree(t, p) == p \in Tracked \/ t[p] # {}

\* git reset --hard: what git does not know stays.
ResetHard(r) ==
    [r EXCEPT !.index = Tip(r),
              !.tree  = [p \in Paths |-> IF InTree(Tip(r), p) \/ r.index[p] # {}
                                         THEN Tip(r)[p] ELSE r.tree[p]]]

\* rollback_to_clean: git checkout <baseline> -- . and git clean -fd.  A new
\* file that was staged is neither in the baseline nor unknown to git.
RollbackToClean(r, base) ==
    [r EXCEPT !.index = [p \in Paths |-> IF InTree(base, p) THEN base[p] ELSE r.index[p]],
              !.tree  = [p \in Paths |-> IF InTree(base, p) THEN base[p]
                                         ELSE IF r.index[p] # {} THEN r.tree[p] ELSE {}]]

-----------------------------------------------------------------------------
(* Branches *)

\* resolve_merge_target_branch: a branch that is only on the remote is checked out.
TargetIsRemote(r) == r.tips["staging"] = NoTree /\ remoteTarget
TargetRefused(r)  == TargetIsRemote(r) /\ ~MayCheckout(r, StagingTree)
ResolveTarget(r)  == IF TargetIsRemote(r) THEN Checkout(r, "staging", StagingTree) ELSE r

\* ensure_delivery_branch, from the integration branch.
EnsureRefused(r) == TargetRefused(r) \/ ~MayCheckout(ResolveTarget(r), r.tips["main"])

\* Mutant: the branch starts where the checkout is.
BranchFromHead(r, w) ==
    [r EXCEPT !.head = w, !.tips = [@ EXCEPT ![w] = Tip(r)]]

EnsureDeliveryBranch(r, w) ==
    LET m == Checkout(ResolveTarget(r), "main", r.tips["main"])
    IN  [m EXCEPT !.head = w, !.tips = [@ EXCEPT ![w] = Tip(m)]]

-----------------------------------------------------------------------------
(* The developer agent *)

\* prepare_development_workspace keeps the tree of a merge conflict, and of a
\* retry with feedback once a run has left its baseline in the payload.
ReusesWorkspace(w) ==
    wo[w].phase = "merge" \/ (wo[w].feedback /\ wo[w].baseline # NoTree)

\* The queue consumer starts a work order when no other one is active.
Alone(w) == "overlap" \in Environment \/ \A u \in WorkOrders \ {w} : wo[u].at \in Idle

\* The checkout a fresh run starts from.
FreshCheckout(w) == IF Managed THEN repo["shared"] ELSE Clone

StartRun(w, r, base) ==
    /\ repo' = [repo EXCEPT ![Space(w)] = r]
    /\ wo' = [wo EXCEPT ![w] = [@ EXCEPT !.at = "developing", !.base = base, !.guard = "open"]]

Fails(w, r) ==
    /\ repo' = [repo EXCEPT ![Space(w)] = r]
    /\ wo' = [wo EXCEPT ![w].at = "development_failed"]

PrepareFresh(w) ==
    /\ ~ReusesWorkspace(w)
    /\ LET r == FreshCheckout(w)
           d == EnsureDeliveryBranch(r, w)
       IN  IF EnsureRefused(r)
           THEN Fails(w, IF TargetRefused(r) THEN r ELSE ResolveTarget(r))
           ELSE StartRun(w, d, Tip(d))

\* A run without a merge target in its payload looks for one again, which
\* checks it out when it has appeared in the meantime.
PrepareReused(w) ==
    /\ ReusesWorkspace(w)
    /\ LET r    == repo[Space(w)]
           look == ~wo[w].targetKnown
           base == IF wo[w].baseline # NoTree THEN wo[w].baseline ELSE Tip(r)
       IN  IF look /\ TargetRefused(r)
           THEN Fails(w, r)
           ELSE StartRun(w, IF look THEN ResolveTarget(r) ELSE r, base)

Prepare(w) ==
    /\ wo[w].at \in {"queued", "requeued"}
    /\ Alone(w)
    /\ PrepareFresh(w) \/ PrepareReused(w)
    /\ UNCHANGED remoteTarget

Working(w) == wo[w].at = "developing" /\ wo[w].guard = "open"

Change(r, w, p) == [r EXCEPT !.tree = [r.tree EXCEPT ![p] = @ \cup {w}]]

\* The paths git diff --name-only <baseline> lists: not a file git does not know.
Touched(r, base) ==
    { p \in Paths : r.tree[p] # base[p] /\ (InTree(base, p) \/ r.index[p] # {}) }

\* check_path_against_contract: in a managed checkout any path is in scope.
OutOfScope(paths) == IF Managed THEN {} ELSE paths \ Planned

\* The agent writes a file: check_write_path.
WriteFile(w) ==
    /\ Working(w)
    /\ \E p \in Paths :
         IF OutOfScope({p}) # {}
         THEN /\ "block" \in Environment
              /\ wo' = [wo EXCEPT ![w].guard = "blocked"]
              /\ UNCHANGED repo
         ELSE /\ p = "new" => "stray_file" \in Environment
              /\ repo' = [repo EXCEPT ![Space(w)] = Change(@, w, p)]
              /\ UNCHANGED wo
    /\ UNCHANGED remoteTarget

\* A command changes a file it does not name; post_terminal_after looks at the
\* tree and rolls it back.
RunCommand(w) ==
    /\ Working(w)
    /\ \E p \in Paths \ Planned :
         LET r   == Change(repo[Space(w)], w, p)
             bad == OutOfScope(Touched(r, wo[w].base)) # {}
         IN  /\ p = "new" => "stray_file" \in Environment
             /\ bad => "block" \in Environment
             /\ repo' = [repo EXCEPT ![Space(w)] =
                           IF bad THEN RollbackToClean(r, wo[w].base) ELSE r]
             /\ wo' = IF bad THEN [wo EXCEPT ![w].guard = "blocked"] ELSE wo
    /\ UNCHANGED remoteTarget

\* evaluate_terminal_command: a commit, a merge or a push is denied, except to
\* resolve a merge conflict.
DeniedByPolicy(w) == wo[w].phase = "implement"

\* A command names a path the contract does not allow.
NamesOutOfScope == OutOfScope(Paths) # {}

\* check_terminal_before: the command does not run.
DeniedCommand(w) ==
    /\ "block" \in Environment
    /\ Working(w)
    /\ DeniedByPolicy(w) \/ NamesOutOfScope
    /\ wo' = [wo EXCEPT ![w].guard = "blocked"]
    /\ UNCHANGED <<repo, remoteTarget>>

\* The agent of a merge conflict merges the target into the branch.
MergeTarget(w) ==
    /\ Working(w) /\ wo[w].phase = "merge"
    /\ LET r == repo[Space(w)]
           t == r.tips["staging"]
       IN  /\ t # NoTree /\ r.head # "staging" /\ r.index = Tip(r) /\ r.tree = r.index
           /\ repo' = [repo EXCEPT ![Space(w)] =
                         CommitAll([r EXCEPT !.tree = [p \in Paths |-> r.tree[p] \cup t[p]]])]
    /\ UNCHANGED <<remoteTarget, wo>>

\* WorkspaceConfinementGuard.block: nothing is rolled back.
LeaveWorkspace(w) ==
    /\ "confinement" \in Environment
    /\ Working(w)
    /\ wo' = [wo EXCEPT ![w].guard = "halted"]
    /\ UNCHANGED <<repo, remoteTarget>>

\* The agent's conversation raises an exception.
AgentFails(w) ==
    /\ "agent_failure" \in Environment
    /\ wo[w].at = "developing"
    /\ Fails(w, repo[Space(w)])
    /\ UNCHANGED remoteTarget

\* What the code review shows is the tree, relative to the baseline.
OpenCodeReview(w, tree, flagged) ==
    wo' = [wo EXCEPT ![w] = [@ EXCEPT !.at = "code_review", !.reviewed = tree,
                                      !.flagged = flagged]]

\* A blocked run gets a review with an empty patch and the reason of the block.
FinishBlocked(w) ==
    /\ wo[w].at = "developing" /\ wo[w].guard # "open"
    /\ repo' = IF wo[w].guard = "blocked"
               THEN [repo EXCEPT ![Space(w)] = RollbackToClean(@, wo[w].base)] ELSE repo
    /\ OpenCodeReview(w, wo[w].base, TRUE)
    /\ UNCHANGED remoteTarget

\* cleanup_forbidden_artifacts
CleanUp(r, base) ==
    IF OutOfScope(Touched(r, base)) # {} THEN RollbackToClean(r, base) ELSE r

\* Mutant: git add -A is missing, the diff shows what was staged before.
CollectStaged(r) == r

\* collect_patch_from_workspace, and the tree the collected patch describes.
Collect(r)   == StageAll(r)
Collected(r) == Collect(r).index

\* run_project_tests: the tests may leave a file behind.
AfterTests(r, w) ==
    {r} \cup IF "stray_file" \in Environment THEN {Change(r, w, "new")} ELSE {}

\* The run ends.  An empty patch is an error, except after a merge conflict.
Finish(w) ==
    /\ Working(w)
    /\ \E tested \in AfterTests(repo[Space(w)], w) :
         LET r     == CleanUp(tested, wo[w].base)
             clean == OutOfScope(Touched(r, wo[w].base)) = {}
             patch == IF clean THEN Collected(r) ELSE wo[w].base
             s     == IF clean THEN Collect(r) ELSE r
         IN  IF patch = wo[w].base /\ wo[w].phase = "implement"
             THEN Fails(w, s)
             ELSE /\ repo' = [repo EXCEPT ![Space(w)] = s]
                  /\ wo' = [wo EXCEPT ![w] =
                               [@ EXCEPT !.at = "code_review", !.reviewed = patch,
                                         !.flagged = FALSE, !.baseline = wo[w].base,
                                         !.targetKnown = s.tips["staging"] # NoTree]]
    /\ UNCHANGED remoteTarget

-----------------------------------------------------------------------------
(* Decisions, the merge check and the publication *)

ApproveReview(w) ==
    /\ wo[w].at = "code_review"
    /\ wo' = [wo EXCEPT ![w].at = "draft_review"]
    /\ UNCHANGED <<repo, remoteTarget>>

RejectReview(w) ==
    /\ "rejection" \in Environment
    /\ wo[w].at = "code_review"
    /\ wo' = [wo EXCEPT ![w] = [@ EXCEPT !.at = "requeued", !.feedback = TRUE]]
    /\ UNCHANGED <<repo, remoteTarget>>

\* attempt_merge_into_target_branch: the branch the checkout is on is merged
\* into the target; git refuses when changes are staged.
Merges(r, f) ==
    LET t == r.tips["staging"]
    IN  \E p \in Paths : f[p] # {} /\ t[p] # {} /\ ~(t[p] \subseteq f[p])

Conflicts(r) ==
    /\ r.tips["staging"] # NoTree
    /\ MayCheckout(r, r.tips["staging"])
    /\ LET s == Checkout(r, "staging", r.tips["staging"])
       IN  s.index = Tip(s) /\ s.tree = s.index /\ Merges(s, Tip(r))

\* The check carries changes to the target and comes back to the branch it
\* found, which is the target itself when it had to be created.
ThereAndBack(r) ==
    LET s == Checkout(r, "staging", r.tips["staging"])
    IN  IF r.tips["staging"] = NoTree \/ ~MayCheckout(r, r.tips["staging"]) THEN r
        ELSE IF MayCheckout(s, Tip(r)) THEN Checkout(s, r.head, Tip(r)) ELSE s

AfterMergeCheck(r) == IF TargetRefused(r) THEN r ELSE ThereAndBack(ResolveTarget(r))

ApproveDraft(w) ==
    /\ wo[w].at = "draft_review"
    /\ LET r == repo[Space(w)]
       IN  /\ repo' = [repo EXCEPT ![Space(w)] = AfterMergeCheck(r)]
           /\ wo' = IF ~TargetRefused(r) /\ Conflicts(ResolveTarget(r))
                    THEN [wo EXCEPT ![w] = [@ EXCEPT !.at = "requeued", !.phase = "merge"]]
                    ELSE [wo EXCEPT ![w].at = "publishing"]
    /\ UNCHANGED remoteTarget

\* Mutant: it commits where the checkout is.
OnAnyBranch(r, w) == TRUE

\* commit_delivery_work refuses to commit on another branch.
OnDeliveryBranch(r, w) == r.head = w

\* HermesPublisherAgent.execute
Publish(w) ==
    /\ wo[w].at = "publishing"
    /\ LET r == repo[Space(w)]
           c == CommitAll(r)
       IN  IF OnDeliveryBranch(r, w)
           THEN /\ repo' = [repo EXCEPT ![Space(w)] = c]
                /\ \/ wo' = [wo EXCEPT ![w] = [@ EXCEPT !.at = "published", !.pushed = c.tips[w]]]
                   \/ /\ "push_failure" \in Environment
                      /\ wo' = [wo EXCEPT ![w].at = "publication_failed"]
           ELSE /\ wo' = [wo EXCEPT ![w].at = "publication_failed"]
                /\ UNCHANGED repo
    /\ UNCHANGED remoteTarget

\* prepare_work_order_resume
Resume(w) ==
    /\ wo[w].at \in {"development_failed", "publication_failed"}
    /\ Alone(w)
    /\ wo' = [wo EXCEPT ![w].at = IF @ = "development_failed" THEN "requeued" ELSE "publishing"]
    /\ UNCHANGED <<repo, remoteTarget>>

\* ensure_managed_checkout for the analysis of another ticket: only the
\* integration and target branches follow a remote branch.
Refresh ==
    /\ "refresh" \in Environment /\ Managed
    /\ repo["shared"].head \in {"main", "staging"}
    /\ repo' = [repo EXCEPT !["shared"] = ResetHard(@)]
    /\ UNCHANGED <<remoteTarget, wo>>

\* The team creates the merge target while deliveries are under way.
TargetAppears ==
    /\ "late_target" \in Environment
    /\ remoteTarget' = TRUE
    /\ UNCHANGED <<repo, wo>>

Next ==
    \/ Refresh \/ TargetAppears
    \/ \E w \in WorkOrders :
         \/ Prepare(w) \/ WriteFile(w) \/ RunCommand(w) \/ DeniedCommand(w) \/ MergeTarget(w)
         \/ LeaveWorkspace(w) \/ AgentFails(w) \/ FinishBlocked(w) \/ Finish(w)
         \/ ApproveReview(w) \/ RejectReview(w) \/ ApproveDraft(w) \/ Publish(w) \/ Resume(w)

Spec == Init /\ [][Next]_vars

-----------------------------------------------------------------------------
(* Properties *)

\* What a review shows and what is pushed for a work order are not the work of
\* another: prepare_development_workspace isolates work orders even where they
\* share a checkout.
PatchIsOwn ==
    \A w \in DOMAIN wo : \A p \in Paths :
        /\ wo[w].reviewed[p] \cap WorkOrders \subseteq {w}
        /\ wo[w].pushed # NoTree => wo[w].pushed[p] \cap WorkOrders \subseteq {w}

\* The publisher commits what it finds in the tree minutes to days after the
\* review: it is what the human saw, unless the human approved a review that
\* said the run was blocked.
PublishesWhatWasReviewed ==
    \A w \in DOMAIN wo :
        wo[w].pushed # NoTree /\ ~wo[w].flagged => wo[w].pushed = wo[w].reviewed

\* No delivery is committed on the integration branch or on the merge target,
\* although both are checked out on the way.
IntegrationStaysClean ==
    \A s \in DOMAIN repo : \A b \in {"main", "staging"} :
        repo[s].tips[b] # NoTree =>
            \A p \in Paths : repo[s].tips[b][p] \cap WorkOrders = {}
=============================================================================
