-------------------------- MODULE DeliveryPipeline --------------------------
(***************************************************************************)
(* The delivery of one work order: the execution graph, the orchestrator   *)
(* ticks that run its nodes, the gates where a human decides, the merge    *)
(* request draft, resume and server restarts.                              *)
(*                                                                         *)
(* Grain.  Every `with connect()` block of the source holds the process    *)
(* wide _db_lock, so it is one step.  What happens between two blocks (an  *)
(* agent run, a merge attempt, the rest of an HTTP handler) is a place     *)
(* where any other thread may move, so a handler made of several blocks is *)
(* several steps with its position in `handler`, and a tick is several     *)
(* steps with its position in `tick`.                                      *)
(*                                                                         *)
(* current_stage, payload texts, events and timestamps steer nothing here  *)
(* and are left out; of the node payloads only the developer phase and the *)
(* draft id are kept, because the engine branches on them.                 *)
(***************************************************************************)
EXTENDS Naturals

CONSTANTS
    MaxGates,      \* bound: gates one work order may open
    MaxDrafts,     \* bound: merge request drafts one work order may have
    Ticks,         \* bound: threads that may run orchestrator.tick at a time
    Handlers,      \* bound: gate decisions in progress at a time
    ShadowMode,    \* LIVINGCOLOR_SHADOW_MODE
    Legacy,        \* the database has graphs made before QA was merged into development
    Environment    \* what may happen around the code in this instance

EnvironmentEvents ==
    { "clarification",     \* the planner asks for the repository
      "agent_failure",     \* an agent run raises
      "refused_failure",   \* the record that the failure reopens is refused by its index
      "merge_conflict",    \* the approved branch does not merge
      "mr_rejection",      \* a human rejects the merge request draft
      "crash",             \* the server process restarts
      "long_run",          \* an agent run may outlast the 90 s of resume
      "resume",            \* resume is clicked when nothing moves and no gate waits
      "impatient_resume" } \* resume is clicked at any time

ASSUME ConstantsAssumption ==
    /\ MaxGates \in Nat \ {0}
    /\ MaxDrafts \in Nat
    /\ ShadowMode \in BOOLEAN
    /\ Legacy \in BOOLEAN
    /\ Environment \subseteq EnvironmentEvents

GateIds  == 1..MaxGates
DraftIds == 1..MaxDrafts
NoDraft  == 0

NodeTypes == { "implementation_plan", "development", "qa_validation",
               "mr_creation", "jira_update" }

\* Position of a node type in DEFAULT_GRAPH, which is also its rowid order.
Rank(n) == CASE n = "implementation_plan" -> 1
             [] n = "development"         -> 2
             [] n = "qa_validation"       -> 3
             [] n = "mr_creation"         -> 4
             [] n = "jira_update"         -> 5

DependsOn(n) == CASE n = "implementation_plan" -> {}
                  [] n = "development"         -> {"implementation_plan"}
                  [] n = "qa_validation"       -> {"development"}
                  [] n = "mr_creation"         -> {"qa_validation"}
                  [] n = "jira_update"         -> {"mr_creation"}

ExecutableNodes == { "implementation_plan", "development", "mr_creation" }
NodeStatus      == { "pending", "ready", "running", "completed", "failed" }
Phases          == { "implement", "merge_conflict_resolution" }
\* models.WorkOrderStatus, and what the code writes besides.
DocumentedWorkOrderStatus ==
    { "intake", "running", "awaiting_gate", "completed", "failed", "cancelled" }
WorkOrderStatus == DocumentedWorkOrderStatus \cup { "in_progress" }

PlanGates == { "analysis_plan", "repo_clarification" }
GateTypes == PlanGates \cup { "code_review", "merge_request_review", "jira_update" }
NoGate    == [type |-> "none", status |-> "absent", draft |-> NoDraft]

VARIABLES
    node,       \* graph_nodes.status, by node type
    devPhase,   \* developerPhase in the development node's payload
    nodeDraft,  \* draftId in the mr_creation node's payload
    gate,       \* the gates table of this work order
    draft,      \* merge_request_drafts.status, by draft
    woStatus,   \* work_orders.status
    scope,      \* whether scope_contracts has a row for this work order
    tick,       \* the threads inside orchestrator.tick
    handler,    \* the gate decisions between two of their transactions
    published   \* drafts whose merge request exists on the VCS (external)

vars == << node, devPhase, nodeDraft, gate, draft, woStatus, scope, tick,
           handler, published >>

TickPcs == { "idle", "waiting", "reconcile", "prepare", "running" }
HandlerPcs == { "idle", "scope_contract", "save_draft", "attach_draft", "open_mr_gate",
                "approve_gate", "approve_draft", "merge", "requeue",
                "reject_gate", "reject_draft" }

IdleTick    == [pc |-> "idle", locked |-> FALSE, node |-> "none",
                phase |-> "implement", draft |-> NoDraft]
WaitingTick == [IdleTick EXCEPT !.pc = "waiting", !.locked = TRUE]
DirectTick  == [IdleTick EXCEPT !.pc = "reconcile"]
IdleHandler == [pc |-> "idle", gate |-> 0, draft |-> NoDraft]

GateRows == [type: GateTypes \cup {"none"},
             status: {"absent", "pending", "approved", "rejected"},
             draft: DraftIds \cup {NoDraft}]
TickStates == [pc: TickPcs, locked: BOOLEAN, node: ExecutableNodes \cup {"none"},
               phase: Phases, draft: DraftIds \cup {NoDraft}]
HandlerStates == [pc: HandlerPcs, gate: GateIds \cup {0}, draft: DraftIds \cup {NoDraft}]

TypeOK ==
    /\ node \in [NodeTypes -> NodeStatus]
    /\ devPhase \in Phases
    /\ nodeDraft \in DraftIds \cup {NoDraft}
    /\ gate \in [GateIds -> GateRows]
    /\ draft \in [DraftIds -> {"absent", "awaiting_review", "approved", "rejected"}]
    /\ woStatus \in WorkOrderStatus
    /\ scope \in BOOLEAN
    /\ tick \in [Ticks -> TickStates]
    /\ handler \in [Handlers -> HandlerStates]
    /\ published \in SUBSET (DraftIds \cup {NoDraft})

-----------------------------------------------------------------------------
(* What the code reads *)

\* has_pending_gate
HasPendingGate == \E g \in GateIds : gate[g].status = "pending"

Approved(type) == \E g \in GateIds : gate[g].type = type /\ gate[g].status = "approved"

\* Mutant: a decided gate can be decided again.
HasGateType(g, type) == gate[g].type = type

\* _require_pending_gate, for a gate of this type
IsPending(g, type) == gate[g].type = type /\ gate[g].status = "pending"

Running(t, n) == tick[t].pc = "running" /\ tick[t].node = n

LiveRun(n) == \E t \in Ticks : Running(t, n)

TickLockFree ==
    \A t \in Ticks : ~(tick[t].locked /\ tick[t].pc \in {"reconcile", "prepare", "running"})

Quiet == /\ \A t \in Ticks : tick[t].pc = "idle"
         /\ \A h \in Handlers : handler[h].pc = "idle"

\* refresh_node_readiness: one pass over the statuses read at its start.
RefreshNodeReadiness(ns) ==
    [n \in NodeTypes |->
        IF ns[n] = "pending" /\ \A m \in DependsOn(n) : ns[m] = "completed"
        THEN "ready" ELSE ns[n]]

FindReadyNodes(ns) == { n \in ExecutableNodes : ns[n] = "ready" }

-----------------------------------------------------------------------------
(* What the code writes *)

OpenGate(type, d) ==
    \E g \in GateIds :
        /\ gate[g].status = "absent"
        /\ \A k \in GateIds : gate[k].status = "absent" => g <= k
        /\ gate' = [gate EXCEPT ![g] = [type |-> type, status |-> "pending", draft |-> d]]
        /\ woStatus' = "awaiting_gate"

DecideGate(g, decision) == gate' = [gate EXCEPT ![g].status = decision]

\* Mutants of _next_state_after_approval.
StillAwaiting(type) == CASE type = "jira_update" -> "completed"
                         [] type = "code_review" -> "awaiting_gate"
                         [] OTHER                -> "running"
CompletedByReview(type) ==
    IF type \in {"code_review", "jira_update"} THEN "completed" ELSE "running"

\* _next_state_after_approval
NextStatusAfterApproval(type) == IF type = "jira_update" THEN "completed" ELSE "running"

\* Mutant: the thread is created and never started.
ThreadNeverStarts(t) == tick[t].pc = "idle" /\ tick' = tick

\* schedule_orchestrator_tick: a daemon thread that will wait for the tick lock.
ScheduleTick(t) == /\ tick[t].pc = "idle"
                   /\ tick' = [tick EXCEPT ![t] = WaitingTick]

EndTick(t) == tick' = [tick EXCEPT ![t] = IdleTick]

HandlerGoes(h, pc) == handler' = [handler EXCEPT ![h].pc = pc]
HandlerDone(h)     == handler' = [handler EXCEPT ![h] = IdleHandler]

-----------------------------------------------------------------------------
(* A new work order has its default graph and the unlocked tick of the     *)
(* promotion or of the queue consumer about to start.  A legacy one was    *)
(* developed before QA was merged into development and waits in QA.        *)

NewOrder ==
    /\ node = [n \in NodeTypes |-> IF DependsOn(n) = {} THEN "ready" ELSE "pending"]
    /\ gate = [g \in GateIds |-> NoGate]
    /\ woStatus = "intake"
    /\ scope = FALSE

LegacyOrder ==
    /\ node = [n \in NodeTypes |->
                 CASE n \in {"implementation_plan", "development"} -> "completed"
                   [] n = "qa_validation"                          -> "ready"
                   [] OTHER                                        -> "pending"]
    /\ gate = [[g \in GateIds |-> NoGate] EXCEPT
                 ![1] = [type |-> "analysis_plan", status |-> "approved", draft |-> NoDraft]]
    /\ woStatus = "running"
    /\ scope = TRUE

Init ==
    /\ NewOrder \/ (Legacy /\ LegacyOrder)
    /\ devPhase = "implement"
    /\ nodeDraft = NoDraft
    /\ draft = [d \in DraftIds |-> "absent"]
    /\ \E first \in Ticks : tick = [t \in Ticks |-> IF t = first THEN DirectTick ELSE IdleTick]
    /\ handler = [h \in Handlers |-> IdleHandler]
    /\ published = {}

-----------------------------------------------------------------------------
(* OrchestrationEngine.tick *)

\* background._run takes _tick_execution_lock before it calls tick.
AcquireTickLock(t) ==
    /\ tick[t].pc = "waiting"
    /\ TickLockFree
    /\ tick' = [tick EXCEPT ![t].pc = "reconcile"]
    /\ UNCHANGED << node, devPhase, nodeDraft, gate, draft, woStatus, scope, handler, published >>

\* _reconcile_merged_qa_validation
ReconcileMergedQa(t) ==
    /\ tick[t].pc = "reconcile"
    /\ tick' = [tick EXCEPT ![t].pc = "prepare"]
    /\ \/ /\ ~HasPendingGate
          /\ node["qa_validation"] \notin {"completed", "running"}
          /\ node["development"] = "completed"
          /\ node' = [node EXCEPT !["qa_validation"] = "completed"]
          /\ OpenGate("code_review", NoDraft)
       \/ /\ \/ HasPendingGate
             \/ node["qa_validation"] \in {"completed", "running"}
             \/ node["development"] # "completed"
             \/ Legacy   \* that development left neither a patch nor a baseline
          /\ UNCHANGED << node, gate, woStatus >>
    /\ UNCHANGED << devPhase, nodeDraft, draft, scope, handler, published >>

\* _prepare_node_execution, first return: a human has to decide something.
PauseAtGate(t) ==
    /\ tick[t].pc = "prepare"
    /\ HasPendingGate
    /\ EndTick(t)
    /\ UNCHANGED << node, devPhase, nodeDraft, gate, draft, woStatus, scope, handler, published >>

\* _prepare_node_execution, second return: nothing this engine executes is ready.
NothingReady(t) ==
    /\ tick[t].pc = "prepare"
    /\ ~HasPendingGate
    /\ FindReadyNodes(RefreshNodeReadiness(node)) = {}
    /\ node' = RefreshNodeReadiness(node)
    /\ EndTick(t)
    /\ UNCHANGED << devPhase, nodeDraft, gate, draft, woStatus, scope, handler, published >>

\* The first ready node in rowid order.
NextNode(n) ==
    /\ n \in FindReadyNodes(RefreshNodeReadiness(node))
    /\ \A m \in FindReadyNodes(RefreshNodeReadiness(node)) : Rank(n) <= Rank(m)

\* Mutant: the publisher does not insist on a draft.
ContextNeedsNothing(n) == TRUE

\* The publication context needs a draft to publish, and only that.
CanBuildContext(n) == n = "mr_creation" => nodeDraft # NoDraft

\* Mutant: mark_node_running is forgotten.
StartWithoutMarking(t, n) ==
    /\ tick[t].pc = "prepare"
    /\ ~HasPendingGate
    /\ NextNode(n)
    /\ CanBuildContext(n)
    /\ node' = RefreshNodeReadiness(node)
    /\ woStatus' = "running"
    /\ tick' = [tick EXCEPT ![t].pc = "running", ![t].node = n,
                            ![t].phase = devPhase, ![t].draft = nodeDraft]
    /\ UNCHANGED << devPhase, nodeDraft, gate, draft, scope, handler, published >>

\* _prepare_node_execution: the node runs with the payload read now.
StartNode(t, n) ==
    /\ tick[t].pc = "prepare"
    /\ ~HasPendingGate
    /\ NextNode(n)
    /\ CanBuildContext(n)
    /\ node' = [RefreshNodeReadiness(node) EXCEPT ![n] = "running"]
    /\ woStatus' = "running"
    /\ tick' = [tick EXCEPT ![t] = [pc     |-> "running",
                                    locked |-> tick[t].locked,
                                    node   |-> n,
                                    phase  |-> devPhase,
                                    draft  |-> nodeDraft]]
    /\ UNCHANGED << devPhase, nodeDraft, gate, draft, scope, handler, published >>

\* _prepare_node_execution: the context cannot be built, the node fails at once.
RefuseToPublish(t) ==
    /\ tick[t].pc = "prepare"
    /\ ~HasPendingGate
    /\ NextNode("mr_creation")
    /\ ~CanBuildContext("mr_creation")
    /\ node' = [RefreshNodeReadiness(node) EXCEPT !["mr_creation"] = "failed"]
    /\ woStatus' = "failed"
    /\ EndTick(t)
    /\ UNCHANGED << devPhase, nodeDraft, gate, draft, scope, handler, published >>

\* _persist_node_success for the planner: always a gate.
PlanSucceeds(t) ==
    /\ Running(t, "implementation_plan")
    /\ node' = [node EXCEPT !["implementation_plan"] = "completed"]
    /\ \/ OpenGate("analysis_plan", NoDraft)
       \/ "clarification" \in Environment /\ OpenGate("repo_clarification", NoDraft)
    /\ EndTick(t)
    /\ UNCHANGED << devPhase, nodeDraft, draft, scope, handler, published >>

\* _persist_node_success for the developer: QA is completed with it, unless
\* the run resolved a merge conflict; either way a code review gate opens.
DevelopmentSucceeds(t) ==
    /\ Running(t, "development")
    /\ node' = [node EXCEPT
                  !["development"]   = "completed",
                  !["qa_validation"] = IF tick[t].phase = "implement" THEN "completed" ELSE @]
    /\ devPhase' = tick[t].phase
    /\ OpenGate("code_review", NoDraft)
    /\ EndTick(t)
    /\ UNCHANGED << nodeDraft, draft, scope, handler, published >>

\* The publisher agent creates the merge request on the VCS (external).
CreateMergeRequest(t) ==
    /\ Running(t, "mr_creation")
    /\ published' = published \cup {tick[t].draft}
    /\ UNCHANGED << node, devPhase, nodeDraft, gate, draft, woStatus, scope, tick, handler >>

\* _persist_node_success for the publisher, which verified the merge request.
PublicationSucceeds(t) ==
    /\ Running(t, "mr_creation")
    /\ tick[t].draft \in published
    /\ nodeDraft' = tick[t].draft
    /\ LET completed == [node EXCEPT !["mr_creation"] = "completed"]
       IN  \/ /\ \E g \in GateIds : IsPending(g, "jira_update")
              /\ node' = completed
              /\ UNCHANGED << gate, woStatus >>
           \/ /\ \A g \in GateIds : ~IsPending(g, "jira_update")
              /\ node' = RefreshNodeReadiness(completed)
              /\ OpenGate("jira_update", NoDraft)
    /\ EndTick(t)
    /\ UNCHANGED << devPhase, draft, scope, handler, published >>

\* _persist_node_failure
NodeFails(t) ==
    /\ "agent_failure" \in Environment
    /\ tick[t].pc = "running"
    /\ node' = [node EXCEPT ![tick[t].node] = "failed"]
    /\ woStatus' = "failed"
    /\ EndTick(t)
    /\ UNCHANGED << devPhase, nodeDraft, gate, draft, scope, handler, published >>

\* _persist_node_failure, when the ticket has another open record by now: the index
\* refuses to reopen the promoted one, everything rolls back and the tick is over.
FailureIsRefused(t) ==
    /\ "refused_failure" \in Environment
    /\ tick[t].pc = "running" /\ tick[t].node # "mr_creation"
    /\ EndTick(t)
    /\ UNCHANGED << node, devPhase, nodeDraft, gate, draft, woStatus, scope, handler, published >>

-----------------------------------------------------------------------------
(* GateService.approve and GateService.reject, all gates but the merge     *)
(* request review: one transaction, then what follows it.                  *)

ApproveClarification(g, t) ==
    /\ IsPending(g, "repo_clarification")
    /\ DecideGate(g, "approved")
    /\ node' = [node EXCEPT !["implementation_plan"] = "ready"]
    /\ woStatus' = "running"
    /\ ScheduleTick(t)
    /\ UNCHANGED << devPhase, nodeDraft, draft, scope, handler, published >>

ApproveAnalysisPlan(h, g) ==
    /\ handler[h].pc = "idle"
    /\ IsPending(g, "analysis_plan")
    /\ DecideGate(g, "approved")
    /\ woStatus' = NextStatusAfterApproval("analysis_plan")
    /\ HandlerGoes(h, "scope_contract")
    /\ UNCHANGED << node, devPhase, nodeDraft, draft, scope, tick, published >>

CreateScopeContract(h, t) ==
    /\ handler[h].pc = "scope_contract"
    /\ scope' = TRUE
    /\ ScheduleTick(t)
    /\ HandlerDone(h)
    /\ UNCHANGED << node, devPhase, nodeDraft, gate, draft, woStatus, published >>

\* Mutant: the review schedules a tick at once, as the plan gates do.
ReviewSchedulesATick(h, g) ==
    /\ handler[h].pc = "idle"
    /\ IsPending(g, "code_review")
    /\ DecideGate(g, "approved")
    /\ woStatus' = "running"
    /\ HandlerGoes(h, "save_draft")
    /\ \E t \in Ticks : ScheduleTick(t)
    /\ UNCHANGED << node, devPhase, nodeDraft, draft, scope, published >>

ApproveCodeReview(h, g) ==
    /\ handler[h].pc = "idle"
    /\ IsPending(g, "code_review")
    /\ DecideGate(g, "approved")
    /\ woStatus' = NextStatusAfterApproval("code_review")
    /\ HandlerGoes(h, "save_draft")
    /\ UNCHANGED << node, devPhase, nodeDraft, draft, scope, tick, published >>

ApproveJiraUpdate(g) ==
    /\ IsPending(g, "jira_update")
    /\ DecideGate(g, "approved")
    /\ woStatus' = NextStatusAfterApproval("jira_update")
    /\ node' = [node EXCEPT !["jira_update"] = "completed"]
    /\ UNCHANGED << devPhase, nodeDraft, draft, scope, tick, handler, published >>

RejectPlan(g, t) ==
    /\ \E type \in PlanGates : IsPending(g, type)
    /\ DecideGate(g, "rejected")
    /\ node' = [node EXCEPT !["implementation_plan"] = "ready"]
    /\ woStatus' = "running"
    /\ ScheduleTick(t)
    /\ UNCHANGED << devPhase, nodeDraft, draft, scope, handler, published >>

\* reset_pipeline_after_development_retry
ResetPipeline(ns) ==
    [n \in NodeTypes |->
        IF n \in {"qa_validation", "mr_creation", "jira_update"} THEN "pending" ELSE ns[n]]

RejectCodeReview(g, t) ==
    /\ IsPending(g, "code_review")
    /\ DecideGate(g, "rejected")
    /\ node' = ResetPipeline([node EXCEPT !["development"] = "ready"])
    /\ devPhase' = "implement"
    /\ woStatus' = "running"
    /\ ScheduleTick(t)
    /\ UNCHANGED << nodeDraft, draft, scope, handler, published >>

-----------------------------------------------------------------------------
(* MrDraftService.create_draft_after_code_review: three transactions. *)

SaveDraft(h) ==
    /\ handler[h].pc = "save_draft"
    /\ \E d \in DraftIds :
        /\ draft[d] = "absent"
        /\ \A k \in DraftIds : draft[k] = "absent" => d <= k
        /\ draft' = [draft EXCEPT ![d] = "awaiting_review"]
        /\ handler' = [handler EXCEPT ![h] = [pc |-> "attach_draft", gate |-> 0, draft |-> d]]
    /\ UNCHANGED << node, devPhase, nodeDraft, gate, woStatus, scope, tick, published >>

\* Mutant: the node waits for a publisher in shadow mode too.
NoSyntheticNodes(ns) == ns

\* _complete_synthetic_nodes: in shadow mode there is nothing to publish.
CompleteSyntheticNodes(ns) ==
    IF ShadowMode THEN [ns EXCEPT !["mr_creation"] = "completed"] ELSE ns

\* _attach_draft_to_publication_node, or _complete_synthetic_nodes in shadow mode.
AttachDraft(h) ==
    /\ handler[h].pc = "attach_draft"
    /\ nodeDraft' = handler[h].draft
    /\ node' = CompleteSyntheticNodes(node)
    /\ HandlerGoes(h, "open_mr_gate")
    /\ UNCHANGED << devPhase, gate, draft, woStatus, scope, tick, published >>

OpenMrReviewGate(h) ==
    /\ handler[h].pc = "open_mr_gate"
    /\ OpenGate("merge_request_review", handler[h].draft)
    /\ HandlerDone(h)
    /\ UNCHANGED << node, devPhase, nodeDraft, draft, scope, tick, published >>

-----------------------------------------------------------------------------
(* MrDraftService.approve_draft and reject_draft: the checks, the gate and *)
(* the draft are three transactions, and the second does not check again.  *)

Reviewable(g) ==
    /\ IsPending(g, "merge_request_review")
    /\ draft[gate[g].draft] = "awaiting_review"

CheckDecision(h, g, pc) ==
    /\ handler[h].pc = "idle"
    /\ Reviewable(g)
    /\ handler' = [handler EXCEPT ![h] = [pc |-> pc, gate |-> g, draft |-> gate[g].draft]]
    /\ UNCHANGED << node, devPhase, nodeDraft, gate, draft, woStatus, scope, tick, published >>

StartMrApproval(h, g)  == CheckDecision(h, g, "approve_gate")

StartMrRejection(h, g) == "mr_rejection" \in Environment /\ CheckDecision(h, g, "reject_gate")

ApproveMrGate(h) ==
    /\ handler[h].pc = "approve_gate"
    /\ DecideGate(handler[h].gate, "approved")
    /\ woStatus' = "running"
    /\ HandlerGoes(h, "approve_draft")
    /\ UNCHANGED << node, devPhase, nodeDraft, draft, scope, tick, published >>

ApproveDraft(h) ==
    /\ handler[h].pc = "approve_draft"
    /\ draft' = [draft EXCEPT ![handler[h].draft] = "approved"]
    /\ HandlerGoes(h, "merge")
    /\ UNCHANGED << node, devPhase, nodeDraft, gate, woStatus, scope, tick, published >>

\* _maybe_requeue_merge_conflicts found nothing to resolve.
MergeIsClean(h, t) ==
    /\ handler[h].pc = "merge"
    /\ IF ShadowMode THEN UNCHANGED tick ELSE ScheduleTick(t)
    /\ HandlerDone(h)
    /\ UNCHANGED << node, devPhase, nodeDraft, gate, draft, woStatus, scope, published >>

\* _maybe_requeue_merge_conflicts saw conflicting files in the developed branch.
MergeConflicts(h) ==
    /\ "merge_conflict" \in Environment
    /\ handler[h].pc = "merge"
    /\ node["development"] = "completed"
    /\ HandlerGoes(h, "requeue")
    /\ UNCHANGED << node, devPhase, nodeDraft, gate, draft, woStatus, scope, tick, published >>

\* Mutant: approve_draft goes on as if the merge were clean.
RequeueAndGoOn(h, t) ==
    /\ handler[h].pc = "requeue"
    /\ node' = [node EXCEPT !["development"] = "ready"]
    /\ devPhase' = "merge_conflict_resolution"
    /\ woStatus' = "running"
    /\ tick[t].pc = "idle"
    /\ tick' = [tick EXCEPT ![t] = DirectTick]
    /\ HandlerGoes(h, "merge")
    /\ UNCHANGED << nodeDraft, gate, draft, scope, published >>

\* requeue_development_for_merge_conflicts, then a tick outside the tick lock.
RequeueDevelopment(h, t) ==
    /\ handler[h].pc = "requeue"
    /\ node' = [node EXCEPT !["development"] = "ready"]
    /\ devPhase' = "merge_conflict_resolution"
    /\ woStatus' = "running"
    /\ tick[t].pc = "idle"
    /\ tick' = [tick EXCEPT ![t] = DirectTick]
    /\ HandlerDone(h)
    /\ UNCHANGED << nodeDraft, gate, draft, scope, published >>

RejectMrGate(h) ==
    /\ handler[h].pc = "reject_gate"
    /\ DecideGate(handler[h].gate, "rejected")
    /\ woStatus' = "running"
    /\ HandlerGoes(h, "reject_draft")
    /\ UNCHANGED << node, devPhase, nodeDraft, draft, scope, tick, published >>

RejectDraft(h) ==
    /\ handler[h].pc = "reject_draft"
    /\ draft' = [draft EXCEPT ![handler[h].draft] = "rejected"]
    /\ HandlerDone(h)
    /\ UNCHANGED << node, devPhase, nodeDraft, gate, woStatus, scope, tick, published >>

-----------------------------------------------------------------------------
(* resume_work_order and restarts *)

\* Whether the node started more than _STUCK_RUNNING_SECONDS ago.
MayBeStuck(n) == node[n] = "running" /\ ("long_run" \in Environment \/ ~LiveRun(n))

\* Mutant: the status is written without looking at what it was.
StatusForced(reset) == "in_progress"

\* The UPDATE at the end of prepare_work_order_resume.
StatusAfterResume(reset) ==
    IF reset # {} /\ woStatus = "failed" THEN "in_progress" ELSE woStatus

\* prepare_work_order_resume, then a scheduled tick.
Resume(t) ==
    /\ \/ "impatient_resume" \in Environment
       \/ "resume" \in Environment /\ Quiet /\ ~HasPendingGate
    /\ \E stuck \in SUBSET { n \in ExecutableNodes : MayBeStuck(n) } :
        LET reset == stuck \cup { n \in ExecutableNodes : node[n] = "failed" }
        IN  /\ node' = [n \in NodeTypes |-> IF n \in reset THEN "ready" ELSE node[n]]
            /\ woStatus' = StatusAfterResume(reset)
    /\ ScheduleTick(t)
    /\ UNCHANGED << devPhase, nodeDraft, gate, draft, scope, handler, published >>

\* The process ends: its threads are gone, the database stays.
Crash ==
    /\ "crash" \in Environment
    /\ ~Quiet
    /\ tick' = [t \in Ticks |-> IdleTick]
    /\ handler' = [h \in Handlers |-> IdleHandler]
    /\ UNCHANGED << node, devPhase, nodeDraft, gate, draft, woStatus, scope, published >>

-----------------------------------------------------------------------------
TickStep(t) ==
    \/ AcquireTickLock(t)
    \/ ReconcileMergedQa(t)
    \/ PauseAtGate(t)
    \/ NothingReady(t)
    \/ \E n \in ExecutableNodes : StartNode(t, n)
    \/ RefuseToPublish(t)
    \/ PlanSucceeds(t)
    \/ DevelopmentSucceeds(t)
    \/ CreateMergeRequest(t)
    \/ PublicationSucceeds(t)
    \/ NodeFails(t)
    \/ FailureIsRefused(t)

Decision(g) ==
    \/ ApproveJiraUpdate(g)
    \/ \E t \in Ticks : \/ ApproveClarification(g, t)
                        \/ RejectPlan(g, t)
                        \/ RejectCodeReview(g, t)
    \/ \E h \in Handlers : \/ ApproveAnalysisPlan(h, g)
                           \/ ApproveCodeReview(h, g)
                           \/ StartMrApproval(h, g)
                           \/ StartMrRejection(h, g)

HandlerStep(h) ==
    \/ \E t \in Ticks : \/ CreateScopeContract(h, t)
                        \/ MergeIsClean(h, t)
                        \/ RequeueDevelopment(h, t)
    \/ SaveDraft(h)
    \/ AttachDraft(h)
    \/ OpenMrReviewGate(h)
    \/ ApproveMrGate(h)
    \/ ApproveDraft(h)
    \/ MergeConflicts(h)
    \/ RejectMrGate(h)
    \/ RejectDraft(h)

Next ==
    \/ \E t \in Ticks : TickStep(t) \/ Resume(t)
    \/ \E h \in Handlers : HandlerStep(h)
    \/ \E g \in GateIds : Decision(g)
    \/ Crash

Spec == Init /\ [][Next]_vars

-----------------------------------------------------------------------------
(* Fairness.  A thread that can move does: a daemon thread waiting for the *)
(* tick lock gets it, an agent run ends (agents have a budget of turns), a *)
(* request handler runs to its end.  Nothing obliges a human to decide.    *)

AgentRunEnds(t) == PlanSucceeds(t) \/ DevelopmentSucceeds(t) \/ PublicationSucceeds(t)
                   \/ NodeFails(t) \/ FailureIsRefused(t)

-----------------------------------------------------------------------------
(* Properties that hold whatever happens around the code: agents failing,  *)
(* restarts, impatient resumes, concurrent decisions on one gate.          *)

\* No developer agent runs, and development is not even ready, before a human
\* approved the analysis plan of this work order.
AnalysisApprovedBeforeDevelopment ==
    node["development"] # "pending" \/ LiveRun("development") => Approved("analysis_plan")

\* The publisher never runs without a draft, nor before a human approved a
\* code review: it has approved content to publish.
PublishesReviewedPatch ==
    \A t \in Ticks : Running(t, "mr_creation") =>
        tick[t].draft # NoDraft /\ Approved("code_review")

\* A work order that says it awaits a gate has a gate to decide.
AwaitingHasGate == woStatus = "awaiting_gate" => HasPendingGate

\* A completed work order went through every human decision but the draft's,
\* and there is a merge request for it.
CompletionMeansDelivered ==
    woStatus = "completed" =>
        /\ \A type \in {"analysis_plan", "code_review", "jira_update"} : Approved(type)
        /\ published # {}

-----------------------------------------------------------------------------
(* Why they hold: where each approval must already have been given.        *)

\* A completed plan was approved, or a human is asked about it.
PlanIsDecided ==
    node["implementation_plan"] = "completed" =>
        \/ Approved("analysis_plan")
        \/ \E g \in GateIds : gate[g].status = "pending" /\ gate[g].type \in PlanGates

\* No row and no thread is past the plan before it is approved.
PlanComesFirst ==
    /\ \A n \in NodeTypes \ {"implementation_plan"} : node[n] # "pending"
           => Approved("analysis_plan")
    /\ \A t \in Ticks : tick[t].pc = "running" /\ tick[t].node # "implementation_plan"
           => Approved("analysis_plan")
    /\ \A g \in GateIds : gate[g].type \in GateTypes \ PlanGates => Approved("analysis_plan")
    /\ \A h \in Handlers : handler[h].pc # "idle" => Approved("analysis_plan")

\* No draft, publisher or question about Jira exists before a code review is
\* approved, and the question about Jira comes after the publication.
ReviewComesFirst ==
    /\ nodeDraft # NoDraft => Approved("code_review")
    /\ \A t \in Ticks : Running(t, "mr_creation") =>
           tick[t].draft # NoDraft /\ Approved("code_review")
    /\ \A h \in Handlers : handler[h].pc \in {"save_draft", "attach_draft", "open_mr_gate"}
           => Approved("code_review")
    /\ \A g \in GateIds : gate[g].type = "jira_update"
           => Approved("code_review") /\ published # {}

\* The decisions that do not look at the gate again are about a draft.
UncheckedDecisionsAreAboutDrafts ==
    \A h \in Handlers : handler[h].pc \in {"approve_gate", "reject_gate"} =>
        /\ handler[h].gate \in GateIds
        /\ gate[handler[h].gate].type = "merge_request_review"
        /\ gate[handler[h].gate].status # "absent"

\* Every approval is given before anything that needs it exists: the inductive
\* invariant under the four properties above.
HumansDecideFirst ==
    PlanIsDecided /\ PlanComesFirst /\ ReviewComesFirst /\ UncheckedDecisionsAreAboutDrafts

-----------------------------------------------------------------------------
(* Properties of disciplined operation: resume only when nothing is in     *)
(* progress, one request at a time on a gate, no restart in the middle.    *)

\* A work order waits for one human decision at a time.
OnePendingGate ==
    \A g, k \in GateIds :
        gate[g].status = "pending" /\ gate[k].status = "pending" => g = k

\* The work order says it awaits a gate exactly when there is one to decide.
AwaitingIffGate == woStatus = "awaiting_gate" <=> HasPendingGate

\* What the publisher publishes is a draft a human approved.
PublishesApprovedDraft ==
    \A t \in Ticks : Running(t, "mr_creation") => draft[tick[t].draft] = "approved"

\* A node has at most one agent run, and it has one only while it says running.
OneRunPerNode ==
    \A t, u \in Ticks : \A n \in ExecutableNodes :
        Running(t, n) => node[n] = "running" /\ (Running(u, n) => t = u)

\* In shadow mode nothing is published.
ShadowPublishesNothing == ShadowMode => published = {}

\* The human decision of a gate is final: a decided gate stays as it is.
DecisionsAreFinal ==
    [][\A g \in GateIds : gate[g].status \in {"approved", "rejected"} => gate'[g] = gate[g]]_vars

\* Nothing reopens a completed work order.
CompletedIsFinal == [][woStatus = "completed" => woStatus' = "completed"]_vars

\* Where a work order stops without a question, for a human to notice: its draft was
\* rejected; the failure of its agent could not be written down; or a resume, sooner
\* than that failure counts as stuck, delivered it without the conflict resolution that
\* had failed, and the resolution that follows later finds nothing left to run.
DraftIsRejected     == Quiet /\ nodeDraft # NoDraft /\ draft[nodeDraft] = "rejected"
FailureIsUnrecorded == Quiet /\ \E n \in ExecutableNodes : node[n] = "running"
GraphIsDone         == Quiet /\ \A n \in NodeTypes : node[n] = "completed"

BoundReached == \/ \A g \in GateIds : gate[g].status # "absent"
                \/ \A d \in DraftIds : draft[d] # "absent"

\* A work order is at a gate, completed, or failed, which resume can retry; or it is one of
\* the cases above.
WithAHuman == \/ HasPendingGate \/ woStatus \in {"completed", "failed"}
              \/ DraftIsRejected \/ FailureIsUnrecorded \/ GraphIsDone
              \/ BoundReached
=============================================================================
