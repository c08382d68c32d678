----------------------- MODULE DeliveryPipeline_proofs -----------------------
(***************************************************************************)
(* Theorems about DeliveryPipeline, for every number of gates, drafts and  *)
(* ticks: first what holds in every environment, then what holds of a      *)
(* delivery that is operated with some discipline, where one thing happens *)
(* at a time, what shadow mode keeps from happening, and that an           *)
(* undisturbed delivery implements HumanGatedDelivery.                     *)
(***************************************************************************)
EXTENDS DeliveryRefinement, TLAPS

-----------------------------------------------------------------------------
(* What the operators of the model write *)

\* Opening a gate leaves a well formed gates table and work order.
LEMMA OpenGateTypes ==
    ASSUME TypeOK, NEW type \in GateTypes, NEW d \in DraftIds \cup {NoDraft},
           OpenGate(type, d)
    PROVE  gate' \in [GateIds -> GateRows] /\ woStatus' \in WorkOrderStatus
  BY DEF TypeOK, OpenGate, GateRows, WorkOrderStatus, DocumentedWorkOrderStatus

\* So does the decision of a gate.
LEMMA DecideGateTypes ==
    ASSUME TypeOK, NEW g \in GateIds, NEW decision \in {"approved", "rejected"},
           DecideGate(g, decision)
    PROVE  gate' \in [GateIds -> GateRows]
  BY DEF TypeOK, DecideGate, GateRows

\* refresh_node_readiness writes node statuses.
LEMMA RefreshTypes ==
    ASSUME NEW ns \in [NodeTypes -> NodeStatus]
    PROVE  RefreshNodeReadiness(ns) \in [NodeTypes -> NodeStatus]
  BY DEF RefreshNodeReadiness, NodeStatus

\* The three states a tick is put in are states of a tick.
LEMMA TickConstants ==
    IdleTick \in TickStates /\ WaitingTick \in TickStates /\ DirectTick \in TickStates
  BY DEF IdleTick, WaitingTick, DirectTick, TickStates, TickPcs, Phases, NoDraft

\* A tick may move on, end or be scheduled.
LEMMA TickTypes ==
    ASSUME TypeOK, NEW t \in Ticks
    PROVE  /\ \A pc \in TickPcs : [tick EXCEPT ![t].pc = pc] \in [Ticks -> TickStates]
           /\ EndTick(t) => tick' \in [Ticks -> TickStates]
           /\ ScheduleTick(t) => tick' \in [Ticks -> TickStates]
           /\ [tick EXCEPT ![t] = DirectTick] \in [Ticks -> TickStates]
<1>1. \A pc \in TickPcs : [tick EXCEPT ![t].pc = pc] \in [Ticks -> TickStates]
  BY DEF TypeOK, TickStates
<1>2. \A s \in TickStates : [tick EXCEPT ![t] = s] \in [Ticks -> TickStates]
  BY DEF TypeOK
<1> QED
  BY <1>1, <1>2, TickConstants DEF EndTick, ScheduleTick

\* A handler may move on or be done.
LEMMA HandlerTypes ==
    ASSUME TypeOK, NEW h \in Handlers
    PROVE  /\ \A pc \in HandlerPcs : HandlerGoes(h, pc) => handler' \in [Handlers -> HandlerStates]
           /\ HandlerDone(h) => handler' \in [Handlers -> HandlerStates]
<1>1. IdleHandler \in HandlerStates
  BY DEF IdleHandler, HandlerStates, HandlerPcs, NoDraft
<1>2. \A pc \in HandlerPcs : [handler EXCEPT ![h].pc = pc] \in [Handlers -> HandlerStates]
  BY DEF TypeOK, HandlerStates
<1> QED
  BY <1>1, <1>2 DEF TypeOK, HandlerGoes, HandlerDone

-----------------------------------------------------------------------------
(* Type correctness *)

\* A fresh or legacy work order is well typed.
LEMMA InitTypes == Init => TypeOK
<1> SUFFICES ASSUME Init PROVE TypeOK
  OBVIOUS
<1> USE ConstantsAssumption
<1>1. node \in [NodeTypes -> NodeStatus]
  BY DEF Init, NewOrder, LegacyOrder, NodeTypes, NodeStatus
<1>2. gate \in [GateIds -> GateRows]
  BY DEF Init, NewOrder, LegacyOrder, NoGate, GateRows, GateTypes, PlanGates, NoDraft
<1>3. tick \in [Ticks -> TickStates]
  BY TickConstants DEF Init
<1>4. handler \in [Handlers -> HandlerStates]
  BY DEF Init, IdleHandler, HandlerStates, HandlerPcs, NoDraft
<1>5. /\ nodeDraft \in DraftIds \cup {NoDraft}
      /\ draft \in [DraftIds -> {"absent", "awaiting_review", "approved", "rejected"}]
      /\ published \in SUBSET (DraftIds \cup {NoDraft})
  BY DEF Init
<1>6. devPhase \in Phases /\ woStatus \in WorkOrderStatus /\ scope \in BOOLEAN
  BY DEF Init, NewOrder, LegacyOrder, Phases, WorkOrderStatus, DocumentedWorkOrderStatus
<1> QED
  BY <1>1, <1>2, <1>3, <1>4, <1>5, <1>6 DEF TypeOK

\* Every step of a tick of the engine keeps the tables well typed.
LEMMA TickStepTypes ==
    ASSUME TypeOK, NEW t \in Ticks, TickStep(t)
    PROVE  TypeOK'
<1> USE TickTypes, RefreshTypes DEF NodeStatus, WorkOrderStatus, DocumentedWorkOrderStatus
<1>1. CASE AcquireTickLock(t)
  BY <1>1 DEF TypeOK, AcquireTickLock, TickPcs
<1>2. CASE ReconcileMergedQa(t)
  BY <1>2, OpenGateTypes DEF TypeOK, ReconcileMergedQa, TickPcs, GateTypes
<1>3. CASE PauseAtGate(t)
  BY <1>3 DEF TypeOK, PauseAtGate
<1>4. CASE NothingReady(t)
  BY <1>4 DEF TypeOK, NothingReady
<1>5. ASSUME NEW n \in ExecutableNodes, StartNode(t, n) PROVE TypeOK'
  BY <1>5 DEF TypeOK, StartNode, TickStates, TickPcs
<1>6. CASE RefuseToPublish(t)
  BY <1>6 DEF TypeOK, RefuseToPublish
<1>7. CASE PlanSucceeds(t)
  BY <1>7, OpenGateTypes DEF TypeOK, PlanSucceeds, GateTypes, PlanGates
<1>8. CASE DevelopmentSucceeds(t)
  BY <1>8, OpenGateTypes DEF TypeOK, DevelopmentSucceeds, GateTypes, TickStates
<1>9. CASE CreateMergeRequest(t)
  BY <1>9 DEF TypeOK, CreateMergeRequest, TickStates
<1>10. CASE PublicationSucceeds(t)
  <2>1. gate' \in [GateIds -> GateRows] /\ woStatus' \in WorkOrderStatus
    BY <1>10, OpenGateTypes DEF TypeOK, PublicationSucceeds, GateTypes
  <2>2. [node EXCEPT !["mr_creation"] = "completed"] \in [NodeTypes -> NodeStatus]
    BY DEF TypeOK
  <2>3. node' \in [NodeTypes -> NodeStatus]
    BY <1>10, <2>2 DEF PublicationSucceeds
  <2> QED
    BY <1>10, <2>1, <2>3 DEF TypeOK, PublicationSucceeds, TickStates
<1>11. CASE NodeFails(t)
  BY <1>11 DEF TypeOK, NodeFails
<1>12. CASE FailureIsRefused(t)
  BY <1>12 DEF TypeOK, FailureIsRefused
<1> QED
  BY <1>1, <1>2, <1>3, <1>4, <1>5, <1>6, <1>7, <1>8, <1>9, <1>10, <1>11, <1>12 DEF TickStep

\* So does the request that decides a gate or claims a draft decision.
LEMMA DecisionTypes ==
    ASSUME TypeOK, NEW g \in GateIds, Decision(g)
    PROVE  TypeOK'
<1> USE TickTypes, HandlerTypes, DecideGateTypes
    DEF NodeStatus, WorkOrderStatus, DocumentedWorkOrderStatus, NextStatusAfterApproval
<1>1. ASSUME NEW t \in Ticks, ApproveClarification(g, t) PROVE TypeOK'
  BY <1>1 DEF TypeOK, ApproveClarification
<1>2. ASSUME NEW h \in Handlers, ApproveAnalysisPlan(h, g) PROVE TypeOK'
  BY <1>2 DEF TypeOK, ApproveAnalysisPlan, HandlerPcs
<1>3. ASSUME NEW h \in Handlers, ApproveCodeReview(h, g) PROVE TypeOK'
  BY <1>3 DEF TypeOK, ApproveCodeReview, HandlerPcs
<1>4. CASE ApproveJiraUpdate(g)
  BY <1>4 DEF TypeOK, ApproveJiraUpdate
<1>5. ASSUME NEW t \in Ticks, RejectPlan(g, t) PROVE TypeOK'
  BY <1>5 DEF TypeOK, RejectPlan
<1>6. ASSUME NEW t \in Ticks, RejectCodeReview(g, t) PROVE TypeOK'
  BY <1>6 DEF TypeOK, RejectCodeReview, ResetPipeline, Phases
<1>7. ASSUME NEW h \in Handlers, NEW pc \in HandlerPcs, CheckDecision(h, g, pc) PROVE TypeOK'
  BY <1>7 DEF TypeOK, CheckDecision, HandlerStates, GateRows
<1> QED
  BY <1>1, <1>2, <1>3, <1>4, <1>5, <1>6, <1>7
     DEF Decision, StartMrApproval, StartMrRejection, HandlerPcs

\* So does every later transaction of a request handler.
LEMMA HandlerStepTypes ==
    ASSUME TypeOK, NEW h \in Handlers, HandlerStep(h)
    PROVE  TypeOK'
<1> USE TickTypes, HandlerTypes
    DEF NodeStatus, WorkOrderStatus, DocumentedWorkOrderStatus, HandlerPcs
<1>1. ASSUME NEW t \in Ticks, CreateScopeContract(h, t) PROVE TypeOK'
  BY <1>1 DEF TypeOK, CreateScopeContract
<1>2. CASE SaveDraft(h)
  BY <1>2 DEF TypeOK, SaveDraft, HandlerStates
<1>3. CASE AttachDraft(h)
  BY <1>3 DEF TypeOK, AttachDraft, CompleteSyntheticNodes, HandlerStates
<1>4. CASE OpenMrReviewGate(h)
  BY <1>4, OpenGateTypes DEF TypeOK, OpenMrReviewGate, GateTypes, HandlerStates
<1>5. CASE ApproveMrGate(h)
  BY <1>5 DEF TypeOK, ApproveMrGate, DecideGate, GateRows
<1>6. CASE ApproveDraft(h)
  BY <1>6 DEF TypeOK, ApproveDraft
<1>7. ASSUME NEW t \in Ticks, MergeIsClean(h, t) PROVE TypeOK'
  BY <1>7 DEF TypeOK, MergeIsClean
<1>8. CASE MergeConflicts(h)
  BY <1>8 DEF TypeOK, MergeConflicts
<1>9. ASSUME NEW t \in Ticks, RequeueDevelopment(h, t) PROVE TypeOK'
  BY <1>9 DEF TypeOK, RequeueDevelopment, Phases
<1>10. CASE RejectMrGate(h)
  BY <1>10 DEF TypeOK, RejectMrGate, DecideGate, GateRows
<1>11. CASE RejectDraft(h)
  BY <1>11 DEF TypeOK, RejectDraft
<1> QED
  BY <1>1, <1>2, <1>3, <1>4, <1>5, <1>6, <1>7, <1>8, <1>9, <1>10, <1>11 DEF HandlerStep

\* So does a resume: it only resets node statuses and schedules a tick.
LEMMA ResumeTypes ==
    ASSUME TypeOK, NEW t \in Ticks, Resume(t)
    PROVE  TypeOK'
  BY TickTypes
     DEF TypeOK, Resume, StatusAfterResume, NodeStatus, WorkOrderStatus, DocumentedWorkOrderStatus

\* A restart keeps the tables and empties the threads.
LEMMA CrashTypes == TypeOK /\ Crash => TypeOK'
  BY TickConstants DEF TypeOK, Crash, IdleHandler, HandlerStates, HandlerPcs, NoDraft

\* Hence every step does.
LEMMA NextTypes == TypeOK /\ [Next]_vars => TypeOK'
<1> SUFFICES ASSUME TypeOK, [Next]_vars PROVE TypeOK'
  OBVIOUS
<1>1. CASE UNCHANGED vars
  BY <1>1 DEF TypeOK, vars
<1> QED
  BY <1>1, TickStepTypes, ResumeTypes, HandlerStepTypes, DecisionTypes, CrashTypes DEF Next

\* Every variable keeps the values its table or thread may hold, whatever the
\* bounds, the threads and the environment are.
THEOREM TypeCorrect == Spec => []TypeOK
  BY InitTypes, NextTypes, PTL DEF Spec

-----------------------------------------------------------------------------
(* Approvals are given before anything that needs them exists *)

\* Opening a gate touches neither an approval nor the rows that are not free.
LEMMA OpenGateEffect ==
    ASSUME TypeOK, NEW type \in GateTypes, NEW d \in DraftIds \cup {NoDraft},
           OpenGate(type, d)
    PROVE  /\ \A any \in GateTypes : Approved(any) => Approved(any)'
           /\ \A g \in GateIds : gate'[g] = gate[g] \/ gate'[g].type = type
           /\ \A g \in GateIds : gate[g].status # "absent" => gate'[g] = gate[g]
           /\ \E g \in GateIds : gate'[g].type = type /\ gate'[g].status = "pending"
           /\ woStatus' = "awaiting_gate"
<1>1. PICK g \in GateIds :
          /\ gate[g].status = "absent"
          /\ gate' = [gate EXCEPT ![g] = [type |-> type, status |-> "pending", draft |-> d]]
          /\ woStatus' = "awaiting_gate"
  BY DEF OpenGate
<1>2. \A k \in GateIds : gate'[k] = IF k = g
                                    THEN [type |-> type, status |-> "pending", draft |-> d]
                                    ELSE gate[k]
  BY <1>1 DEF TypeOK
<1> QED
  BY <1>1, <1>2 DEF Approved

\* A decision about a pending gate, or about a gate of another type, leaves
\* the approvals of a type alone.
LEMMA DecideGateEffect ==
    ASSUME TypeOK, NEW g \in GateIds, NEW decision \in {"approved", "rejected"},
           DecideGate(g, decision)
    PROVE  /\ \A any \in GateTypes :
                 gate[g].status = "pending" \/ gate[g].type # any =>
                    (Approved(any) => Approved(any)')
           /\ \A k \in GateIds : gate'[k].type = gate[k].type
           /\ \A k \in GateIds : k # g => gate'[k] = gate[k]
           /\ gate'[g].status = decision
<1>1. \A k \in GateIds : gate'[k] = IF k = g THEN [gate[g] EXCEPT !.status = decision] ELSE gate[k]
  BY DEF TypeOK, DecideGate
<1>2. gate[g] \in GateRows
  BY DEF TypeOK
<1> QED
  BY <1>1, <1>2 DEF Approved, GateRows

\* At the start nothing has run that an approval must precede; a legacy work
\* order comes with its plan approved.
LEMMA InitDecideFirst == Init => HumansDecideFirst
<1> SUFFICES ASSUME Init PROVE HumansDecideFirst
  OBVIOUS
<1>1. LegacyOrder => Approved("analysis_plan")
  <2>1. 1 \in GateIds
    BY ConstantsAssumption DEF GateIds
  <2> QED
    BY <2>1 DEF LegacyOrder, Approved
<1>2. PlanIsDecided
  BY <1>1 DEF PlanIsDecided, Init, NewOrder, NodeTypes, DependsOn
<1>3. PlanComesFirst
  <2>1. \A n \in NodeTypes \ {"implementation_plan"} :
            node[n] # "pending" => Approved("analysis_plan")
    BY <1>1 DEF Init, NewOrder, NodeTypes, DependsOn
  <2>2. \A t \in Ticks : tick[t].pc # "running"
    BY DEF Init, IdleTick, DirectTick
  <2>3. \A g \in GateIds : gate[g].type \in {"none", "analysis_plan"}
    BY DEF Init, NewOrder, LegacyOrder, NoGate
  <2>4. \A h \in Handlers : handler[h].pc = "idle"
    BY DEF Init, IdleHandler
  <2> QED
    BY <2>1, <2>2, <2>3, <2>4 DEF PlanComesFirst, GateTypes, PlanGates
<1>4. ReviewComesFirst
  BY DEF ReviewComesFirst, Init, NewOrder, LegacyOrder, Running, IdleTick, DirectTick,
         IdleHandler, NoGate
<1>5. UncheckedDecisionsAreAboutDrafts
  BY DEF UncheckedDecisionsAreAboutDrafts, Init, IdleHandler
<1> QED
  BY <1>2, <1>3, <1>4, <1>5 DEF HumansDecideFirst

\* A tick that ends is no longer a run; the others are what they were.
LEMMA EndTickEffect ==
    ASSUME TypeOK, NEW t \in Ticks, EndTick(t) \/ ScheduleTick(t)
    PROVE  \A u \in Ticks : tick'[u].pc = "running" => tick'[u] = tick[u]
<1>1. IdleTick.pc # "running" /\ WaitingTick.pc # "running"
  BY DEF IdleTick, WaitingTick
<1>2. CASE EndTick(t)
  BY <1>1, <1>2 DEF TypeOK, EndTick
<1>3. CASE ScheduleTick(t)
  BY <1>1, <1>3 DEF TypeOK, ScheduleTick
<1> QED
  BY <1>2, <1>3

\* The engine starts no node, and opens no gate, ahead of the approvals they
\* need: node order, the pending gate check and the publication context see to it.
LEMMA TickStepDecidesFirst ==
    ASSUME TypeOK, HumansDecideFirst, NEW t \in Ticks, TickStep(t)
    PROVE  HumansDecideFirst'
<1> USE EndTickEffect, OpenGateEffect
    DEF HumansDecideFirst, PlanIsDecided, PlanComesFirst, ReviewComesFirst,
        UncheckedDecisionsAreAboutDrafts, Running, GateTypes, PlanGates
<1>1. CASE AcquireTickLock(t)
  <2>1. \A u \in Ticks : tick'[u].pc = "running" => tick'[u] = tick[u]
    BY <1>1 DEF AcquireTickLock, TypeOK
  <2> QED
    BY <1>1, <2>1 DEF AcquireTickLock, Approved
<1>2. CASE ReconcileMergedQa(t)
  <2>1. \A u \in Ticks : tick'[u].pc = "running" => tick'[u] = tick[u]
    BY <1>2 DEF ReconcileMergedQa, TypeOK
  <2>2. CASE UNCHANGED << node, gate, woStatus >>
    BY <1>2, <2>1, <2>2 DEF ReconcileMergedQa, Approved
  <2>3. CASE /\ node["development"] = "completed"
             /\ OpenGate("code_review", NoDraft)
    <3>1. Approved("analysis_plan") /\ Approved("analysis_plan")'
      BY <2>3 DEF NodeTypes
    <3> QED
      BY <1>2, <2>1, <2>3, <3>1 DEF ReconcileMergedQa
  <2> QED
    BY <1>2, <2>2, <2>3 DEF ReconcileMergedQa
<1>3. CASE PauseAtGate(t)
  BY <1>3 DEF PauseAtGate, Approved
<1>4. CASE NothingReady(t)
  <2>1. \A n \in NodeTypes \ {"implementation_plan"} : node'[n] # "pending" => Approved("analysis_plan")
    BY <1>4 DEF NothingReady, RefreshNodeReadiness, NodeTypes, DependsOn, HasPendingGate
  <2>2. node'["implementation_plan"] = "completed" => node["implementation_plan"] = "completed"
    BY <1>4 DEF NothingReady, RefreshNodeReadiness, NodeTypes
  <2> QED
    BY <1>4, <2>1, <2>2 DEF NothingReady, Approved
<1>5. ASSUME NEW n \in ExecutableNodes, StartNode(t, n) PROVE HumansDecideFirst'
  <2>1. \A m \in NodeTypes \ {"implementation_plan"} :
            RefreshNodeReadiness(node)[m] # "pending" => Approved("analysis_plan")
    BY <1>5 DEF StartNode, RefreshNodeReadiness, NodeTypes, DependsOn, HasPendingGate
  <2>2. n # "implementation_plan" => Approved("analysis_plan")
    BY <1>5, <2>1 DEF StartNode, NextNode, FindReadyNodes, NodeTypes, ExecutableNodes
  <2>3. \A m \in NodeTypes \ {"implementation_plan"} :
            node'[m] # "pending" => Approved("analysis_plan")
    BY <1>5, <2>1, <2>2, RefreshTypes DEF StartNode, TypeOK
  <2>4. node'["implementation_plan"] = "completed" => node["implementation_plan"] = "completed"
    BY <1>5, RefreshTypes DEF StartNode, RefreshNodeReadiness, NodeTypes, TypeOK
  <2>5. \A u \in Ticks : u # t => tick'[u] = tick[u]
    BY <1>5 DEF StartNode, TypeOK
  <2>6. tick'[t].node = n /\ tick'[t].draft = nodeDraft
    BY <1>5 DEF StartNode, TypeOK
  <2>7. n = "mr_creation" => nodeDraft # NoDraft
    BY <1>5 DEF StartNode, CanBuildContext
  <2> QED
    BY <1>5, <2>2, <2>3, <2>4, <2>5, <2>6, <2>7 DEF StartNode, Approved
<1>6. CASE RefuseToPublish(t)
  <2>1. \A m \in NodeTypes \ {"implementation_plan"} :
            node'[m] # "pending" => Approved("analysis_plan")
    BY <1>6, RefreshTypes DEF RefuseToPublish, NextNode, FindReadyNodes, RefreshNodeReadiness,
       NodeTypes, DependsOn, HasPendingGate, TypeOK
  <2>2. node'["implementation_plan"] = "completed" => node["implementation_plan"] = "completed"
    BY <1>6, RefreshTypes DEF RefuseToPublish, RefreshNodeReadiness, NodeTypes, TypeOK
  <2> QED
    BY <1>6, <2>1, <2>2 DEF RefuseToPublish, Approved
<1>7. CASE PlanSucceeds(t)
  BY <1>7 DEF PlanSucceeds, TypeOK, NodeTypes
<1>8. CASE DevelopmentSucceeds(t)
  <2>1. Approved("analysis_plan") /\ Approved("analysis_plan")'
    BY <1>8 DEF DevelopmentSucceeds
  <2> QED
    BY <1>8, <2>1 DEF DevelopmentSucceeds
<1>9. CASE CreateMergeRequest(t)
  BY <1>9 DEF CreateMergeRequest, Approved
<1>10. CASE PublicationSucceeds(t)
  <2>1. /\ Approved("analysis_plan") /\ Approved("code_review")
        /\ tick[t].draft \in published /\ UNCHANGED published
    BY <1>10 DEF PublicationSucceeds
  <2>2. CASE UNCHANGED << gate, woStatus >>
    BY <1>10, <2>1, <2>2 DEF PublicationSucceeds, Approved
  <2>3. CASE OpenGate("jira_update", NoDraft)
    BY <1>10, <2>1, <2>3 DEF PublicationSucceeds
  <2> QED
    BY <1>10, <2>2, <2>3 DEF PublicationSucceeds
<1>11. CASE NodeFails(t)
  <2>1. \A m \in NodeTypes \ {"implementation_plan"} :
            node'[m] # "pending" => Approved("analysis_plan")
    BY <1>11 DEF NodeFails, TypeOK
  <2>2. node'["implementation_plan"] = "completed" => node["implementation_plan"] = "completed"
    BY <1>11 DEF NodeFails, TypeOK, NodeTypes
  <2> QED
    BY <1>11, <2>1, <2>2 DEF NodeFails, Approved
<1>12. CASE FailureIsRefused(t)
  BY <1>12 DEF FailureIsRefused, Approved
<1> QED
  BY <1>1, <1>2, <1>3, <1>4, <1>5, <1>6, <1>7, <1>8, <1>9, <1>10, <1>11, <1>12 DEF TickStep

\* A decision never takes an approval back, and a draft decision keeps its
\* hands off the approvals of the plan and of the code review.
LEMMA DecisionDecidesFirst ==
    ASSUME TypeOK, HumansDecideFirst, NEW g \in GateIds, Decision(g)
    PROVE  HumansDecideFirst'
<1> USE EndTickEffect, DecideGateEffect
    DEF HumansDecideFirst, PlanIsDecided, PlanComesFirst, ReviewComesFirst,
        UncheckedDecisionsAreAboutDrafts, Running, GateTypes, PlanGates, IsPending
<1>1. ASSUME NEW t \in Ticks, ApproveClarification(g, t) PROVE HumansDecideFirst'
  BY <1>1 DEF ApproveClarification, TypeOK, NodeTypes
<1>2. ASSUME NEW h \in Handlers, ApproveAnalysisPlan(h, g) PROVE HumansDecideFirst'
  BY <1>2 DEF ApproveAnalysisPlan, HandlerGoes, TypeOK, Approved
<1>3. ASSUME NEW h \in Handlers, ApproveCodeReview(h, g) PROVE HumansDecideFirst'
  <2>1. Approved("analysis_plan") /\ Approved("analysis_plan")'
    BY <1>3 DEF ApproveCodeReview
  <2>2. Approved("code_review")'
    BY <1>3 DEF ApproveCodeReview, Approved
  <2>3. \A k \in Handlers : handler'[k].pc \in {"approve_gate", "reject_gate"} =>
            handler'[k] = handler[k] /\ handler[k].gate # g
    BY <1>3 DEF ApproveCodeReview, HandlerGoes, TypeOK
  <2> QED
    BY <1>3, <2>1, <2>2, <2>3 DEF ApproveCodeReview, TypeOK
<1>4. CASE ApproveJiraUpdate(g)
  BY <1>4 DEF ApproveJiraUpdate, TypeOK
<1>5. ASSUME NEW t \in Ticks, RejectPlan(g, t) PROVE HumansDecideFirst'
  BY <1>5 DEF RejectPlan, TypeOK, NodeTypes
<1>6. ASSUME NEW t \in Ticks, RejectCodeReview(g, t) PROVE HumansDecideFirst'
  BY <1>6 DEF RejectCodeReview, ResetPipeline, TypeOK
<1>7. ASSUME NEW h \in Handlers, StartMrApproval(h, g) PROVE HumansDecideFirst'
  BY <1>7 DEF StartMrApproval, CheckDecision, Reviewable, TypeOK, Approved
<1>8. ASSUME NEW h \in Handlers, StartMrRejection(h, g) PROVE HumansDecideFirst'
  BY <1>8 DEF StartMrRejection, CheckDecision, Reviewable, TypeOK, Approved
<1> QED
  BY <1>1, <1>2, <1>3, <1>4, <1>5, <1>6, <1>7, <1>8 DEF Decision

\* The later transactions of a handler, made without checking the gate again,
\* keep the order of approvals: they are about drafts only.
LEMMA HandlerStepDecidesFirst ==
    ASSUME TypeOK, HumansDecideFirst, NEW h \in Handlers, HandlerStep(h)
    PROVE  HumansDecideFirst'
<1> USE EndTickEffect, OpenGateEffect, DecideGateEffect
    DEF HumansDecideFirst, PlanIsDecided, PlanComesFirst, ReviewComesFirst,
        UncheckedDecisionsAreAboutDrafts, Running, GateTypes, PlanGates
<1>1. ASSUME NEW t \in Ticks, CreateScopeContract(h, t) PROVE HumansDecideFirst'
  BY <1>1 DEF CreateScopeContract, HandlerDone, IdleHandler, TypeOK, Approved
<1>2. CASE SaveDraft(h)
  BY <1>2 DEF SaveDraft, TypeOK, Approved
<1>3. CASE AttachDraft(h)
  BY <1>3 DEF AttachDraft, CompleteSyntheticNodes, HandlerGoes, TypeOK, Approved
<1>4. CASE OpenMrReviewGate(h)
  BY <1>4 DEF OpenMrReviewGate, HandlerDone, IdleHandler, TypeOK, HandlerStates
<1>5. CASE ApproveMrGate(h)
  BY <1>5 DEF ApproveMrGate, HandlerGoes, TypeOK
<1>6. CASE ApproveDraft(h)
  BY <1>6 DEF ApproveDraft, HandlerGoes, TypeOK, Approved
<1>7. ASSUME NEW t \in Ticks, MergeIsClean(h, t) PROVE HumansDecideFirst'
  BY <1>7 DEF MergeIsClean, HandlerDone, IdleHandler, TypeOK, Approved
<1>8. CASE MergeConflicts(h)
  BY <1>8 DEF MergeConflicts, HandlerGoes, TypeOK, Approved
<1>9. ASSUME NEW t \in Ticks, RequeueDevelopment(h, t) PROVE HumansDecideFirst'
  BY <1>9 DEF RequeueDevelopment, HandlerDone, IdleHandler, DirectTick, IdleTick, TypeOK, Approved
<1>10. CASE RejectMrGate(h)
  BY <1>10 DEF RejectMrGate, HandlerGoes, TypeOK
<1>11. CASE RejectDraft(h)
  BY <1>11 DEF RejectDraft, HandlerDone, IdleHandler, TypeOK, Approved
<1> QED
  BY <1>1, <1>2, <1>3, <1>4, <1>5, <1>6, <1>7, <1>8, <1>9, <1>10, <1>11 DEF HandlerStep

\* A resume sends nodes back to ready only when they were past pending, so it
\* runs ahead of no approval.
LEMMA ResumeDecidesFirst ==
    ASSUME TypeOK, HumansDecideFirst, NEW t \in Ticks, Resume(t)
    PROVE  HumansDecideFirst'
<1>1. \A n \in NodeTypes : node'[n] # node[n] => node'[n] = "ready" /\ node[n] # "pending"
  BY DEF Resume, MayBeStuck, TypeOK, ExecutableNodes, NodeTypes
<1>2. UNCHANGED << nodeDraft, gate, handler, published >> /\ ScheduleTick(t)
  BY DEF Resume
<1> QED
  BY <1>1, <1>2, EndTickEffect
     DEF HumansDecideFirst, PlanIsDecided, PlanComesFirst, ReviewComesFirst,
         UncheckedDecisionsAreAboutDrafts, Running, Approved, NodeTypes

\* A restart loses threads and no approval.
LEMMA CrashDecidesFirst == TypeOK /\ HumansDecideFirst /\ Crash => HumansDecideFirst'
  BY DEF Crash, IdleTick, IdleHandler, HumansDecideFirst, PlanIsDecided, PlanComesFirst,
         ReviewComesFirst, UncheckedDecisionsAreAboutDrafts, Running, Approved

\* Hence every step keeps the inductive invariant.
LEMMA NextDecidesFirst == TypeOK /\ HumansDecideFirst /\ [Next]_vars => HumansDecideFirst'
<1> SUFFICES ASSUME TypeOK, HumansDecideFirst, [Next]_vars PROVE HumansDecideFirst'
  OBVIOUS
<1>1. CASE UNCHANGED vars
  BY <1>1 DEF vars, HumansDecideFirst, PlanIsDecided, PlanComesFirst, ReviewComesFirst,
              UncheckedDecisionsAreAboutDrafts, Running, Approved
<1> QED
  BY <1>1, TickStepDecidesFirst, DecisionDecidesFirst, HandlerStepDecidesFirst,
     ResumeDecidesFirst, CrashDecidesFirst DEF Next

\* The inductive invariant: on every path, with any threads, failures,
\* restarts and concurrent decisions, approvals come first.
THEOREM ApprovalsComeFirst == Spec => []HumansDecideFirst
  BY InitTypes, NextTypes, InitDecideFirst, NextDecidesFirst, PTL DEF Spec

\* Under that invariant the properties about the publisher and about
\* development are read off its parts.
THEOREM DevelopmentFollowsApproval == Spec => []AnalysisApprovedBeforeDevelopment
<1>1. HumansDecideFirst => AnalysisApprovedBeforeDevelopment
  BY DEF HumansDecideFirst, PlanComesFirst, AnalysisApprovedBeforeDevelopment, LiveRun,
         Running, NodeTypes
<1> QED
  BY <1>1, ApprovalsComeFirst, PTL

\* No publisher runs without a draft or without an approved code review.
THEOREM PublicationFollowsReview == Spec => []PublishesReviewedPatch
<1>1. HumansDecideFirst => PublishesReviewedPatch
  BY DEF HumansDecideFirst, ReviewComesFirst, PublishesReviewedPatch
<1> QED
  BY <1>1, ApprovalsComeFirst, PTL

-----------------------------------------------------------------------------
(* The status of the work order *)

\* Gates and status move together: a gate is opened and awaited, or the status
\* says that something runs or failed, or the last gate is approved.
LEMMA StatusMoves ==
    ASSUME TypeOK, [Next]_vars
    PROVE  \/ UNCHANGED << gate, woStatus >>
           \/ \E type \in GateTypes, d \in DraftIds \cup {NoDraft} : OpenGate(type, d)
           \/ woStatus' \in {"running", "failed", "in_progress"}
           \/ \E g \in GateIds : ApproveJiraUpdate(g)
<1>1. CASE UNCHANGED vars
  BY <1>1 DEF vars
<1>2. ASSUME NEW t \in Ticks, TickStep(t)
      PROVE  \/ UNCHANGED << gate, woStatus >>
             \/ \E type \in GateTypes, d \in DraftIds \cup {NoDraft} : OpenGate(type, d)
             \/ woStatus' \in {"running", "failed"}
  BY <1>2 DEF TickStep, AcquireTickLock, ReconcileMergedQa, PauseAtGate, NothingReady, StartNode,
              RefuseToPublish, PlanSucceeds, DevelopmentSucceeds, CreateMergeRequest,
              PublicationSucceeds, NodeFails, FailureIsRefused, GateTypes, PlanGates
<1>3. ASSUME NEW t \in Ticks, Resume(t)
      PROVE  UNCHANGED << gate, woStatus >> \/ woStatus' = "in_progress"
  BY <1>3 DEF Resume, StatusAfterResume
<1>4. ASSUME NEW h \in Handlers, HandlerStep(h)
      PROVE  \/ UNCHANGED << gate, woStatus >>
             \/ \E type \in GateTypes, d \in DraftIds \cup {NoDraft} : OpenGate(type, d)
             \/ woStatus' = "running"
  <2>1. CASE OpenMrReviewGate(h)
    BY <2>1 DEF OpenMrReviewGate, TypeOK, HandlerStates, GateTypes
  <2> QED
    BY <1>4, <2>1 DEF HandlerStep, CreateScopeContract, SaveDraft, AttachDraft, ApproveMrGate,
                      ApproveDraft, MergeIsClean, MergeConflicts, RequeueDevelopment,
                      RejectMrGate, RejectDraft
<1>5. ASSUME NEW g \in GateIds, Decision(g)
      PROVE  \/ UNCHANGED << gate, woStatus >> \/ woStatus' = "running" \/ ApproveJiraUpdate(g)
  BY <1>5 DEF Decision, ApproveClarification, ApproveAnalysisPlan, ApproveCodeReview,
              RejectPlan, RejectCodeReview, StartMrApproval, StartMrRejection,
              CheckDecision, NextStatusAfterApproval
<1>6. CASE Crash
  BY <1>6 DEF Crash
<1> QED
  BY <1>1, <1>2, <1>3, <1>4, <1>5, <1>6 DEF Next

\* A work order says it awaits a gate only while one is pending: every decision
\* of a gate, even one made twice, takes the status away from awaiting_gate.
THEOREM AwaitedGateExists == Spec => []AwaitingHasGate
<1>1. Init => AwaitingHasGate
  BY DEF Init, NewOrder, LegacyOrder, AwaitingHasGate
<1>2. TypeOK /\ AwaitingHasGate /\ [Next]_vars => AwaitingHasGate'
  <2> SUFFICES ASSUME TypeOK, AwaitingHasGate, [Next]_vars PROVE AwaitingHasGate'
    OBVIOUS
  <2> USE DEF AwaitingHasGate, HasPendingGate
  <2>1. CASE UNCHANGED << gate, woStatus >>
    BY <2>1
  <2>2. CASE \E type \in GateTypes, d \in DraftIds \cup {NoDraft} : OpenGate(type, d)
    BY <2>2, OpenGateEffect
  <2>3. CASE woStatus' \in {"running", "failed", "in_progress"}
    BY <2>3
  <2>4. CASE \E g \in GateIds : ApproveJiraUpdate(g)
    BY <2>4 DEF ApproveJiraUpdate, NextStatusAfterApproval
  <2> QED
    BY <2>1, <2>2, <2>3, <2>4, StatusMoves
<1> QED
  BY <1>1, <1>2, TypeCorrect, PTL DEF Spec

\* A completed work order had its plan, its review and its closing approved by
\* humans, and its publisher created a merge request.
THEOREM CompletedIsDelivered == Spec => []CompletionMeansDelivered
<1>1. Init => CompletionMeansDelivered
  BY DEF Init, NewOrder, LegacyOrder, CompletionMeansDelivered
<1>2. TypeOK /\ HumansDecideFirst /\ CompletionMeansDelivered /\ [Next]_vars
        => CompletionMeansDelivered'
  <2> SUFFICES ASSUME TypeOK, HumansDecideFirst, CompletionMeansDelivered, [Next]_vars
               PROVE  CompletionMeansDelivered'
    OBVIOUS
  <2>1. CASE UNCHANGED << gate, woStatus >>
    <3>1. published \subseteq published'
      BY DEF Next, vars, TickStep, AcquireTickLock, ReconcileMergedQa, PauseAtGate, NothingReady,
             StartNode, RefuseToPublish, PlanSucceeds, DevelopmentSucceeds, CreateMergeRequest,
             PublicationSucceeds, NodeFails, FailureIsRefused, Resume, HandlerStep, CreateScopeContract, SaveDraft,
             AttachDraft, OpenMrReviewGate, ApproveMrGate, ApproveDraft, MergeIsClean,
             MergeConflicts, RequeueDevelopment, RejectMrGate, RejectDraft, Decision,
             ApproveClarification, ApproveAnalysisPlan, ApproveCodeReview, ApproveJiraUpdate,
             RejectPlan, RejectCodeReview, StartMrApproval, StartMrRejection, CheckDecision, Crash
    <3> QED
      BY <2>1, <3>1 DEF CompletionMeansDelivered, Approved
  <2>2. CASE \E type \in GateTypes, d \in DraftIds \cup {NoDraft} : OpenGate(type, d)
    BY <2>2, OpenGateEffect DEF CompletionMeansDelivered
  <2>3. CASE woStatus' \in {"running", "failed", "in_progress"}
    BY <2>3 DEF CompletionMeansDelivered
  <2>4. ASSUME NEW g \in GateIds, ApproveJiraUpdate(g) PROVE CompletionMeansDelivered'
    <3>1. Approved("analysis_plan") /\ Approved("code_review") /\ published # {}
      BY <2>4 DEF ApproveJiraUpdate, IsPending, HumansDecideFirst, PlanComesFirst,
                  ReviewComesFirst, GateTypes, PlanGates
    <3>2. /\ gate[g].status = "pending" /\ gate[g].type = "jira_update"
          /\ DecideGate(g, "approved") /\ UNCHANGED published
      BY <2>4 DEF ApproveJiraUpdate, IsPending
    <3>3. Approved("analysis_plan")' /\ Approved("code_review")'
      BY <3>1, <3>2, DecideGateEffect DEF GateTypes, PlanGates
    <3>4. Approved("jira_update")'
      BY <3>2, DecideGateEffect DEF Approved
    <3> QED
      BY <3>1, <3>2, <3>3, <3>4 DEF CompletionMeansDelivered
  <2> QED
    BY <2>1, <2>2, <2>3, <2>4, StatusMoves
<1> QED
  BY <1>1, <1>2, TypeCorrect, ApprovalsComeFirst, PTL DEF Spec

-----------------------------------------------------------------------------
(* A delivery operated with discipline *)

\* Resume is called when nothing moves and no gate waits, one request decides at a
\* time, and the work order is not a legacy one.  Agents may fail and take long, humans
\* may reject, branches may conflict and the server may restart.
OneAtATime ==
    /\ "impatient_resume" \notin Environment
    /\ ~Legacy
    /\ \A h, k \in Handlers : h = k

\* Besides, no restart, no rejection of a draft and no refused failure comes in between.
Undisturbed ==
    OneAtATime /\ Environment \cap {"crash", "mr_rejection", "refused_failure"} = {}

-----------------------------------------------------------------------------
(* One thread of control, which a pending gate stops. *)

Busy(t) == tick[t].pc # "idle"

PendingGates == { g \in GateIds : gate[g].status = "pending" }

\* Who is at work is alone, ...
Alone ==
    /\ \A t, u \in Ticks : Busy(t) /\ Busy(u) => t = u
    /\ \A t \in Ticks, h \in Handlers : Busy(t) => handler[h].pc = "idle"

\* ... while a gate is pending only a request about that gate is at work, ...
GateStops ==
    /\ OnePendingGate
    /\ HasPendingGate => woStatus = "awaiting_gate" /\ \A t \in Ticks : ~Busy(t)
    /\ \A h \in Handlers :
          /\ handler[h].pc \in {"approve_gate", "reject_gate"} =>
                 gate[handler[h].gate].status = "pending"
          /\ handler[h].pc \notin {"idle", "approve_gate", "reject_gate"} => ~HasPendingGate

\* ... and the rows of the graph say what was done: a row runs with its thread, after
\* the rows before it, ...
RowsFollow ==
    /\ \A t \in Ticks : tick[t].pc = "running" => tick[t].node \in ExecutableNodes
    /\ \A t \in Ticks : \A n \in ExecutableNodes : Running(t, n) => node[n] = "running"
    /\ node["development"] # "pending" => node["implementation_plan"] = "completed"
    /\ node["development"] = "completed" => node["qa_validation"] = "completed"
    /\ devPhase = "merge_conflict_resolution" => node["qa_validation"] = "completed"
    /\ \A t \in Ticks : Running(t, "development") /\ tick[t].phase = "merge_conflict_resolution"
          => node["qa_validation"] = "completed"

\* ... a request is about something that is there ...
RequestsFollow ==
    \A h \in Handlers :
        /\ handler[h].pc # "idle" => node["implementation_plan"] = "completed"
        /\ handler[h].pc \notin {"idle", "scope_contract"} => node["development"] = "completed"

\* ... and so is a pending gate, with nothing done beyond it.
GatesFollow ==
    \A g \in PendingGates :
        /\ gate[g].type # "jira_update" => node["implementation_plan"] = "completed"
        /\ gate[g].type \in PlanGates => node["development"] = "pending"
        /\ gate[g].type \in {"code_review", "merge_request_review"} =>
               node["development"] = "completed"

GraphFollows == RowsFollow /\ RequestsFollow /\ GatesFollow

SoloInv == Alone /\ GateStops /\ GraphFollows

-----------------------------------------------------------------------------
(* Shadow mode. *)

ShadowInv ==
    /\ published = {}
    /\ \A t \in Ticks : ~Running(t, "mr_creation")
    /\ nodeDraft # NoDraft =>
          /\ node["mr_creation"] = "completed" /\ node["development"] = "completed"
          /\ \A g \in PendingGates : gate[g].type # "code_review"
    /\ \A h \in Handlers : handler[h].pc # "requeue"

-----------------------------------------------------------------------------
(* An undisturbed delivery. *)

\* A node that runs has its thread, one that failed has stopped the work order.
NodesAreAttended ==
    /\ node["implementation_plan"] # "pending"
    /\ \A n \in ExecutableNodes :
          /\ node[n] = "running" => LiveRun(n)
          /\ node[n] = "failed" => woStatus = "failed"
    /\ woStatus = "failed" =>
          Quiet /\ ~HasPendingGate /\ \E n \in ExecutableNodes : node[n] = "failed"

Publishable == nodeDraft \in DraftIds /\ draft[nodeDraft] = "approved"

\* The draft that is decided is the one attached, and it is approved before anybody
\* can publish.
DraftFollows ==
    /\ \A g \in PendingGates :
          /\ gate[g].type = "merge_request_review" => gate[g].draft = nodeDraft /\ nodeDraft \in DraftIds
          /\ gate[g].type = "jira_update" =>
                 /\ Publishable
                 /\ node["mr_creation"] = "completed" /\ node["development"] = "completed"
    /\ \A h \in Handlers :
          /\ handler[h].pc = "scope_contract" => node["development"] = "pending"
          /\ handler[h].pc = "attach_draft" => handler[h].draft \in DraftIds
          /\ handler[h].pc \in {"open_mr_gate", "approve_gate", "approve_draft", "merge", "requeue"}
                => handler[h].draft = nodeDraft /\ nodeDraft \in DraftIds
          /\ handler[h].pc \in {"merge", "requeue"} => Publishable
          /\ handler[h].pc \notin {"reject_gate", "reject_draft"}
    /\ ~HasPendingGate /\ (\A h \in Handlers : handler[h].pc = "idle")
       /\ node["development"] = "completed" => Publishable
    /\ \A t \in Ticks : Running(t, "mr_creation") =>
          tick[t].draft = nodeDraft /\ node["development"] = "completed"

\* Nothing is left to do for a completed work order.
CompletedRests ==
    woStatus = "completed" =>
        /\ \A n \in ExecutableNodes : node[n] = "completed"
        /\ ~HasPendingGate
        /\ \A t \in Ticks : tick[t].pc # "running"
        /\ \A h \in Handlers : handler[h].pc = "idle"

UndisturbedInv == NodesAreAttended /\ DraftFollows /\ CompletedRests

-----------------------------------------------------------------------------
(* What the operators of the model write, row by row. *)

LEMMA TickWrites ==
    ASSUME TypeOK, NEW t \in Ticks
    PROVE  /\ EndTick(t) => \A u \in Ticks : tick'[u] = IF u = t THEN IdleTick ELSE tick[u]
           /\ ScheduleTick(t) => /\ ~Busy(t)
                                 /\ \A u \in Ticks : tick'[u] = IF u = t THEN WaitingTick ELSE tick[u]
           /\ IdleTick.pc = "idle" /\ WaitingTick.pc = "waiting" /\ DirectTick.pc = "reconcile"
BY DEF TypeOK, EndTick, ScheduleTick, Busy, IdleTick, WaitingTick, DirectTick

LEMMA HandlerWrites ==
    ASSUME TypeOK, NEW h \in Handlers
    PROVE  /\ \A pc : HandlerGoes(h, pc) =>
                  /\ handler'[h].pc = pc /\ handler'[h].gate = handler[h].gate
                  /\ handler'[h].draft = handler[h].draft
                  /\ \A k \in Handlers \ {h} : handler'[k] = handler[k]
           /\ HandlerDone(h) => /\ handler'[h].pc = "idle"
                                /\ \A k \in Handlers \ {h} : handler'[k] = handler[k]
<1>1. handler[h] \in HandlerStates /\ handler \in [Handlers -> HandlerStates]
  BY DEF TypeOK
<1>2. ASSUME NEW pc, HandlerGoes(h, pc)
      PROVE  /\ handler'[h].pc = pc /\ handler'[h].gate = handler[h].gate
             /\ handler'[h].draft = handler[h].draft
             /\ \A k \in Handlers \ {h} : handler'[k] = handler[k]
  BY <1>1, <1>2 DEF HandlerGoes, HandlerStates
<1>3. QED
  BY <1>1, <1>2 DEF HandlerDone, IdleHandler

\* A new gate is the only one if none was pending, a decided one leaves none if it was
\* the only one.
LEMMA PendingMoves ==
    ASSUME TypeOK, OnePendingGate
    PROVE  /\ \A type \in GateTypes, d \in DraftIds \cup {NoDraft} :
                 OpenGate(type, d) /\ ~HasPendingGate =>
                    /\ OnePendingGate' /\ HasPendingGate' /\ woStatus' = "awaiting_gate"
                    /\ \A g \in PendingGates' : gate'[g].type = type /\ gate'[g].draft = d
           /\ \A g \in PendingGates, decision \in {"approved", "rejected"} :
                 DecideGate(g, decision) => ~HasPendingGate'
<1>1. ASSUME NEW type \in GateTypes, NEW d \in DraftIds \cup {NoDraft},
             OpenGate(type, d), ~HasPendingGate
      PROVE  /\ OnePendingGate' /\ HasPendingGate' /\ woStatus' = "awaiting_gate"
             /\ \A g \in PendingGates' : gate'[g].type = type /\ gate'[g].draft = d
  <2>1. PICK g \in GateIds :
            /\ gate' = [gate EXCEPT ![g] = [type |-> type, status |-> "pending", draft |-> d]]
            /\ woStatus' = "awaiting_gate"
    BY <1>1 DEF OpenGate
  <2>2. \A k \in GateIds : gate'[k] = IF k = g
                                      THEN [type |-> type, status |-> "pending", draft |-> d]
                                      ELSE gate[k]
    BY <2>1 DEF TypeOK
  <2>3. QED
    BY <1>1, <2>1, <2>2 DEF OnePendingGate, HasPendingGate, PendingGates
<1>2. ASSUME NEW g \in PendingGates, NEW decision \in {"approved", "rejected"},
             DecideGate(g, decision)
      PROVE  ~HasPendingGate'
  BY <1>2, DecideGateEffect DEF OnePendingGate, HasPendingGate, PendingGates
<1>3. QED
  BY <1>1, <1>2

-----------------------------------------------------------------------------
(* One thread of control. *)

\* A tick moves itself only.
LEMMA TickStepFrame ==
    ASSUME TypeOK, NEW t \in Ticks, TickStep(t)
    PROVE  Busy(t) /\ UNCHANGED handler /\ \A u \in Ticks \ {t} : tick'[u] = tick[u]
<1>1. \A r : tick' = [tick EXCEPT ![t] = r] => \A u \in Ticks \ {t} : tick'[u] = tick[u]
  BY DEF TypeOK
<1>2. \A pc : tick' = [tick EXCEPT ![t].pc = pc] => \A u \in Ticks \ {t} : tick'[u] = tick[u]
  BY DEF TypeOK
<1>3. UNCHANGED tick => \A u \in Ticks \ {t} : tick'[u] = tick[u]
  OBVIOUS
<1>4. Busy(t) /\ UNCHANGED handler
  BY DEF TickStep, AcquireTickLock, ReconcileMergedQa, PauseAtGate, NothingReady, StartNode,
         RefuseToPublish, PlanSucceeds, DevelopmentSucceeds, CreateMergeRequest,
         PublicationSucceeds, NodeFails, FailureIsRefused, Busy, Running
<1>5. QED
  BY <1>1, <1>2, <1>3, <1>4
     DEF TickStep, AcquireTickLock, ReconcileMergedQa, PauseAtGate, NothingReady, StartNode,
         RefuseToPublish, PlanSucceeds, DevelopmentSucceeds, CreateMergeRequest,
         PublicationSucceeds, NodeFails, FailureIsRefused, EndTick

\* Who is at work is alone, and nobody is while a gate waits.
LEMMA WhoIsAtWork ==
    ASSUME UncheckedDecisionsAreAboutDrafts, OneAtATime, Alone, GateStops
    PROVE  /\ \A t \in Ticks : Busy(t) =>
                 /\ \A u \in Ticks \ {t} : ~Busy(u)
                 /\ \A h \in Handlers : handler[h].pc = "idle"
                 /\ ~HasPendingGate
           /\ \A h, k \in Handlers : h = k
           /\ \A h \in Handlers : handler[h].pc # "idle" => \A t \in Ticks : ~Busy(t)
           /\ \A g \in PendingGates :
                 /\ HasPendingGate
                 /\ \A t \in Ticks : ~Busy(t)
                 /\ gate[g].type # "merge_request_review" =>
                       \A h \in Handlers : handler[h].pc = "idle"
BY DEF Alone, GateStops, OneAtATime, OnePendingGate, HasPendingGate, PendingGates,
       UncheckedDecisionsAreAboutDrafts

LEMMA AloneStep ==
    ASSUME TypeOK, UncheckedDecisionsAreAboutDrafts, OneAtATime, Alone, GateStops, [Next]_vars
    PROVE  Alone'
<1> USE DEF Alone, Busy
<1>1. CASE UNCHANGED vars
  BY <1>1 DEF vars
<1>2. ASSUME NEW t \in Ticks, TickStep(t) PROVE Alone'
  BY <1>2, TickStepFrame
<1>3. ASSUME NEW t \in Ticks, Resume(t) PROVE Alone'
  <2>1. Quiet /\ ScheduleTick(t) /\ UNCHANGED handler
    BY <1>3 DEF Resume, OneAtATime
  <2>2. QED
    BY <2>1, TickWrites DEF Quiet
<1>4. ASSUME NEW g \in GateIds, Decision(g) PROVE Alone'
  <2>1. g \in PendingGates
    BY <1>4 DEF Decision, ApproveJiraUpdate, ApproveClarification, RejectPlan, RejectCodeReview,
                ApproveAnalysisPlan, ApproveCodeReview, StartMrApproval, StartMrRejection,
                CheckDecision, Reviewable, IsPending, PendingGates
  <2>2. ASSUME NEW t \in Ticks,
               ApproveClarification(g, t) \/ RejectPlan(g, t) \/ RejectCodeReview(g, t)
        PROVE  Alone'
    <3>1. ScheduleTick(t) /\ UNCHANGED handler /\ gate[g].type # "merge_request_review"
      BY <2>2 DEF ApproveClarification, RejectPlan, RejectCodeReview, IsPending, PlanGates
    <3>2. QED
      BY <2>1, <3>1, WhoIsAtWork, TickWrites
  <2>3. CASE UNCHANGED tick
    BY <2>1, <2>3, WhoIsAtWork
  <2>4. QED
    BY <1>4, <2>2, <2>3
       DEF Decision, ApproveJiraUpdate, ApproveAnalysisPlan, ApproveCodeReview,
           StartMrApproval, StartMrRejection, CheckDecision
<1>5. ASSUME NEW h \in Handlers, HandlerStep(h) PROVE Alone'
  <2>1. handler[h].pc # "idle"
    BY <1>5 DEF HandlerStep, CreateScopeContract, SaveDraft, AttachDraft, OpenMrReviewGate,
                ApproveMrGate, ApproveDraft, MergeIsClean, MergeConflicts, RequeueDevelopment,
                RejectMrGate, RejectDraft
  <2>2. CASE UNCHANGED tick
    BY <2>1, <2>2, WhoIsAtWork
  <2>3. ASSUME NEW t \in Ticks, HandlerDone(h),
               \/ ScheduleTick(t)
               \/ tick' = [tick EXCEPT ![t] = DirectTick]
        PROVE  Alone'
    <3>1. \A u \in Ticks : u # t => tick'[u] = tick[u]
      BY <2>3, TickWrites DEF TypeOK
    <3>2. \A k \in Handlers : handler'[k].pc = "idle"
      BY <2>3, HandlerWrites, WhoIsAtWork
    <3>3. QED
      BY <2>1, <3>1, <3>2, WhoIsAtWork
  <2>4. QED
    BY <1>5, <2>2, <2>3
       DEF HandlerStep, CreateScopeContract, SaveDraft, AttachDraft, OpenMrReviewGate,
           ApproveMrGate, ApproveDraft, MergeIsClean, MergeConflicts, RequeueDevelopment,
           RejectMrGate, RejectDraft
<1>6. CASE Crash
  BY <1>6, TickWrites DEF Crash
<1>7. QED
  BY <1>1, <1>2, <1>3, <1>4, <1>5, <1>6 DEF Next

\* A step of a tick opens a gate only as its last, and only where none was pending.
LEMMA TickOpensOneGate ==
    ASSUME TypeOK, GraphFollows, NEW t \in Ticks, TickStep(t)
    PROVE  \/ UNCHANGED gate
           \/ /\ EndTick(t)
              /\ \E type \in GateTypes, d \in DraftIds \cup {NoDraft} : OpenGate(type, d)
<1>1. CASE ReconcileMergedQa(t)
  BY <1>1 DEF ReconcileMergedQa, GraphFollows, RowsFollow
<1>2. CASE PlanSucceeds(t) \/ DevelopmentSucceeds(t) \/ PublicationSucceeds(t)
  BY <1>2 DEF PlanSucceeds, DevelopmentSucceeds, PublicationSucceeds, GateTypes, PlanGates
<1>3. QED
  BY <1>1, <1>2 DEF TickStep, AcquireTickLock, PauseAtGate, NothingReady, StartNode,
                    RefuseToPublish, CreateMergeRequest, NodeFails, FailureIsRefused

LEMMA GateStopsStep ==
    ASSUME TypeOK, UncheckedDecisionsAreAboutDrafts, OneAtATime, SoloInv, [Next]_vars
    PROVE  GateStops'
<1> USE DEF SoloInv
<1>0. Alone /\ GateStops /\ GraphFollows /\ OnePendingGate
  BY DEF GateStops
<1>1. CASE UNCHANGED vars
  BY <1>0, <1>1 DEF vars, GateStops, OnePendingGate, HasPendingGate, Busy
<1>2. ASSUME ~HasPendingGate', \A h \in Handlers : handler'[h].pc \notin {"approve_gate", "reject_gate"}
      PROVE  GateStops'
  BY <1>2 DEF GateStops, OnePendingGate, HasPendingGate
<1>3. ASSUME NEW t \in Ticks, TickStep(t) PROVE GateStops'
  <2>1. /\ ~HasPendingGate /\ UNCHANGED handler
        /\ \A u \in Ticks \ {t} : ~Busy(u) /\ tick'[u] = tick[u]
        /\ \A h \in Handlers : handler[h].pc = "idle"
    BY <1>0, <1>3, TickStepFrame, WhoIsAtWork
  <2>2. CASE UNCHANGED gate
    BY <1>2, <2>1, <2>2 DEF HasPendingGate
  <2>3. ASSUME NEW type \in GateTypes, NEW d \in DraftIds \cup {NoDraft},
               OpenGate(type, d), EndTick(t)
        PROVE  GateStops'
    <3>1. OnePendingGate' /\ woStatus' = "awaiting_gate"
      BY <1>0, <2>1, <2>3, PendingMoves
    <3>2. \A u \in Ticks : ~Busy(u)'
      BY <2>1, <2>3, TickWrites DEF Busy
    <3>3. QED
      BY <2>1, <3>1, <3>2 DEF GateStops
  <2>4. QED
    BY <1>0, <1>3, <2>2, <2>3, TickOpensOneGate
<1>4. ASSUME NEW t \in Ticks, Resume(t) PROVE GateStops'
  <2>1. Quiet /\ ~HasPendingGate /\ UNCHANGED << gate, handler >>
    BY <1>4 DEF Resume, OneAtATime
  <2>2. QED
    BY <1>2, <2>1 DEF Quiet, HasPendingGate
<1>5. ASSUME NEW g \in GateIds, Decision(g) PROVE GateStops'
  <2>1. g \in PendingGates
    BY <1>5 DEF Decision, ApproveJiraUpdate, ApproveClarification, RejectPlan, RejectCodeReview,
                ApproveAnalysisPlan, ApproveCodeReview, StartMrApproval, StartMrRejection,
                CheckDecision, Reviewable, IsPending, PendingGates
  <2>2. CASE /\ DecideGate(g, "approved") \/ DecideGate(g, "rejected")
             /\ gate[g].type # "merge_request_review"
             /\ \/ UNCHANGED handler
                \/ \E h \in Handlers : HandlerGoes(h, "scope_contract") \/ HandlerGoes(h, "save_draft")
    <3>1. ~HasPendingGate'
      BY <1>0, <2>1, <2>2, PendingMoves
    <3>2. \A h \in Handlers : handler[h].pc = "idle"
      BY <1>0, <2>1, <2>2, WhoIsAtWork
    <3>3. \A h \in Handlers : handler'[h].pc \notin {"approve_gate", "reject_gate"}
      BY <2>2, <3>2, HandlerWrites
    <3>4. QED
      BY <1>2, <3>1, <3>3
  <2>3. ASSUME NEW h \in Handlers, StartMrApproval(h, g) \/ StartMrRejection(h, g)
        PROVE  GateStops'
    <3>1. /\ UNCHANGED << gate, woStatus, tick >> /\ gate[g].status = "pending"
          /\ handler'[h].gate = g /\ handler'[h].pc \in {"approve_gate", "reject_gate"}
      BY <2>3 DEF StartMrApproval, StartMrRejection, CheckDecision, Reviewable, IsPending, TypeOK
    <3>2. \A k \in Handlers : k = h
      BY DEF OneAtATime
    <3>3. QED
      BY <1>0, <3>1, <3>2 DEF GateStops, OnePendingGate, HasPendingGate, Busy
  <2>4. QED
    BY <1>5, <2>2, <2>3
       DEF Decision, ApproveJiraUpdate, ApproveClarification, RejectPlan, RejectCodeReview,
           ApproveAnalysisPlan, ApproveCodeReview, IsPending, PlanGates
<1>6. ASSUME NEW h \in Handlers, HandlerStep(h) PROVE GateStops'
  <2>1. /\ handler[h].pc # "idle"
        /\ \A k \in Handlers : k = h
        /\ \A t \in Ticks : ~Busy(t)
    <3>1. handler[h].pc # "idle"
      BY <1>6 DEF HandlerStep, CreateScopeContract, SaveDraft, AttachDraft, OpenMrReviewGate,
                  ApproveMrGate, ApproveDraft, MergeIsClean, MergeConflicts, RequeueDevelopment,
                  RejectMrGate, RejectDraft
    <3>2. QED
      BY <1>0, <3>1, WhoIsAtWork
  <2>2. CASE ApproveMrGate(h) \/ RejectMrGate(h)
    <3>1. /\ handler[h].gate \in PendingGates
          /\ DecideGate(handler[h].gate, "approved") \/ DecideGate(handler[h].gate, "rejected")
      BY <1>0, <2>2
         DEF ApproveMrGate, RejectMrGate, GateStops, UncheckedDecisionsAreAboutDrafts, PendingGates
    <3>2. handler'[h].pc \notin {"approve_gate", "reject_gate"}
      BY <2>2, HandlerWrites DEF ApproveMrGate, RejectMrGate
    <3>3. QED
      BY <1>0, <1>2, <2>1, <3>1, <3>2, PendingMoves
  <2>3. CASE OpenMrReviewGate(h)
    <3>1. /\ ~HasPendingGate /\ HandlerDone(h) /\ UNCHANGED tick
          /\ OpenGate("merge_request_review", handler[h].draft)
          /\ handler[h].draft \in DraftIds \cup {NoDraft}
      BY <1>0, <2>3 DEF OpenMrReviewGate, GateStops, TypeOK, HandlerStates
    <3>2. OnePendingGate' /\ woStatus' = "awaiting_gate"
      BY <1>0, <3>1, PendingMoves DEF GateTypes
    <3>3. handler'[h].pc = "idle"
      BY <3>1, HandlerWrites
    <3>4. QED
      BY <2>1, <3>1, <3>2, <3>3 DEF GateStops, Busy
  <2>4. CASE /\ UNCHANGED gate /\ handler[h].pc \notin {"approve_gate", "reject_gate"}
             /\ handler'[h].pc \notin {"approve_gate", "reject_gate"}
    BY <1>0, <1>2, <2>1, <2>4 DEF GateStops, HasPendingGate
  <2>5. CASE \/ \E t \in Ticks : \/ CreateScopeContract(h, t)
                                \/ MergeIsClean(h, t)
                                \/ RequeueDevelopment(h, t)
             \/ SaveDraft(h) \/ AttachDraft(h) \/ ApproveDraft(h) \/ MergeConflicts(h)
             \/ RejectDraft(h)
    <3>1. UNCHANGED gate /\ handler[h].pc \notin {"approve_gate", "reject_gate"}
      BY <2>5 DEF CreateScopeContract, SaveDraft, AttachDraft, ApproveDraft, MergeIsClean,
                  MergeConflicts, RequeueDevelopment, RejectDraft
    <3>2. handler'[h].pc \notin {"approve_gate", "reject_gate"}
      BY <2>5, HandlerWrites
         DEF CreateScopeContract, SaveDraft, AttachDraft, ApproveDraft, MergeIsClean,
             MergeConflicts, RequeueDevelopment, RejectDraft, TypeOK
    <3>3. QED
      BY <2>4, <3>1, <3>2
  <2>6. QED
    BY <1>6, <2>2, <2>3, <2>5 DEF HandlerStep
<1>7. CASE Crash
  BY <1>0, <1>7 DEF Crash, GateStops, OnePendingGate, HasPendingGate, IdleTick, IdleHandler, Busy
<1>8. QED
  BY <1>1, <1>3, <1>4, <1>5, <1>6, <1>7 DEF Next

-----------------------------------------------------------------------------
(* The rows of the graph. *)

\* A refresh makes ready what was pending behind completed rows, and nothing else.
LEMMA RefreshReads ==
    ASSUME TypeOK
    PROVE  /\ \A n \in NodeTypes :
                 RefreshNodeReadiness(node)[n] = node[n]
                 \/ (node[n] = "pending" /\ RefreshNodeReadiness(node)[n] = "ready")
           /\ RefreshNodeReadiness(node)["development"] = node["development"]
              \/ node["implementation_plan"] = "completed"
           /\ RefreshNodeReadiness(node) \in [NodeTypes -> NodeStatus]
BY RefreshTypes DEF TypeOK, RefreshNodeReadiness, NodeTypes, DependsOn

LEMMA TickRowsFollow ==
    ASSUME TypeOK, UncheckedDecisionsAreAboutDrafts, OneAtATime, SoloInv,
           NEW t \in Ticks, TickStep(t)
    PROVE  RowsFollow'
<1> USE DEF SoloInv, GraphFollows, RowsFollow, Running
<1>0. /\ node \in [NodeTypes -> NodeStatus] /\ tick \in [Ticks -> TickStates]
      /\ {"implementation_plan", "development", "qa_validation", "mr_creation"} \subseteq NodeTypes
  BY DEF TypeOK, NodeTypes
<1>1. \A u \in Ticks \ {t} : tick[u].pc = "idle" /\ tick'[u] = tick[u]
  BY TickStepFrame, WhoIsAtWork DEF Busy
<1>2. EndTick(t) => \A u \in Ticks : tick'[u].pc = "idle"
  BY <1>1, TickWrites
<1>3. CASE AcquireTickLock(t) \/ PauseAtGate(t)
  <2>1. CASE AcquireTickLock(t)
    BY <1>0, <1>1, <2>1 DEF AcquireTickLock
  <2>2. CASE PauseAtGate(t)
    BY <1>2, <2>2 DEF PauseAtGate
  <2>3. QED
    BY <1>3, <2>1, <2>2
<1>4. CASE ReconcileMergedQa(t)
  <2>1. /\ \A u \in Ticks : tick'[u].pc # "running"
        /\ UNCHANGED << node, devPhase >>
    BY <1>0, <1>1, <1>4 DEF ReconcileMergedQa
  <2>2. QED
    BY <2>1
<1>5. CASE NothingReady(t) \/ RefuseToPublish(t)
  <2>1. /\ \A u \in Ticks : tick'[u].pc # "running"
        /\ UNCHANGED devPhase
    BY <1>2, <1>5 DEF NothingReady, RefuseToPublish
  <2>2. \A n \in NodeTypes \ {"mr_creation"} : node'[n] = RefreshNodeReadiness(node)[n]
    BY <1>5, RefreshReads DEF NothingReady, RefuseToPublish
  <2>3. QED
    BY <1>0, <2>1, <2>2, RefreshReads
<1>6. ASSUME NEW n \in ExecutableNodes, StartNode(t, n) PROVE RowsFollow'
  <2>1. /\ \A m \in NodeTypes \ {n} : node'[m] = RefreshNodeReadiness(node)[m]
        /\ node'[n] = "running" /\ RefreshNodeReadiness(node)[n] = "ready"
        /\ UNCHANGED devPhase
    BY <1>6, RefreshReads
       DEF StartNode, NextNode, FindReadyNodes, ExecutableNodes, NodeTypes
  <2>2. tick'[t].node = n /\ tick'[t].phase = devPhase
    BY <1>0, <1>6 DEF StartNode
  <2>3. \A u \in Ticks, m \in ExecutableNodes : Running(u, m)' => u = t /\ m = n
    BY <1>1, <2>2
  <2>4. n = "development" => node["implementation_plan"] = "completed"
    BY <2>1, RefreshReads DEF RefreshNodeReadiness, NodeTypes, DependsOn
  <2>5. n = "implementation_plan" => node["development"] = "pending"
    BY <1>0, <2>1, RefreshReads
  <2>6. QED
    BY <1>0, <1>1, <2>1, <2>2, <2>3, <2>4, <2>5, RefreshReads DEF ExecutableNodes
<1>7. CASE PlanSucceeds(t)
  BY <1>0, <1>2, <1>7 DEF PlanSucceeds
<1>8. CASE DevelopmentSucceeds(t)
  <2>1. node["development"] = "running" /\ node["implementation_plan"] = "completed"
    BY <1>8 DEF DevelopmentSucceeds, ExecutableNodes
  <2>2. tick[t].phase = "implement" \/ node["qa_validation"] = "completed"
    BY <1>0, <1>8 DEF DevelopmentSucceeds, TickStates, Phases
  <2>3. node'["qa_validation"] = "completed" /\ node'["implementation_plan"] = "completed"
    BY <1>0, <1>8, <2>1, <2>2 DEF DevelopmentSucceeds
  <2>4. QED
    BY <1>2, <1>8, <2>3 DEF DevelopmentSucceeds
<1>9. CASE CreateMergeRequest(t)
  BY <1>9 DEF CreateMergeRequest
<1>10. CASE PublicationSucceeds(t)
  <2>1. \A n \in {"implementation_plan", "development", "qa_validation"} :
            node'[n] = node[n] \/ (node[n] = "pending" /\ node'[n] = "ready"
                                  /\ (n = "development" => node["implementation_plan"] = "completed"))
    <3> DEFINE completed == [node EXCEPT !["mr_creation"] = "completed"]
    <3>1. node' = completed \/ node' = RefreshNodeReadiness(completed)
      BY <1>10 DEF PublicationSucceeds
    <3>2. completed \in [NodeTypes -> NodeStatus] /\ \A n \in NodeTypes \ {"mr_creation"} : completed[n] = node[n]
      BY <1>0 DEF NodeStatus
    <3> HIDE DEF completed
    <3>3. QED
      BY <1>0, <3>1, <3>2 DEF RefreshNodeReadiness, NodeTypes, DependsOn
  <2>2. EndTick(t) /\ UNCHANGED devPhase
    BY <1>10 DEF PublicationSucceeds
  <2>3. QED
    BY <1>2, <2>1, <2>2
<1>11. CASE NodeFails(t)
  <2>1. /\ tick[t].node \in ExecutableNodes => node[tick[t].node] = "running"
        /\ \A n \in NodeTypes : node'[n] = IF n = tick[t].node THEN "failed" ELSE node[n]
        /\ EndTick(t) /\ UNCHANGED devPhase
    BY <1>0, <1>11 DEF NodeFails
  <2>2. QED
    BY <1>0, <1>2, <2>1 DEF ExecutableNodes, TickStates
<1>12. CASE FailureIsRefused(t)
  BY <1>0, <1>2, <1>12 DEF FailureIsRefused
<1>13. QED
  BY <1>3, <1>4, <1>5, <1>6, <1>7, <1>8, <1>9, <1>10, <1>11, <1>12 DEF TickStep

LEMMA RowsFollowStep ==
    ASSUME TypeOK, HumansDecideFirst, OneAtATime, SoloInv, [Next]_vars
    PROVE  RowsFollow'
<1> USE DEF SoloInv, GraphFollows, RowsFollow, Running
<1>0. /\ node \in [NodeTypes -> NodeStatus] /\ tick \in [Ticks -> TickStates]
      /\ UncheckedDecisionsAreAboutDrafts
      /\ {"implementation_plan", "development", "qa_validation", "mr_creation"} \subseteq NodeTypes
  BY DEF TypeOK, NodeTypes, HumansDecideFirst
<1>1. CASE UNCHANGED vars
  BY <1>1 DEF vars
<1>2. ASSUME NEW t \in Ticks, TickStep(t) PROVE RowsFollow'
  BY <1>0, <1>2, TickRowsFollow
<1>3. ASSUME NEW t \in Ticks, Resume(t) PROVE RowsFollow'
  <2>1. \A u \in Ticks : tick'[u].pc # "running"
    BY <1>3, TickWrites DEF Resume, OneAtATime, Quiet
  <2>2. \A n \in NodeTypes : node'[n] = node[n] \/ (node'[n] = "ready" /\ node[n] \in {"running", "failed"})
    BY <1>3 DEF Resume, MayBeStuck
  <2>3. QED
    BY <1>0, <1>3, <2>1, <2>2 DEF Resume
<1>4. ASSUME NEW g \in GateIds, Decision(g) PROVE RowsFollow'
  <2>1. g \in PendingGates
    BY <1>4 DEF Decision, ApproveJiraUpdate, ApproveClarification, RejectPlan, RejectCodeReview,
                ApproveAnalysisPlan, ApproveCodeReview, StartMrApproval, StartMrRejection,
                CheckDecision, Reviewable, IsPending, PendingGates
  <2>2. /\ \A t \in Ticks : ~Busy(t)
        /\ gate[g].type \in PlanGates => node["development"] = "pending"
        /\ gate[g].type = "code_review" => node["implementation_plan"] = "completed"
    BY <1>0, <2>1, WhoIsAtWork DEF GatesFollow
  <2>3. \A t \in Ticks : tick'[t].pc # "running"
    BY <1>4, <2>2, TickWrites
       DEF Decision, ApproveJiraUpdate, ApproveClarification, RejectPlan, RejectCodeReview,
           ApproveAnalysisPlan, ApproveCodeReview, StartMrApproval, StartMrRejection,
           CheckDecision, Busy
  <2>4. CASE UNCHANGED << node, devPhase >>
    BY <2>3, <2>4
  <2>5. CASE ApproveJiraUpdate(g)
    BY <1>0, <2>3, <2>5 DEF ApproveJiraUpdate
  <2>6. ASSUME NEW t \in Ticks, ApproveClarification(g, t) \/ RejectPlan(g, t) PROVE RowsFollow'
    BY <1>0, <2>2, <2>3, <2>6 DEF ApproveClarification, RejectPlan, IsPending, PlanGates
  <2>7. ASSUME NEW t \in Ticks, RejectCodeReview(g, t) PROVE RowsFollow'
    BY <1>0, <2>2, <2>3, <2>7 DEF RejectCodeReview, ResetPipeline, IsPending
  <2>8. QED
    BY <1>4, <2>4, <2>5, <2>6, <2>7
       DEF Decision, ApproveAnalysisPlan, ApproveCodeReview, StartMrApproval, StartMrRejection,
           CheckDecision
<1>5. ASSUME NEW h \in Handlers, HandlerStep(h) PROVE RowsFollow'
  <2>1. /\ handler[h].pc # "idle" /\ \A t \in Ticks : ~Busy(t)
        /\ node["implementation_plan"] = "completed"
    <3>1. handler[h].pc # "idle"
      BY <1>5 DEF HandlerStep, CreateScopeContract, SaveDraft, AttachDraft, OpenMrReviewGate,
                  ApproveMrGate, ApproveDraft, MergeIsClean, MergeConflicts, RequeueDevelopment,
                  RejectMrGate, RejectDraft
    <3>2. QED
      BY <1>0, <3>1, WhoIsAtWork DEF RequestsFollow
  <2>2. \A t \in Ticks : tick'[t].pc # "running"
    BY <1>0, <1>5, <2>1, TickWrites
       DEF HandlerStep, CreateScopeContract, SaveDraft, AttachDraft, OpenMrReviewGate,
           ApproveMrGate, ApproveDraft, MergeIsClean, MergeConflicts, RequeueDevelopment,
           RejectMrGate, RejectDraft, Busy
  <2>3. CASE UNCHANGED << node, devPhase >>
    BY <2>2, <2>3
  <2>4. CASE AttachDraft(h)
    BY <1>0, <2>2, <2>4 DEF AttachDraft, CompleteSyntheticNodes
  <2>5. ASSUME NEW t \in Ticks, RequeueDevelopment(h, t) PROVE RowsFollow'
    <3>1. node["qa_validation"] = "completed"
      BY <2>5 DEF RequeueDevelopment, RequestsFollow
    <3>2. QED
      BY <1>0, <2>1, <2>2, <2>5, <3>1 DEF RequeueDevelopment
  <2>6. QED
    BY <1>5, <2>3, <2>4, <2>5
       DEF HandlerStep, CreateScopeContract, SaveDraft, OpenMrReviewGate, ApproveMrGate,
           ApproveDraft, MergeIsClean, MergeConflicts, RejectMrGate, RejectDraft
<1>6. CASE Crash
  BY <1>6 DEF Crash, IdleTick
<1>7. QED
  BY <1>1, <1>2, <1>3, <1>4, <1>5, <1>6 DEF Next

\* Requests and gates are about what is there: what they are about changes only when
\* they are decided.
LEMMA RequestsAndGatesFollowStep ==
    ASSUME TypeOK, HumansDecideFirst, OneAtATime, SoloInv, [Next]_vars
    PROVE  RequestsFollow' /\ GatesFollow'
<1> USE DEF SoloInv, GraphFollows
<1>0. /\ node \in [NodeTypes -> NodeStatus] /\ OnePendingGate
      /\ UncheckedDecisionsAreAboutDrafts
      /\ {"implementation_plan", "development", "qa_validation", "mr_creation"} \subseteq NodeTypes
  BY DEF TypeOK, NodeTypes, HumansDecideFirst, GateStops
<1>1. ~HasPendingGate' => GatesFollow'
  BY DEF HasPendingGate, GatesFollow, PendingGates
<1>2. CASE UNCHANGED vars
  BY <1>2 DEF vars, RequestsFollow, GatesFollow, PendingGates
<1>3. ASSUME NEW t \in Ticks, TickStep(t) PROVE RequestsFollow' /\ GatesFollow'
  <2>1. /\ RequestsFollow' /\ ~HasPendingGate
    BY <1>0, <1>3, TickStepFrame, WhoIsAtWork DEF RequestsFollow
  <2>2. CASE UNCHANGED gate
    BY <1>1, <2>1, <2>2 DEF HasPendingGate
  <2>3. CASE ReconcileMergedQa(t)
    BY <2>2, <2>3 DEF ReconcileMergedQa, RowsFollow
  <2>4. CASE PlanSucceeds(t)
    <3>1. PICK type \in PlanGates : OpenGate(type, NoDraft)
      BY <2>4 DEF PlanSucceeds, PlanGates
    <3>2. \A g \in PendingGates' : gate'[g].type = type
      BY <1>0, <2>1, <3>1, PendingMoves DEF GateTypes
    <3>3. node'["implementation_plan"] = "completed" /\ node'["development"] = "pending"
      BY <1>0, <2>4 DEF PlanSucceeds, RowsFollow, ExecutableNodes
    <3>4. QED
      BY <2>1, <3>1, <3>2, <3>3 DEF GatesFollow, PlanGates
  <2>5. CASE DevelopmentSucceeds(t)
    <3>1. \A g \in PendingGates' : gate'[g].type = "code_review"
      BY <1>0, <2>1, <2>5, PendingMoves DEF DevelopmentSucceeds, GateTypes
    <3>2. node'["implementation_plan"] = "completed" /\ node'["development"] = "completed"
      BY <1>0, <2>5 DEF DevelopmentSucceeds, RowsFollow, Running, ExecutableNodes
    <3>3. QED
      BY <2>1, <3>1, <3>2 DEF GatesFollow, PlanGates
  <2>6. CASE PublicationSucceeds(t)
    <3>1. UNCHANGED gate \/ \A g \in PendingGates' : gate'[g].type = "jira_update"
      BY <1>0, <2>1, <2>6, PendingMoves DEF PublicationSucceeds, GateTypes
    <3>2. QED
      BY <2>1, <2>2, <3>1 DEF GatesFollow, PlanGates
  <2>7. QED
    BY <1>3, <2>2, <2>3, <2>4, <2>5, <2>6
       DEF TickStep, AcquireTickLock, PauseAtGate, NothingReady, StartNode, RefuseToPublish,
           CreateMergeRequest, NodeFails, FailureIsRefused
<1>4. ASSUME NEW t \in Ticks, Resume(t) PROVE RequestsFollow' /\ GatesFollow'
  BY <1>1, <1>4 DEF Resume, OneAtATime, Quiet, RequestsFollow, HasPendingGate
<1>5. ASSUME NEW g \in GateIds, Decision(g) PROVE RequestsFollow' /\ GatesFollow'
  <2>1. g \in PendingGates
    BY <1>5 DEF Decision, ApproveJiraUpdate, ApproveClarification, RejectPlan, RejectCodeReview,
                ApproveAnalysisPlan, ApproveCodeReview, StartMrApproval, StartMrRejection,
                CheckDecision, Reviewable, IsPending, PendingGates
  <2>2. CASE UNCHANGED handler
    <3>1. gate[g].type # "merge_request_review" /\ (DecideGate(g, "approved") \/ DecideGate(g, "rejected"))
      BY <1>5, <2>2, HandlerWrites
         DEF Decision, ApproveJiraUpdate, ApproveClarification, RejectPlan, RejectCodeReview,
             ApproveAnalysisPlan, ApproveCodeReview, StartMrApproval, StartMrRejection,
             CheckDecision, IsPending, PlanGates, TypeOK
    <3>2. (\A h \in Handlers : handler[h].pc = "idle") /\ ~HasPendingGate'
      BY <1>0, <2>1, <3>1, WhoIsAtWork, PendingMoves
    <3>3. QED
      BY <1>1, <2>2, <3>2 DEF RequestsFollow
  <2>3. ASSUME NEW h \in Handlers, ApproveAnalysisPlan(h, g) \/ ApproveCodeReview(h, g)
        PROVE  RequestsFollow' /\ GatesFollow'
    <3>1. /\ ~HasPendingGate' /\ UNCHANGED node
          /\ node["implementation_plan"] = "completed"
          /\ ApproveCodeReview(h, g) => node["development"] = "completed"
      BY <1>0, <2>1, <2>3, PendingMoves
         DEF ApproveAnalysisPlan, ApproveCodeReview, GatesFollow, IsPending
    <3>2. /\ ApproveAnalysisPlan(h, g) => handler'[h].pc = "scope_contract"
          /\ ApproveCodeReview(h, g) => handler'[h].pc = "save_draft"
          /\ \A k \in Handlers : k = h
      BY HandlerWrites DEF ApproveAnalysisPlan, ApproveCodeReview, OneAtATime
    <3>3. QED
      BY <1>1, <2>3, <3>1, <3>2 DEF RequestsFollow
  <2>4. ASSUME NEW h \in Handlers, StartMrApproval(h, g) \/ StartMrRejection(h, g)
        PROVE  RequestsFollow' /\ GatesFollow'
    <3>1. UNCHANGED << node, gate >> /\ gate[g].type = "merge_request_review"
      BY <2>4 DEF StartMrApproval, StartMrRejection, CheckDecision, Reviewable, IsPending
    <3>2. node["implementation_plan"] = "completed" /\ node["development"] = "completed"
      BY <2>1, <3>1 DEF GatesFollow
    <3>3. QED
      BY <3>1, <3>2 DEF RequestsFollow, GatesFollow, PendingGates
  <2>5. QED
    BY <1>5, <2>2, <2>3, <2>4
       DEF Decision, ApproveJiraUpdate, ApproveClarification, RejectPlan, RejectCodeReview
<1>6. ASSUME NEW h \in Handlers, HandlerStep(h) PROVE RequestsFollow' /\ GatesFollow'
  <2>1. handler[h].pc # "idle" /\ node["implementation_plan"] = "completed"
        /\ (\A k \in Handlers : k = h)
    BY <1>6 DEF HandlerStep, CreateScopeContract, SaveDraft, AttachDraft, OpenMrReviewGate,
                ApproveMrGate, ApproveDraft, MergeIsClean, MergeConflicts, RequeueDevelopment,
                RejectMrGate, RejectDraft, RequestsFollow, OneAtATime
  <2>2. CASE ApproveMrGate(h) \/ RejectMrGate(h)
    <3>1. /\ handler[h].gate \in PendingGates
          /\ DecideGate(handler[h].gate, "approved") \/ DecideGate(handler[h].gate, "rejected")
      BY <1>0, <2>2
         DEF ApproveMrGate, RejectMrGate, GateStops, UncheckedDecisionsAreAboutDrafts, PendingGates
    <3>2. ~HasPendingGate' /\ node["development"] = "completed" /\ UNCHANGED node
      BY <1>0, <2>2, <3>1, PendingMoves DEF ApproveMrGate, RejectMrGate, RequestsFollow
    <3>3. QED
      BY <1>1, <2>1, <3>2 DEF RequestsFollow
  <2>3. CASE OpenMrReviewGate(h)
    <3>1. /\ ~HasPendingGate /\ HandlerDone(h) /\ UNCHANGED node
          /\ OpenGate("merge_request_review", handler[h].draft)
          /\ handler[h].draft \in DraftIds \cup {NoDraft}
          /\ node["development"] = "completed"
      BY <1>0, <2>3 DEF OpenMrReviewGate, GateStops, TypeOK, HandlerStates, RequestsFollow
    <3>2. /\ \A g \in PendingGates' : gate'[g].type = "merge_request_review"
          /\ handler'[h].pc = "idle"
      BY <1>0, <3>1, PendingMoves, HandlerWrites DEF GateTypes
    <3>3. QED
      BY <2>1, <3>1, <3>2 DEF GatesFollow, RequestsFollow, PlanGates
  <2>4. CASE \/ \E t \in Ticks : CreateScopeContract(h, t) \/ MergeIsClean(h, t)
                                \/ RequeueDevelopment(h, t)
             \/ RejectDraft(h)
    <3>1. /\ ~HasPendingGate' /\ HandlerDone(h)
      BY <2>1, <2>4 DEF CreateScopeContract, MergeIsClean, RequeueDevelopment, RejectDraft,
                        GateStops, HasPendingGate
    <3>2. QED
      BY <1>1, <2>1, <3>1, HandlerWrites DEF RequestsFollow
  <2>5. CASE SaveDraft(h) \/ AttachDraft(h) \/ ApproveDraft(h) \/ MergeConflicts(h)
    <3>1. /\ ~HasPendingGate' /\ node["development"] = "completed"
          /\ \A n \in {"implementation_plan", "development"} : node'[n] = node[n]
      BY <1>0, <2>1, <2>5
         DEF SaveDraft, AttachDraft, ApproveDraft, MergeConflicts, CompleteSyntheticNodes,
             GateStops, HasPendingGate, RequestsFollow
    <3>2. QED
      BY <1>1, <2>1, <3>1 DEF RequestsFollow
  <2>6. QED
    BY <1>6, <2>2, <2>3, <2>4, <2>5 DEF HandlerStep
<1>7. CASE Crash
  BY <1>7 DEF Crash, IdleHandler, RequestsFollow, GatesFollow, PendingGates
<1>8. QED
  BY <1>2, <1>3, <1>4, <1>5, <1>6, <1>7 DEF Next

-----------------------------------------------------------------------------
(* What holds where one thing happens at a time. *)

LEMMA SoloInit == ASSUME Init, OneAtATime PROVE SoloInv
<1>1. \A g \in GateIds : gate[g].status # "pending"
  BY DEF Init, NewOrder, OneAtATime, NoGate
<1>2. \A t \in Ticks : tick[t].pc \in {"idle", "reconcile"}
  BY DEF Init, IdleTick, DirectTick
<1>3. \A h \in Handlers : handler[h].pc = "idle"
  BY DEF Init, IdleHandler
<1>4. \A n \in NodeTypes \ {"implementation_plan"} : node[n] = "pending"
  BY DEF Init, NewOrder, OneAtATime, NodeTypes, DependsOn
<1>5. Alone
  <2>1. \A t, u \in Ticks : Busy(t) /\ Busy(u) => t = u
    BY DEF Init, IdleTick, Busy
  <2>2. QED
    BY <1>3, <2>1 DEF Alone
<1>6. GateStops
  BY <1>1, <1>3 DEF GateStops, OnePendingGate, HasPendingGate
<1>7. GraphFollows
  BY <1>1, <1>2, <1>3, <1>4
     DEF GraphFollows, RowsFollow, RequestsFollow, GatesFollow, PendingGates, Running,
         NodeTypes, Init
<1>8. QED
  BY <1>5, <1>6, <1>7 DEF SoloInv

LEMMA SoloStep ==
    ASSUME TypeOK, HumansDecideFirst, OneAtATime, SoloInv, [Next]_vars
    PROVE  SoloInv'
BY AloneStep, GateStopsStep, RowsFollowStep, RequestsAndGatesFollowStep
   DEF SoloInv, GraphFollows, HumansDecideFirst

\* One thread of control works on the delivery, a pending gate stops it, and the graph
\* follows what was done and decided.
THEOREM OneThingAtATime == ASSUME OneAtATime PROVE Spec => []SoloInv
BY SoloInit, SoloStep, TypeCorrect, ApprovalsComeFirst, PTL DEF Spec

\* A work order never waits for two human decisions at once: open_gate is only called
\* where has_pending_gate is false, though it does not look itself.
THEOREM OneGateAtATime == ASSUME OneAtATime PROVE Spec => []OnePendingGate
<1>1. SoloInv => OnePendingGate
  BY DEF SoloInv, GateStops
<1>2. QED
  BY <1>1, OneThingAtATime, PTL

\* A node is not run twice at a time, and its row says that it runs.
THEOREM OneRunAtATime == ASSUME OneAtATime PROVE Spec => []OneRunPerNode
<1>1. SoloInv => OneRunPerNode
  BY DEF SoloInv, Alone, GraphFollows, RowsFollow, OneRunPerNode, Running, Busy
<1>2. QED
  BY <1>1, OneThingAtATime, PTL

\* The status of the work order and its gates agree: a human is asked whenever the
\* work order says so, and whenever a gate is pending it says so.
THEOREM AwaitedWhilePending == ASSUME OneAtATime PROVE Spec => []AwaitingIffGate
<1>1. SoloInv /\ AwaitingHasGate => AwaitingIffGate
  BY DEF SoloInv, GateStops, AwaitingHasGate, AwaitingIffGate
<1>2. QED
  BY <1>1, OneThingAtATime, AwaitedGateExists, PTL

\* A decided gate stays as it was decided: the transactions that decide a gate without
\* looking at it again find it pending.
THEOREM DecidedForGood == ASSUME OneAtATime PROVE Spec => DecisionsAreFinal
<1>1. ASSUME TypeOK, HumansDecideFirst, SoloInv, [Next]_vars
      PROVE  [\A g \in GateIds : gate[g].status \in {"approved", "rejected"}
                                  => gate'[g] = gate[g]]_vars
  <2>1. CASE UNCHANGED gate
    BY <2>1
  <2>2. ASSUME NEW type \in GateTypes, NEW d \in DraftIds \cup {NoDraft}, OpenGate(type, d)
        PROVE  \A g \in GateIds : gate[g].status \in {"approved", "rejected"} => gate'[g] = gate[g]
    BY <1>1, <2>2, OpenGateEffect
  <2>3. ASSUME NEW g \in PendingGates, DecideGate(g, "approved") \/ DecideGate(g, "rejected")
        PROVE  \A k \in GateIds : gate[k].status \in {"approved", "rejected"} => gate'[k] = gate[k]
    BY <1>1, <2>3, DecideGateEffect DEF PendingGates
  <2>4. ASSUME NEW t \in Ticks, TickStep(t) \/ Resume(t)
        PROVE  UNCHANGED gate \/ \E type \in GateTypes, d \in DraftIds \cup {NoDraft} : OpenGate(type, d)
    BY <1>1, <2>4, TickOpensOneGate DEF Resume, SoloInv
  <2>5. ASSUME NEW g \in GateIds, Decision(g)
        PROVE  \/ UNCHANGED gate
               \/ g \in PendingGates /\ (DecideGate(g, "approved") \/ DecideGate(g, "rejected"))
    BY <2>5 DEF Decision, ApproveJiraUpdate, ApproveClarification, RejectPlan, RejectCodeReview,
                ApproveAnalysisPlan, ApproveCodeReview, StartMrApproval, StartMrRejection,
                CheckDecision, IsPending, PendingGates
  <2>6. ASSUME NEW h \in Handlers, HandlerStep(h)
        PROVE  \/ UNCHANGED gate
               \/ \E type \in GateTypes, d \in DraftIds \cup {NoDraft} : OpenGate(type, d)
               \/ \E g \in PendingGates : DecideGate(g, "approved") \/ DecideGate(g, "rejected")
    <3>1. CASE ApproveMrGate(h) \/ RejectMrGate(h)
      BY <1>1, <3>1 DEF ApproveMrGate, RejectMrGate, SoloInv, GateStops, HumansDecideFirst,
                        UncheckedDecisionsAreAboutDrafts, PendingGates
    <3>2. CASE OpenMrReviewGate(h)
      BY <1>1, <3>2 DEF OpenMrReviewGate, TypeOK, HandlerStates, GateTypes
    <3>3. QED
      BY <2>6, <3>1, <3>2
         DEF HandlerStep, CreateScopeContract, SaveDraft, AttachDraft, ApproveDraft,
             MergeIsClean, MergeConflicts, RequeueDevelopment, RejectDraft
  <2>7. QED
    BY <1>1, <2>1, <2>2, <2>3, <2>4, <2>5, <2>6 DEF Next, Crash, vars
<1>2. QED
  BY <1>1, OneThingAtATime, TypeCorrect, ApprovalsComeFirst, PTL DEF Spec, DecisionsAreFinal

-----------------------------------------------------------------------------
(* Shadow mode: the draft closes the publication node before any tick sees it. *)

LEMMA ShadowStep ==
    ASSUME TypeOK, HumansDecideFirst, OneAtATime, SoloInv, ShadowMode,
           "merge_conflict" \notin Environment, ShadowInv, [Next]_vars
    PROVE  ShadowInv'
<1> USE DEF SoloInv, GraphFollows, ShadowInv, Running
<1>0. /\ node \in [NodeTypes -> NodeStatus] /\ tick \in [Ticks -> TickStates]
      /\ {"implementation_plan", "development", "qa_validation", "mr_creation"} \subseteq NodeTypes
      /\ OnePendingGate /\ UncheckedDecisionsAreAboutDrafts
  BY DEF TypeOK, NodeTypes, GateStops, HumansDecideFirst
<1>1. ASSUME UNCHANGED << nodeDraft, published >>,
             \A t \in Ticks : tick'[t].pc = "running" => tick'[t] = tick[t],
             \A h \in Handlers : handler'[h].pc # "requeue",
             nodeDraft # NoDraft =>
                 /\ node'["mr_creation"] = "completed" /\ node'["development"] = "completed"
                 /\ \A g \in PendingGates' : gate'[g].type # "code_review"
      PROVE  ShadowInv'
  BY <1>1
<1>2. CASE UNCHANGED vars
  BY <1>2 DEF vars, PendingGates
<1>3. ASSUME NEW t \in Ticks, TickStep(t) PROVE ShadowInv'
  <2>1. UNCHANGED handler /\ ~HasPendingGate
    BY <1>0, <1>3, TickStepFrame, WhoIsAtWork
  <2>2. UNCHANGED gate => PendingGates' = {}
    BY <2>1 DEF PendingGates, HasPendingGate
  <2>3. ~CreateMergeRequest(t) /\ ~PublicationSucceeds(t)
    BY DEF CreateMergeRequest, PublicationSucceeds
  <2>4. CASE AcquireTickLock(t)
    BY <1>0, <1>1, <2>1, <2>2, <2>4 DEF AcquireTickLock
  <2>5. CASE ReconcileMergedQa(t)
    BY <1>0, <1>1, <2>1, <2>2, <2>5 DEF ReconcileMergedQa, RowsFollow
  <2>6. CASE PauseAtGate(t)
    BY <1>1, <2>1, <2>2, <2>6, EndTickEffect DEF PauseAtGate
  <2>7. CASE NothingReady(t)
    BY <1>0, <1>1, <2>1, <2>2, <2>7, EndTickEffect, RefreshReads DEF NothingReady
  <2>8. ASSUME NEW n \in ExecutableNodes, StartNode(t, n) PROVE ShadowInv'
    <3>1. /\ node[n] # "completed"
          /\ \A m \in NodeTypes \ {n} : node[m] = "completed" => node'[m] = "completed"
      BY <1>0, <2>8, RefreshReads
         DEF StartNode, NextNode, FindReadyNodes, ExecutableNodes, NodeTypes
    <3>2. n # "mr_creation" /\ (n = "development" => nodeDraft = NoDraft)
      BY <2>8, <3>1 DEF StartNode, CanBuildContext
    <3>3. \A u \in Ticks : tick'[u].node = n \/ tick'[u] = tick[u]
      BY <1>0, <2>8 DEF StartNode
    <3>4. UNCHANGED << gate, nodeDraft, published >>
      BY <2>8 DEF StartNode
    <3>5. QED
      BY <1>0, <2>1, <2>2, <3>1, <3>2, <3>3, <3>4 DEF ExecutableNodes
  <2>9. CASE RefuseToPublish(t)
    <3>1. node["mr_creation"] # "completed"
      BY <1>0, <2>9, RefreshReads DEF RefuseToPublish, NextNode, FindReadyNodes
    <3>2. QED
      BY <1>1, <2>1, <2>9, <3>1, EndTickEffect DEF RefuseToPublish
  <2>10. CASE PlanSucceeds(t)
    <3>1. \A g \in PendingGates' : gate'[g].type # "code_review"
      BY <1>0, <2>1, <2>10, PendingMoves DEF PlanSucceeds, GateTypes, PlanGates
    <3>2. QED
      BY <1>0, <1>1, <2>1, <2>10, <3>1, EndTickEffect DEF PlanSucceeds
  <2>11. CASE DevelopmentSucceeds(t)
    <3>1. nodeDraft = NoDraft
      BY <2>11 DEF DevelopmentSucceeds, RowsFollow, ExecutableNodes
    <3>2. QED
      BY <1>1, <2>1, <2>11, <3>1, EndTickEffect DEF DevelopmentSucceeds
  <2>12. CASE NodeFails(t)
    <3>1. nodeDraft # NoDraft => tick[t].node \notin {"mr_creation", "development"}
      BY <2>12 DEF NodeFails, RowsFollow, ExecutableNodes
    <3>2. QED
      BY <1>0, <1>1, <2>1, <2>2, <2>12, <3>1, EndTickEffect DEF NodeFails
  <2>13. CASE FailureIsRefused(t)
    BY <1>1, <2>1, <2>2, <2>13, EndTickEffect DEF FailureIsRefused
  <2>14. QED
    BY <1>3, <2>3, <2>4, <2>5, <2>6, <2>7, <2>8, <2>9, <2>10, <2>11, <2>12, <2>13 DEF TickStep
<1>4. ASSUME NEW t \in Ticks, Resume(t) PROVE ShadowInv'
  <2>1. \A n \in NodeTypes : node[n] = "completed" => node'[n] = "completed"
    BY <1>4 DEF Resume, MayBeStuck
  <2>2. /\ UNCHANGED << gate, nodeDraft, published, handler >>
        /\ \A u \in Ticks : tick'[u].pc = "running" => tick'[u] = tick[u]
    BY <1>4, EndTickEffect DEF Resume
  <2>3. QED
    BY <1>0, <1>1, <2>1, <2>2 DEF PendingGates
<1>5. ASSUME NEW g \in GateIds, Decision(g) PROVE ShadowInv'
  <2>1. g \in PendingGates
    BY <1>5 DEF Decision, ApproveJiraUpdate, ApproveClarification, RejectPlan, RejectCodeReview,
                ApproveAnalysisPlan, ApproveCodeReview, StartMrApproval, StartMrRejection,
                CheckDecision, Reviewable, IsPending, PendingGates
  <2>2. /\ UNCHANGED << nodeDraft, published >>
        /\ \A u \in Ticks : tick'[u].pc = "running" => tick'[u] = tick[u]
    BY <1>5, EndTickEffect
       DEF Decision, ApproveJiraUpdate, ApproveClarification, RejectPlan, RejectCodeReview,
           ApproveAnalysisPlan, ApproveCodeReview, StartMrApproval, StartMrRejection,
           CheckDecision
  <2>3. \A h \in Handlers : handler'[h].pc # "requeue"
    BY <1>5, HandlerWrites
       DEF Decision, ApproveJiraUpdate, ApproveClarification, RejectPlan, RejectCodeReview,
           ApproveAnalysisPlan, ApproveCodeReview, StartMrApproval, StartMrRejection,
           CheckDecision, TypeOK
  <2>4. \A k \in PendingGates' : k \in PendingGates /\ gate'[k].type = gate[k].type
    BY <1>5, <2>1, DecideGateEffect
       DEF Decision, ApproveJiraUpdate, ApproveClarification, RejectPlan, RejectCodeReview,
           ApproveAnalysisPlan, ApproveCodeReview, StartMrApproval, StartMrRejection,
           CheckDecision, PendingGates
  <2>5. nodeDraft # NoDraft =>
            node'["mr_creation"] = "completed" /\ node'["development"] = "completed"
    BY <1>0, <1>5, <2>1
       DEF Decision, ApproveJiraUpdate, ApproveClarification, RejectPlan, RejectCodeReview,
           ApproveAnalysisPlan, ApproveCodeReview, StartMrApproval, StartMrRejection,
           CheckDecision, IsPending
  <2>6. QED
    BY <1>1, <2>2, <2>3, <2>4, <2>5
<1>6. ASSUME NEW h \in Handlers, HandlerStep(h) PROVE ShadowInv'
  <2>1. ~MergeConflicts(h) /\ \A t \in Ticks : ~RequeueDevelopment(h, t)
    BY DEF MergeConflicts, RequeueDevelopment
  <2>2. \A k \in Handlers : handler'[k].pc # "requeue"
    BY <1>6, <2>1, HandlerWrites
       DEF HandlerStep, CreateScopeContract, SaveDraft, AttachDraft, OpenMrReviewGate,
           ApproveMrGate, ApproveDraft, MergeIsClean, RejectMrGate, RejectDraft, TypeOK
  <2>3. \A u \in Ticks : tick'[u].pc = "running" => tick'[u] = tick[u]
    BY <1>6, <2>1, EndTickEffect
       DEF HandlerStep, CreateScopeContract, SaveDraft, AttachDraft, OpenMrReviewGate,
           ApproveMrGate, ApproveDraft, MergeIsClean, RejectMrGate, RejectDraft
  <2>4. CASE AttachDraft(h)
    <3>1. ~HasPendingGate' /\ node["development"] = "completed"
      BY <2>4 DEF AttachDraft, GateStops, HasPendingGate, RowsFollow, RequestsFollow
    <3>2. node'["development"] = "completed" /\ node'["mr_creation"] = "completed"
      BY <1>0, <2>4, <3>1 DEF AttachDraft, CompleteSyntheticNodes
    <3>3. QED
      BY <2>2, <2>3, <2>4, <3>1, <3>2 DEF AttachDraft, HasPendingGate, PendingGates
  <2>5. CASE OpenMrReviewGate(h)
    <3>1. ~HasPendingGate /\ handler[h].draft \in DraftIds \cup {NoDraft}
      BY <2>5 DEF OpenMrReviewGate, GateStops, TypeOK, HandlerStates
    <3>2. \A g \in PendingGates' : gate'[g].type # "code_review"
      BY <1>0, <2>5, <3>1, PendingMoves DEF OpenMrReviewGate, GateTypes
    <3>3. QED
      BY <1>1, <2>2, <2>3, <2>5, <3>2 DEF OpenMrReviewGate
  <2>6. CASE ApproveMrGate(h) \/ RejectMrGate(h)
    <3>1. ~HasPendingGate'
      BY <1>0, <2>6, PendingMoves
         DEF ApproveMrGate, RejectMrGate, GateStops, UncheckedDecisionsAreAboutDrafts, PendingGates
    <3>2. QED
      BY <1>1, <2>2, <2>3, <2>6, <3>1
         DEF ApproveMrGate, RejectMrGate, HasPendingGate, PendingGates
  <2>7. CASE UNCHANGED << node, gate, nodeDraft, published >>
    BY <1>1, <2>2, <2>3, <2>7 DEF PendingGates
  <2>8. QED
    BY <1>6, <2>1, <2>4, <2>5, <2>6, <2>7
       DEF HandlerStep, CreateScopeContract, SaveDraft, ApproveDraft, MergeIsClean, RejectDraft
<1>7. CASE Crash
  BY <1>7 DEF Crash, IdleTick, IdleHandler, PendingGates
<1>8. QED
  BY <1>2, <1>3, <1>4, <1>5, <1>6, <1>7 DEF Next

\* In shadow mode the draft's node is closed together with the attachment of the draft,
\* so no publisher ever has both a ready node and a draft, whatever is reset or resumed.
\* A branch that conflicts is the exception: it sends the delivery back to development
\* with the draft still attached.
THEOREM ShadowStaysDry ==
    ASSUME OneAtATime, "merge_conflict" \notin Environment
    PROVE  Spec => []ShadowPublishesNothing
<1>1. CASE ShadowMode
  <2>1. Init => ShadowInv
    <3>1. Init => \A t \in Ticks : tick[t].pc # "running"
      BY DEF Init, IdleTick, DirectTick
    <3>2. Init => \A h \in Handlers : handler[h].pc # "requeue"
      BY DEF Init, IdleHandler
    <3>3. QED
      BY <3>1, <3>2 DEF Init, ShadowInv, Running
  <2>2. TypeOK /\ HumansDecideFirst /\ SoloInv /\ ShadowInv /\ [Next]_vars => ShadowInv'
    BY <1>1, ShadowStep
  <2>3. ShadowInv => ShadowPublishesNothing
    BY DEF ShadowInv, ShadowPublishesNothing
  <2>4. QED
    BY <2>1, <2>2, <2>3, TypeCorrect, ApprovalsComeFirst, OneThingAtATime, PTL DEF Spec
<1>2. CASE ~ShadowMode
  <2>1. ShadowPublishesNothing
    BY <1>2 DEF ShadowPublishesNothing
  <2>2. QED
    BY <2>1, PTL
<1>3. QED
  BY <1>1, <1>2

-----------------------------------------------------------------------------
(* An undisturbed delivery. *)

\* While somebody is at work nothing has failed, and what runs, runs in a thread.
LEMMA AtWork ==
    ASSUME TypeOK, Undisturbed, SoloInv, NodesAreAttended, NEW t \in Ticks, Busy(t)
    PROVE  /\ woStatus # "failed"
           /\ \A n \in ExecutableNodes :
                 /\ node[n] # "failed"
                 /\ node[n] = "running" => Running(t, n)
BY DEF SoloInv, Alone, NodesAreAttended, LiveRun, Running, Busy, Quiet

\* A publisher that could start has a developed and approved draft to publish.
LEMMA PublisherHasItsDraft ==
    ASSUME TypeOK, HumansDecideFirst, Undisturbed, SoloInv, NodesAreAttended, DraftFollows,
           NEW t \in Ticks, tick[t].pc = "prepare", ~HasPendingGate, NextNode("mr_creation")
    PROVE  node["development"] = "completed" /\ Publishable
<1>1. /\ Busy(t) /\ (\A n \in ExecutableNodes : ~Running(t, n))
      /\ node["implementation_plan"] \in {"ready", "completed"}
  BY AtWork DEF Busy, Running, NodesAreAttended, TypeOK, NodeStatus, NodeTypes, ExecutableNodes
<1>2. node["development"] \in {"pending", "ready", "completed"}
  BY <1>1, AtWork DEF TypeOK, NodeStatus, NodeTypes, ExecutableNodes
<1>3. \A n \in {"implementation_plan", "development"} : n \notin FindReadyNodes(RefreshNodeReadiness(node))
  BY DEF NextNode, Rank, FindReadyNodes, ExecutableNodes
<1>4. node["implementation_plan"] = "completed"
  BY <1>1, <1>3 DEF FindReadyNodes, RefreshNodeReadiness, ExecutableNodes, NodeTypes
<1>5. node["development"] = "completed"
  BY <1>2, <1>3, <1>4
     DEF FindReadyNodes, RefreshNodeReadiness, ExecutableNodes, NodeTypes, DependsOn
<1>6. \A h \in Handlers : handler[h].pc = "idle"
  BY <1>1, WhoIsAtWork DEF SoloInv, Undisturbed, HumansDecideFirst
<1>7. QED
  BY <1>5, <1>6 DEF DraftFollows

\* Hence no publication is refused for want of a draft.
LEMMA NothingIsRefused ==
    ASSUME TypeOK, HumansDecideFirst, Undisturbed, SoloInv, NodesAreAttended, DraftFollows,
           NEW t \in Ticks
    PROVE  ~RefuseToPublish(t)
BY PublisherHasItsDraft, ConstantsAssumption
   DEF RefuseToPublish, CanBuildContext, Publishable, DraftIds, NoDraft

LEMMA AttendedTickStep ==
    ASSUME TypeOK, HumansDecideFirst, Undisturbed, SoloInv, NodesAreAttended, DraftFollows,
           NEW t \in Ticks, TickStep(t)
    PROVE  NodesAreAttended'
<1> USE DEF Undisturbed, Running
<1>0. /\ node \in [NodeTypes -> NodeStatus] /\ tick \in [Ticks -> TickStates]
      /\ ExecutableNodes \subseteq NodeTypes
  BY DEF TypeOK, NodeTypes, ExecutableNodes
<1>1. /\ Busy(t) /\ woStatus # "failed" /\ ~HasPendingGate
      /\ node["implementation_plan"] # "pending"
      /\ \A h \in Handlers : handler'[h].pc = "idle"
      /\ \A u \in Ticks \ {t} : tick'[u].pc = "idle"
      /\ \A n \in ExecutableNodes :
            /\ node[n] # "failed"
            /\ node[n] = "running" => tick[t].pc = "running" /\ tick[t].node = n
  BY TickStepFrame, WhoIsAtWork, AtWork DEF SoloInv, HumansDecideFirst, NodesAreAttended, Busy
<1>2. ASSUME woStatus' # "failed", node'["implementation_plan"] # "pending",
             \A n \in ExecutableNodes : node'[n] \notin {"failed", "running"}
      PROVE  NodesAreAttended'
  BY <1>2 DEF NodesAreAttended
<1>3. CASE AcquireTickLock(t)
  BY <1>1, <1>2, <1>3 DEF AcquireTickLock
<1>4. CASE ReconcileMergedQa(t)
  BY <1>1, <1>2, <1>4
     DEF ReconcileMergedQa, SoloInv, GraphFollows, RowsFollow
<1>5. CASE PauseAtGate(t)
  BY <1>1, <1>5 DEF PauseAtGate
<1>6. CASE NothingReady(t)
  <2>1. \A n \in ExecutableNodes : node'[n] \notin {"failed", "running"}
    BY <1>0, <1>1, <1>6, RefreshReads DEF NothingReady
  <2>2. node'["implementation_plan"] # "pending" /\ woStatus' # "failed"
    BY <1>0, <1>1, <1>6, RefreshReads DEF NothingReady, ExecutableNodes
  <2>3. QED
    BY <1>2, <2>1, <2>2
<1>7. ASSUME NEW n \in ExecutableNodes, StartNode(t, n) PROVE NodesAreAttended'
  <2>1. /\ \A m \in NodeTypes \ {n} : node'[m] = RefreshNodeReadiness(node)[m]
        /\ node'[n] = "running" /\ woStatus' = "running"
    BY <1>0, <1>7, RefreshReads DEF StartNode
  <2>2. tick'[t].pc = "running" /\ tick'[t].node = n
    BY <1>0, <1>7 DEF StartNode
  <2>3. \A m \in ExecutableNodes \ {n} : node'[m] \notin {"failed", "running"}
    BY <1>0, <1>1, <1>7, <2>1, RefreshReads DEF StartNode
  <2>4. node'["implementation_plan"] # "pending"
    BY <1>0, <1>1, <2>1, RefreshReads DEF ExecutableNodes
  <2>5. QED
    BY <2>1, <2>2, <2>3, <2>4 DEF NodesAreAttended, LiveRun
<1>8. ~RefuseToPublish(t)
  BY NothingIsRefused
<1>9. CASE PlanSucceeds(t)
  <2>1. \A n \in NodeTypes : node'[n] = IF n = "implementation_plan" THEN "completed" ELSE node[n]
    BY <1>0, <1>9 DEF PlanSucceeds
  <2>2. woStatus' = "awaiting_gate"
    BY <1>9 DEF PlanSucceeds, OpenGate
  <2>3. QED
    BY <1>0, <1>1, <1>2, <1>9, <2>1, <2>2 DEF PlanSucceeds, ExecutableNodes
<1>10. CASE DevelopmentSucceeds(t)
  <2>1. \A n \in ExecutableNodes : node'[n] = IF n = "development" THEN "completed" ELSE node[n]
    BY <1>0, <1>10 DEF DevelopmentSucceeds, ExecutableNodes
  <2>2. woStatus' = "awaiting_gate"
    BY <1>10 DEF DevelopmentSucceeds, OpenGate
  <2>3. QED
    BY <1>0, <1>1, <1>2, <1>10, <2>1, <2>2 DEF DevelopmentSucceeds, ExecutableNodes
<1>11. CASE CreateMergeRequest(t)
  BY <1>11 DEF CreateMergeRequest, NodesAreAttended, LiveRun, Quiet, HasPendingGate
<1>12. CASE PublicationSucceeds(t)
  <2>1. \A n \in ExecutableNodes :
            IF n = "mr_creation" THEN node'[n] = "completed"
            ELSE node'[n] = node[n] \/ (node[n] = "pending" /\ node'[n] = "ready")
    <3> DEFINE completed == [node EXCEPT !["mr_creation"] = "completed"]
    <3>1. node' = completed \/ node' = RefreshNodeReadiness(completed)
      BY <1>12 DEF PublicationSucceeds
    <3>2. \A n \in NodeTypes : completed[n] = IF n = "mr_creation" THEN "completed" ELSE node[n]
      BY <1>0
    <3> HIDE DEF completed
    <3>3. QED
      BY <1>0, <3>1, <3>2 DEF RefreshNodeReadiness
  <2>2. woStatus' = "awaiting_gate" /\ tick[t].node = "mr_creation"
    BY <1>1, <1>12 DEF PublicationSucceeds, OpenGate, HasPendingGate, IsPending
  <2>3. QED
    BY <1>1, <1>2, <2>1, <2>2 DEF ExecutableNodes
<1>13. CASE NodeFails(t)
  <2>1. \A n \in NodeTypes : node'[n] = IF n = tick[t].node THEN "failed" ELSE node[n]
    BY <1>0, <1>13 DEF NodeFails
  <2>2. tick[t].node \in ExecutableNodes
    BY <1>0, <1>13, <1>1 DEF NodeFails, TickStates, SoloInv, GraphFollows, RowsFollow
  <2>3. Quiet' /\ ~HasPendingGate'
    BY <1>1, <1>13, TickWrites DEF NodeFails, Quiet, HasPendingGate
  <2>4. QED
    BY <1>0, <1>1, <1>13, <2>1, <2>2, <2>3 DEF NodeFails, NodesAreAttended, ExecutableNodes
<1>14. ~FailureIsRefused(t)
  BY DEF FailureIsRefused
<1>15. QED
  BY <1>3, <1>4, <1>5, <1>6, <1>7, <1>8, <1>9, <1>10, <1>11, <1>12, <1>13, <1>14 DEF TickStep

LEMMA AttendedStep ==
    ASSUME TypeOK, HumansDecideFirst, Undisturbed, SoloInv, NodesAreAttended, DraftFollows,
           [Next]_vars
    PROVE  NodesAreAttended'
<1> USE DEF Undisturbed, Running
<1>0. /\ node \in [NodeTypes -> NodeStatus] /\ ExecutableNodes \subseteq NodeTypes
      /\ node["implementation_plan"] # "pending"
      /\ OneAtATime /\ UncheckedDecisionsAreAboutDrafts /\ Alone /\ GateStops
  BY DEF TypeOK, NodeTypes, ExecutableNodes, NodesAreAttended, HumansDecideFirst, SoloInv
<1>1. ASSUME woStatus' # "failed", node'["implementation_plan"] # "pending",
             \A n \in ExecutableNodes : node'[n] \notin {"failed", "running"}
      PROVE  NodesAreAttended'
  BY <1>1 DEF NodesAreAttended
<1>2. (\A t \in Ticks : ~Busy(t)) /\ woStatus # "failed" =>
          \A n \in ExecutableNodes : node[n] \notin {"failed", "running"}
  BY DEF NodesAreAttended, LiveRun, Busy
<1>3. CASE UNCHANGED vars
  BY <1>3 DEF vars, NodesAreAttended, LiveRun, Quiet, HasPendingGate
<1>4. ASSUME NEW t \in Ticks, TickStep(t) PROVE NodesAreAttended'
  BY <1>4, AttendedTickStep
<1>5. ASSUME NEW t \in Ticks, Resume(t) PROVE NodesAreAttended'
  <2>1. Quiet /\ ~HasPendingGate
    BY <1>5 DEF Resume, OneAtATime
  <2>2. \A n \in ExecutableNodes : node[n] # "running"
    BY <2>1 DEF NodesAreAttended, LiveRun, Quiet
  <2>3. \A n \in ExecutableNodes : node'[n] = IF node[n] = "failed" THEN "ready" ELSE node[n]
    BY <1>0, <1>5, <2>2 DEF Resume, MayBeStuck
  <2>4. woStatus' # "failed"
    <3>1. woStatus = "failed" => { n \in ExecutableNodes : node[n] = "failed" } # {}
      BY DEF NodesAreAttended
    <3>2. QED
      BY <1>5, <3>1 DEF Resume, StatusAfterResume
  <2>5. QED
    BY <1>0, <1>1, <2>2, <2>3, <2>4 DEF ExecutableNodes
<1>6. ASSUME NEW g \in GateIds, Decision(g) PROVE NodesAreAttended'
  <2>1. g \in PendingGates
    BY <1>6 DEF Decision, ApproveJiraUpdate, ApproveClarification, RejectPlan, RejectCodeReview,
                ApproveAnalysisPlan, ApproveCodeReview, StartMrApproval, StartMrRejection,
                CheckDecision, Reviewable, IsPending, PendingGates
  <2>2. /\ woStatus # "failed" /\ \A n \in ExecutableNodes : node[n] \notin {"failed", "running"}
    BY <1>0, <1>2, <2>1, WhoIsAtWork DEF NodesAreAttended
  <2>3. woStatus' # "failed"
    BY <1>6, <2>2
       DEF Decision, ApproveJiraUpdate, ApproveClarification, RejectPlan, RejectCodeReview,
           ApproveAnalysisPlan, ApproveCodeReview, StartMrApproval, StartMrRejection,
           CheckDecision, NextStatusAfterApproval
  <2>4. /\ \A n \in ExecutableNodes \ {"mr_creation"} : node'[n] = "ready" \/ node'[n] = node[n]
        /\ node'["mr_creation"] \in {"pending", node["mr_creation"]}
    <3>1. CASE UNCHANGED node
      BY <3>1
    <3>2. ASSUME NEW t \in Ticks, RejectCodeReview(g, t)
          PROVE  /\ \A n \in ExecutableNodes \ {"mr_creation"} :
                       node'[n] = "ready" \/ node'[n] = node[n]
                 /\ node'["mr_creation"] = "pending"
      BY <1>0, <3>2 DEF RejectCodeReview, ResetPipeline, ExecutableNodes
    <3>3. QED
      BY <1>0, <1>6, <3>1, <3>2
         DEF Decision, ApproveJiraUpdate, ApproveClarification, RejectPlan, RejectCodeReview,
             ApproveAnalysisPlan, ApproveCodeReview, StartMrApproval, StartMrRejection,
             CheckDecision, ExecutableNodes
  <2>5. QED
    BY <1>0, <1>1, <2>2, <2>3, <2>4 DEF ExecutableNodes
<1>7. ASSUME NEW h \in Handlers, HandlerStep(h) PROVE NodesAreAttended'
  <2>1. /\ woStatus # "failed" /\ \A n \in ExecutableNodes : node[n] \notin {"failed", "running"}
    <3>1. handler[h].pc # "idle"
      BY <1>7 DEF HandlerStep, CreateScopeContract, SaveDraft, AttachDraft, OpenMrReviewGate,
                  ApproveMrGate, ApproveDraft, MergeIsClean, MergeConflicts, RequeueDevelopment,
                  RejectMrGate, RejectDraft
    <3>2. QED
      BY <1>0, <1>2, <3>1, WhoIsAtWork DEF NodesAreAttended, Quiet
  <2>2. woStatus' # "failed"
    BY <1>7, <2>1
       DEF HandlerStep, CreateScopeContract, SaveDraft, AttachDraft, OpenMrReviewGate,
           ApproveMrGate, ApproveDraft, MergeIsClean, MergeConflicts, RequeueDevelopment,
           RejectMrGate, RejectDraft, OpenGate
  <2>3. \A n \in ExecutableNodes : node'[n] \in {"ready", "completed"} \/ node'[n] = node[n]
    BY <1>0, <1>7
       DEF HandlerStep, CreateScopeContract, SaveDraft, AttachDraft, OpenMrReviewGate,
           ApproveMrGate, ApproveDraft, MergeIsClean, MergeConflicts, RequeueDevelopment,
           RejectMrGate, RejectDraft, CompleteSyntheticNodes
  <2>4. QED
    BY <1>0, <1>1, <2>1, <2>2, <2>3 DEF ExecutableNodes
<1>8. ~Crash
  BY DEF Crash
<1>9. QED
  BY <1>3, <1>4, <1>5, <1>6, <1>7, <1>8 DEF Next

LEMMA DraftTickStep ==
    ASSUME TypeOK, HumansDecideFirst, Undisturbed, SoloInv, NodesAreAttended, DraftFollows,
           NEW t \in Ticks, TickStep(t)
    PROVE  DraftFollows'
<1> USE DEF Running, Publishable
<1>0. /\ node \in [NodeTypes -> NodeStatus] /\ tick \in [Ticks -> TickStates]
      /\ {"implementation_plan", "development", "mr_creation"} \subseteq NodeTypes
      /\ OnePendingGate /\ OneAtATime /\ SoloInv /\ Alone /\ GateStops /\ RowsFollow
      /\ UncheckedDecisionsAreAboutDrafts
  BY DEF TypeOK, NodeTypes, SoloInv, GateStops, GraphFollows, HumansDecideFirst, Undisturbed
<1>1. /\ ~HasPendingGate /\ UNCHANGED << draft, handler >>
      /\ \A h \in Handlers : handler[h].pc = "idle" /\ handler'[h].pc = "idle"
      /\ \A u \in Ticks \ {t} : tick[u].pc = "idle" /\ tick'[u] = tick[u]
  <2>1. UNCHANGED draft
    BY DEF TickStep, AcquireTickLock, ReconcileMergedQa, PauseAtGate, NothingReady, StartNode,
           RefuseToPublish, PlanSucceeds, DevelopmentSucceeds, CreateMergeRequest,
           PublicationSucceeds, NodeFails, FailureIsRefused
  <2>2. QED
    BY <1>0, <2>1, TickStepFrame, WhoIsAtWork DEF Busy
<1>2. node["development"] = "completed" => Publishable
  BY <1>1 DEF DraftFollows
<1>3. ASSUME UNCHANGED << gate, nodeDraft >>, tick'[t].pc # "running",
             node'["development"] = "completed" => node["development"] = "completed"
      PROVE  DraftFollows'
  <2>1. PendingGates' = {}
    BY <1>1, <1>3 DEF PendingGates, HasPendingGate
  <2>2. QED
    BY <1>1, <1>2, <1>3, <2>1 DEF DraftFollows
<1>4. EndTick(t) => tick'[t].pc = "idle"
  BY TickWrites
<1>5. CASE AcquireTickLock(t)
  BY <1>0, <1>3, <1>5 DEF AcquireTickLock
<1>6. CASE ReconcileMergedQa(t)
  BY <1>0, <1>1, <1>3, <1>6 DEF ReconcileMergedQa, RowsFollow
<1>7. CASE PauseAtGate(t)
  BY <1>3, <1>4, <1>7 DEF PauseAtGate
<1>8. CASE NothingReady(t)
  BY <1>0, <1>3, <1>4, <1>8, RefreshReads DEF NothingReady
<1>9. ASSUME NEW n \in ExecutableNodes, StartNode(t, n) PROVE DraftFollows'
  <2>1. tick'[t].node = n /\ tick'[t].draft = nodeDraft
    BY <1>0, <1>9 DEF StartNode
  <2>2. n = "mr_creation" => node["development"] = "completed"
    BY <1>1, <1>9, PublisherHasItsDraft DEF StartNode
  <2>3. node'["development"] = IF n = "development" THEN "running"
                               ELSE RefreshNodeReadiness(node)["development"]
    BY <1>0, <1>9, RefreshReads DEF StartNode
  <2>4. PendingGates' = {} /\ UNCHANGED << gate, nodeDraft >>
    BY <1>1, <1>9 DEF StartNode, PendingGates, HasPendingGate
  <2>5. QED
    BY <1>0, <1>1, <1>2, <2>1, <2>2, <2>3, <2>4, RefreshReads DEF DraftFollows
<1>10. ~RefuseToPublish(t)
  BY NothingIsRefused
<1>11. ASSUME HasPendingGate', tick'[t].pc # "running",
              \A g \in PendingGates' : gate'[g].type \notin {"merge_request_review", "jira_update"}
       PROVE  DraftFollows'
  BY <1>1, <1>11 DEF DraftFollows
<1>12. CASE PlanSucceeds(t)
  <2>1. /\ HasPendingGate'
        /\ \A g \in PendingGates' : gate'[g].type \notin {"merge_request_review", "jira_update"}
    BY <1>0, <1>1, <1>12, PendingMoves DEF PlanSucceeds, GateTypes, PlanGates
  <2>2. QED
    BY <1>4, <1>11, <1>12, <2>1 DEF PlanSucceeds
<1>13. CASE DevelopmentSucceeds(t)
  <2>1. /\ HasPendingGate'
        /\ \A g \in PendingGates' : gate'[g].type \notin {"merge_request_review", "jira_update"}
    BY <1>0, <1>1, <1>13, PendingMoves DEF DevelopmentSucceeds, GateTypes
  <2>2. QED
    BY <1>4, <1>11, <1>13, <2>1 DEF DevelopmentSucceeds
<1>14. CASE CreateMergeRequest(t)
  BY <1>14 DEF CreateMergeRequest, DraftFollows, PendingGates, HasPendingGate
<1>15. CASE PublicationSucceeds(t)
  <2>1. nodeDraft' = nodeDraft /\ node["development"] = "completed"
    BY <1>15 DEF PublicationSucceeds, DraftFollows
  <2>2. node'["mr_creation"] = "completed" /\ node'["development"] = "completed"
    <3> DEFINE completed == [node EXCEPT !["mr_creation"] = "completed"]
    <3>1. node' = completed \/ node' = RefreshNodeReadiness(completed)
      BY <1>15 DEF PublicationSucceeds
    <3>2. completed["mr_creation"] = "completed" /\ completed["development"] = "completed"
      BY <1>0, <2>1
    <3> HIDE DEF completed
    <3>3. QED
      BY <1>0, <3>1, <3>2 DEF RefreshNodeReadiness
  <2>3. HasPendingGate' /\ \A g \in PendingGates' : gate'[g].type = "jira_update"
    BY <1>0, <1>1, <1>15, PendingMoves
       DEF PublicationSucceeds, GateTypes, HasPendingGate, IsPending
  <2>4. \A u \in Ticks : tick'[u].pc # "running"
    BY <1>1, <1>4, <1>15 DEF PublicationSucceeds
  <2>5. QED
    BY <1>1, <1>2, <2>1, <2>2, <2>3, <2>4 DEF DraftFollows
<1>16. CASE NodeFails(t)
  BY <1>0, <1>3, <1>4, <1>16 DEF NodeFails
<1>17. CASE FailureIsRefused(t)
  BY <1>0, <1>3, <1>4, <1>17 DEF FailureIsRefused
<1>18. QED
  BY <1>5, <1>6, <1>7, <1>8, <1>9, <1>10, <1>12, <1>13, <1>14, <1>15, <1>16, <1>17 DEF TickStep

\* The draft that is decided is the one attached, through every request.
LEMMA DraftStep ==
    ASSUME TypeOK, HumansDecideFirst, Undisturbed, SoloInv, NodesAreAttended, DraftFollows,
           [Next]_vars
    PROVE  DraftFollows'
<1> USE DEF Running, Publishable
<1>0. /\ node \in [NodeTypes -> NodeStatus] /\ tick \in [Ticks -> TickStates]
      /\ handler \in [Handlers -> HandlerStates]
      /\ draft \in [DraftIds -> {"absent", "awaiting_review", "approved", "rejected"}]
      /\ {"implementation_plan", "development", "mr_creation"} \subseteq NodeTypes
      /\ OnePendingGate /\ OneAtATime /\ SoloInv /\ Alone /\ GateStops /\ RowsFollow
      /\ RequestsFollow /\ GatesFollow /\ UncheckedDecisionsAreAboutDrafts
  BY DEF TypeOK, NodeTypes, SoloInv, GateStops, GraphFollows, HumansDecideFirst, Undisturbed
<1>1. CASE UNCHANGED vars
  BY <1>1 DEF vars, DraftFollows, PendingGates, HasPendingGate
<1>2. ASSUME NEW t \in Ticks, TickStep(t) PROVE DraftFollows'
  BY <1>2, DraftTickStep
<1>3. ASSUME NEW t \in Ticks, Resume(t) PROVE DraftFollows'
  <2>1. Quiet /\ ~HasPendingGate /\ PendingGates' = {}
    BY <1>0, <1>3 DEF Resume, OneAtATime, HasPendingGate, PendingGates
  <2>2. node'["development"] = "completed" => node["development"] = "completed"
    BY <1>0, <1>3 DEF Resume
  <2>3. \A u \in Ticks : tick'[u].pc # "running"
    BY <1>3, <2>1, TickWrites DEF Resume, Quiet
  <2>4. UNCHANGED << handler, draft, nodeDraft >>
    BY <1>3 DEF Resume
  <2>5. QED
    BY <2>1, <2>2, <2>3, <2>4 DEF DraftFollows, Quiet
<1>4. ASSUME NEW g \in GateIds, Decision(g) PROVE DraftFollows'
  <2>1. g \in PendingGates
    BY <1>4 DEF Decision, ApproveJiraUpdate, ApproveClarification, RejectPlan, RejectCodeReview,
                ApproveAnalysisPlan, ApproveCodeReview, StartMrApproval, StartMrRejection,
                CheckDecision, Reviewable, IsPending, PendingGates
  <2>2. \A t \in Ticks : tick'[t].pc # "running"
    BY <1>0, <1>4, <2>1, WhoIsAtWork, TickWrites
       DEF Decision, ApproveJiraUpdate, ApproveClarification, RejectPlan, RejectCodeReview,
           ApproveAnalysisPlan, ApproveCodeReview, StartMrApproval, StartMrRejection,
           CheckDecision, Busy
  <2>3. ~\E h \in Handlers : StartMrRejection(h, g)
    BY DEF StartMrRejection, Undisturbed
  <2>4. CASE /\ DecideGate(g, "approved") \/ DecideGate(g, "rejected")
             /\ UNCHANGED << draft, nodeDraft >>
             /\ gate[g].type # "merge_request_review"
             /\ \/ UNCHANGED handler
                \/ \E h \in Handlers :
                      \/ HandlerGoes(h, "scope_contract") /\ node'["development"] = "pending"
                      \/ HandlerGoes(h, "save_draft")
             /\ UNCHANGED handler /\ node'["development"] = "completed" => Publishable
    <3>1. PendingGates' = {} /\ \A h \in Handlers : handler[h].pc = "idle"
      BY <1>0, <2>1, <2>4, PendingMoves, WhoIsAtWork DEF HasPendingGate, PendingGates
    <3>2. CASE UNCHANGED handler
      BY <2>2, <2>4, <3>1, <3>2 DEF DraftFollows
    <3>3. ASSUME NEW h \in Handlers,
                 \/ HandlerGoes(h, "scope_contract") /\ node'["development"] = "pending"
                 \/ HandlerGoes(h, "save_draft")
          PROVE  DraftFollows'
      <4>1. \A k \in Handlers : k = h
        BY <1>0 DEF OneAtATime
      <4>2. \/ handler'[h].pc = "scope_contract" /\ node'["development"] = "pending"
            \/ handler'[h].pc = "save_draft"
        BY <3>3, HandlerWrites
      <4>3. QED
        BY <2>2, <3>1, <4>1, <4>2 DEF DraftFollows
    <3>4. QED
      BY <2>4, <3>2, <3>3
  <2>5. CASE ApproveJiraUpdate(g)
    BY <2>1, <2>4, <2>5 DEF ApproveJiraUpdate, IsPending, DraftFollows
  <2>6. ASSUME NEW t \in Ticks, ApproveClarification(g, t) \/ RejectPlan(g, t)
        PROVE  DraftFollows'
    <3>1. node'["development"] = "pending"
      BY <1>0, <2>1, <2>6 DEF ApproveClarification, RejectPlan, IsPending, GatesFollow, PlanGates
    <3>2. QED
      BY <2>4, <2>6, <3>1 DEF ApproveClarification, RejectPlan, IsPending, PlanGates
  <2>7. ASSUME NEW t \in Ticks, RejectCodeReview(g, t) PROVE DraftFollows'
    <3>1. node'["development"] = "ready"
      BY <1>0, <2>7 DEF RejectCodeReview, ResetPipeline
    <3>2. QED
      BY <2>4, <2>7, <3>1 DEF RejectCodeReview, IsPending
  <2>8. ASSUME NEW h \in Handlers, ApproveAnalysisPlan(h, g) \/ ApproveCodeReview(h, g)
        PROVE  DraftFollows'
    <3>1. ~UNCHANGED handler
      BY <1>0, <2>8, HandlerWrites DEF ApproveAnalysisPlan, ApproveCodeReview
    <3>2. ApproveAnalysisPlan(h, g) => node'["development"] = "pending"
      BY <1>0, <2>1, <2>8 DEF ApproveAnalysisPlan, IsPending, GatesFollow, PlanGates
    <3>3. QED
      BY <2>4, <2>8, <3>1, <3>2 DEF ApproveAnalysisPlan, ApproveCodeReview, IsPending
  <2>9. ASSUME NEW h \in Handlers, StartMrApproval(h, g) PROVE DraftFollows'
    <3>1. /\ UNCHANGED << node, nodeDraft, gate, draft, tick >>
          /\ handler'[h].pc = "approve_gate" /\ handler'[h].draft = gate[g].draft
          /\ gate[g].type = "merge_request_review"
      BY <1>0, <2>9 DEF StartMrApproval, CheckDecision, Reviewable, IsPending
    <3>2. \A k \in Handlers : k = h
      BY <1>0 DEF OneAtATime
    <3>3. PendingGates' = PendingGates /\ handler'[h].draft = nodeDraft /\ nodeDraft \in DraftIds
      BY <2>1, <3>1 DEF DraftFollows, PendingGates
    <3>4. QED
      BY <2>2, <3>1, <3>2, <3>3 DEF DraftFollows
  <2>10. QED
    BY <1>4, <2>3, <2>5, <2>6, <2>7, <2>8, <2>9 DEF Decision
<1>5. ASSUME NEW h \in Handlers, HandlerStep(h) PROVE DraftFollows'
  <2>1. /\ handler[h].pc # "idle"
        /\ \A k \in Handlers : k = h
        /\ \A t \in Ticks : ~Busy(t)
    <3>1. handler[h].pc # "idle"
      BY <1>5 DEF HandlerStep, CreateScopeContract, SaveDraft, AttachDraft, OpenMrReviewGate,
                  ApproveMrGate, ApproveDraft, MergeIsClean, MergeConflicts, RequeueDevelopment,
                  RejectMrGate, RejectDraft
    <3>2. QED
      BY <1>0, <3>1, WhoIsAtWork DEF OneAtATime
  <2>2. \A t \in Ticks : tick'[t].pc # "running"
    BY <1>0, <1>5, <2>1, TickWrites
       DEF HandlerStep, CreateScopeContract, SaveDraft, AttachDraft, OpenMrReviewGate,
           ApproveMrGate, ApproveDraft, MergeIsClean, MergeConflicts, RequeueDevelopment,
           RejectMrGate, RejectDraft, Busy
  <2>3. ~RejectMrGate(h) /\ ~RejectDraft(h)
    BY DEF RejectMrGate, RejectDraft, DraftFollows
  <2>4. handler[h].pc # "approve_gate" => PendingGates = {}
    BY <1>0, <2>1, <2>3 DEF GateStops, HasPendingGate, PendingGates, DraftFollows
  <2>5. ASSUME NEW t \in Ticks, CreateScopeContract(h, t) PROVE DraftFollows'
    <3>1. PendingGates' = {} /\ handler'[h].pc = "idle" /\ node'["development"] = "pending"
      BY <2>4, <2>5, HandlerWrites DEF CreateScopeContract, PendingGates, DraftFollows
    <3>2. QED
      BY <2>1, <2>2, <3>1 DEF DraftFollows
  <2>6. CASE SaveDraft(h)
    <3>1. /\ PendingGates' = {} /\ handler'[h].pc = "attach_draft" /\ handler'[h].draft \in DraftIds
      BY <1>0, <2>4, <2>6 DEF SaveDraft, PendingGates
    <3>2. QED
      BY <2>1, <2>2, <3>1 DEF DraftFollows
  <2>7. CASE AttachDraft(h)
    <3>1. /\ PendingGates' = {} /\ handler'[h].pc = "open_mr_gate"
          /\ handler'[h].draft = nodeDraft' /\ nodeDraft' \in DraftIds
      BY <2>4, <2>7, HandlerWrites DEF AttachDraft, PendingGates, DraftFollows
    <3>2. QED
      BY <2>1, <2>2, <3>1 DEF DraftFollows
  <2>8. CASE OpenMrReviewGate(h)
    <3>1. /\ handler[h].draft = nodeDraft /\ nodeDraft \in DraftIds /\ ~HasPendingGate
          /\ OpenGate("merge_request_review", handler[h].draft) /\ UNCHANGED nodeDraft
      BY <2>4, <2>8 DEF OpenMrReviewGate, DraftFollows, HasPendingGate, PendingGates
    <3>2. /\ HasPendingGate' /\ handler'[h].pc = "idle"
          /\ \A g \in PendingGates' :
                gate'[g].type = "merge_request_review" /\ gate'[g].draft = nodeDraft'
      BY <1>0, <2>8, <3>1, PendingMoves, HandlerWrites DEF OpenMrReviewGate, GateTypes
    <3>3. QED
      BY <2>1, <2>2, <3>1, <3>2 DEF DraftFollows
  <2>9. CASE ApproveMrGate(h)
    <3>1. PendingGates' = {}
      BY <1>0, <2>9, PendingMoves
         DEF ApproveMrGate, GateStops, UncheckedDecisionsAreAboutDrafts, PendingGates, HasPendingGate
    <3>2. /\ handler'[h].pc = "approve_draft" /\ handler'[h].draft = nodeDraft'
          /\ nodeDraft' \in DraftIds
      BY <2>9, HandlerWrites DEF ApproveMrGate, DraftFollows
    <3>3. QED
      BY <2>1, <2>2, <3>1, <3>2 DEF DraftFollows
  <2>10. CASE ApproveDraft(h)
    <3>1. /\ PendingGates' = {} /\ handler'[h].pc = "merge" /\ handler'[h].draft = nodeDraft'
          /\ nodeDraft' \in DraftIds /\ draft'[nodeDraft'] = "approved"
      BY <1>0, <2>4, <2>10, HandlerWrites DEF ApproveDraft, DraftFollows, PendingGates
    <3>2. QED
      BY <2>1, <2>2, <3>1 DEF DraftFollows
  <2>11. ASSUME NEW t \in Ticks, MergeIsClean(h, t) PROVE DraftFollows'
    <3>1. /\ PendingGates' = {} /\ handler'[h].pc = "idle" /\ Publishable'
      BY <2>4, <2>11, HandlerWrites DEF MergeIsClean, PendingGates, DraftFollows
    <3>2. QED
      BY <2>1, <2>2, <3>1 DEF DraftFollows
  <2>12. CASE MergeConflicts(h)
    <3>1. /\ PendingGates' = {} /\ handler'[h].pc = "requeue" /\ Publishable'
          /\ handler'[h].draft = nodeDraft'
      BY <2>4, <2>12, HandlerWrites DEF MergeConflicts, PendingGates, DraftFollows
    <3>2. QED
      BY <2>1, <2>2, <3>1 DEF DraftFollows
  <2>13. ASSUME NEW t \in Ticks, RequeueDevelopment(h, t) PROVE DraftFollows'
    <3>1. /\ PendingGates' = {} /\ handler'[h].pc = "idle" /\ node'["development"] = "ready"
      BY <1>0, <2>4, <2>13, HandlerWrites DEF RequeueDevelopment, PendingGates
    <3>2. QED
      BY <2>1, <2>2, <3>1 DEF DraftFollows
  <2>14. QED
    BY <1>5, <2>3, <2>5, <2>6, <2>7, <2>8, <2>9, <2>10, <2>11, <2>12, <2>13 DEF HandlerStep
<1>6. ~Crash
  BY DEF Crash, Undisturbed
<1>7. QED
  BY <1>1, <1>2, <1>3, <1>4, <1>5, <1>6 DEF Next

\* A completed work order is left alone, even by a resume.
LEMMA RestsStep ==
    ASSUME TypeOK, HumansDecideFirst, Undisturbed, SoloInv, UndisturbedInv, [Next]_vars
    PROVE  CompletedRests' /\ (woStatus = "completed" => woStatus' = "completed")
<1> USE DEF Running, UndisturbedInv
<1>0. /\ node \in [NodeTypes -> NodeStatus] /\ tick \in [Ticks -> TickStates]
      /\ ExecutableNodes \subseteq NodeTypes
      /\ OnePendingGate /\ OneAtATime /\ SoloInv /\ Alone /\ GateStops /\ RowsFollow
      /\ UncheckedDecisionsAreAboutDrafts
  BY DEF TypeOK, NodeTypes, ExecutableNodes, SoloInv, GateStops, GraphFollows, HumansDecideFirst,
         Undisturbed
<1>1. CASE woStatus = "completed"
  <2> SUFFICES /\ woStatus' = "completed"
               /\ \A n \in ExecutableNodes : node'[n] = node[n]
               /\ UNCHANGED << gate, handler >>
               /\ \A t \in Ticks : tick'[t].pc # "running"
    BY <1>1 DEF CompletedRests, HasPendingGate
  <2>1. /\ ~HasPendingGate
        /\ \A n \in ExecutableNodes : node[n] = "completed"
        /\ \A t \in Ticks : tick[t].pc # "running"
        /\ \A h \in Handlers : handler[h].pc = "idle"
    BY <1>1 DEF CompletedRests
  <2>2. FindReadyNodes(RefreshNodeReadiness(node)) = {}
    BY <1>0, <2>1 DEF FindReadyNodes, RefreshNodeReadiness
  <2>3. ASSUME NEW t \in Ticks, TickStep(t)
        PROVE  AcquireTickLock(t) \/ ReconcileMergedQa(t) \/ NothingReady(t)
    BY <2>1, <2>2, <2>3
       DEF TickStep, PauseAtGate, StartNode, RefuseToPublish, NextNode, PlanSucceeds,
           DevelopmentSucceeds, CreateMergeRequest, PublicationSucceeds, NodeFails,
           FailureIsRefused
  <2>4. ASSUME NEW t \in Ticks, AcquireTickLock(t) \/ ReconcileMergedQa(t) \/ NothingReady(t)
        PROVE  /\ woStatus' = "completed" /\ UNCHANGED << gate, handler >>
               /\ \A n \in ExecutableNodes : node'[n] = node[n]
    <3>1. \A n \in ExecutableNodes : RefreshNodeReadiness(node)[n] = node[n]
      BY <1>0, <2>1 DEF RefreshNodeReadiness
    <3>2. QED
      BY <1>0, <1>1, <2>1, <2>4, <3>1
         DEF AcquireTickLock, ReconcileMergedQa, NothingReady, RowsFollow, ExecutableNodes
  <2>5. ASSUME NEW t \in Ticks, TickStep(t) PROVE \A u \in Ticks : tick'[u].pc # "running"
    <3>1. CASE AcquireTickLock(t)
      BY <1>0, <2>1, <3>1 DEF AcquireTickLock
    <3>2. CASE ReconcileMergedQa(t)
      BY <1>0, <2>1, <3>2 DEF ReconcileMergedQa
    <3>3. CASE NothingReady(t)
      BY <2>1, <3>3, TickWrites DEF NothingReady
    <3>4. QED
      BY <2>3, <2>5, <3>1, <3>2, <3>3
  <2>6. ASSUME NEW t \in Ticks, Resume(t)
        PROVE  /\ woStatus' = "completed" /\ UNCHANGED << gate, handler >>
               /\ \A n \in ExecutableNodes : node'[n] = node[n]
               /\ \A u \in Ticks : tick'[u].pc # "running"
    BY <1>0, <1>1, <2>1, <2>6, TickWrites DEF Resume, StatusAfterResume, MayBeStuck
  <2>7. \A g \in GateIds : ~Decision(g)
    BY <2>1 DEF Decision, ApproveJiraUpdate, ApproveClarification, RejectPlan, RejectCodeReview,
                ApproveAnalysisPlan, ApproveCodeReview, StartMrApproval, StartMrRejection,
                CheckDecision, Reviewable, IsPending, HasPendingGate
  <2>8. \A h \in Handlers : ~HandlerStep(h)
    BY <2>1 DEF HandlerStep, CreateScopeContract, SaveDraft, AttachDraft, OpenMrReviewGate,
                ApproveMrGate, ApproveDraft, MergeIsClean, MergeConflicts, RequeueDevelopment,
                RejectMrGate, RejectDraft
  <2>9. CASE UNCHANGED vars
    BY <1>1, <2>1, <2>9 DEF vars
  <2>10. QED
    BY <2>3, <2>4, <2>5, <2>6, <2>7, <2>8, <2>9 DEF Next, Crash, Undisturbed
<1>2. CASE woStatus # "completed"
  <2>1. ASSUME NEW g \in GateIds, ApproveJiraUpdate(g) PROVE CompletedRests'
    <3>1. /\ g \in PendingGates /\ gate[g].type = "jira_update" /\ DecideGate(g, "approved")
          /\ UNCHANGED << handler, tick >>
          /\ \A n \in ExecutableNodes : node'[n] = node[n]
      BY <1>0, <2>1 DEF ApproveJiraUpdate, IsPending, PendingGates, ExecutableNodes
    <3>2. \A n \in ExecutableNodes : node[n] = "completed"
      BY <1>0, <3>1 DEF DraftFollows, RowsFollow, ExecutableNodes
    <3>3. /\ ~HasPendingGate' /\ (\A h \in Handlers : handler'[h].pc = "idle")
          /\ \A t \in Ticks : tick'[t].pc # "running"
      BY <1>0, <3>1, PendingMoves, WhoIsAtWork DEF Busy
    <3>4. QED
      BY <3>1, <3>2, <3>3 DEF CompletedRests
  <2>2. CASE woStatus' # "completed"
    BY <1>2, <2>2 DEF CompletedRests
  <2>3. QED
    BY <1>2, <2>1, <2>2, StatusMoves DEF OpenGate
<1>3. QED
  BY <1>1, <1>2

LEMMA UndisturbedInit == ASSUME Init, Undisturbed PROVE UndisturbedInv
<1>1. \A g \in GateIds : gate[g].status # "pending"
  BY DEF Init, NewOrder, Undisturbed, OneAtATime, NoGate
<1>2. \A t \in Ticks : tick[t].pc \in {"idle", "reconcile"}
  BY DEF Init, IdleTick, DirectTick
<1>3. \A h \in Handlers : handler[h].pc = "idle"
  BY DEF Init, IdleHandler
<1>4. /\ node["implementation_plan"] = "ready" /\ node["development"] = "pending"
      /\ node["mr_creation"] = "pending" /\ woStatus = "intake"
  BY DEF Init, NewOrder, Undisturbed, OneAtATime, NodeTypes, DependsOn
<1>5. QED
  BY <1>1, <1>2, <1>3, <1>4
     DEF UndisturbedInv, NodesAreAttended, DraftFollows, CompletedRests, PendingGates, Running,
         ExecutableNodes

\* In an undisturbed delivery every running row has its thread and every failure stops
\* the work order, the attached draft is the decided one, and completion is the end.
THEOREM UndisturbedRuns == ASSUME Undisturbed PROVE Spec => []UndisturbedInv
<1>1. TypeOK /\ HumansDecideFirst /\ SoloInv /\ UndisturbedInv /\ [Next]_vars => UndisturbedInv'
  BY AttendedStep, DraftStep, RestsStep DEF UndisturbedInv
<1>2. QED
  BY <1>1, UndisturbedInit, TypeCorrect, ApprovalsComeFirst, OneThingAtATime, PTL
     DEF Spec, Undisturbed

\* What a publisher sends to the VCS is a draft a human approved: the draft is approved in
\* one transaction and the publisher scheduled by a later one.
THEOREM ApprovedDraftIsPublished == ASSUME Undisturbed PROVE Spec => []PublishesApprovedDraft
<1>1. HumansDecideFirst /\ SoloInv /\ UndisturbedInv => PublishesApprovedDraft
  <2> SUFFICES ASSUME HumansDecideFirst, SoloInv, UndisturbedInv,
                      NEW t \in Ticks, Running(t, "mr_creation")
               PROVE  draft[tick[t].draft] = "approved"
    BY DEF PublishesApprovedDraft
  <2>1. ~HasPendingGate /\ \A h \in Handlers : handler[h].pc = "idle"
    BY WhoIsAtWork DEF HumansDecideFirst, SoloInv, Undisturbed, Running, Busy
  <2>2. QED
    BY <2>1 DEF UndisturbedInv, DraftFollows, Publishable
<1>2. QED
  BY <1>1, UndisturbedRuns, OneThingAtATime, ApprovalsComeFirst, PTL DEF Undisturbed

\* Nothing reopens a completed work order: not a resume, not a thread that comes late.
THEOREM CompletedForGood == ASSUME Undisturbed PROVE Spec => CompletedIsFinal
<1>1. TypeOK /\ HumansDecideFirst /\ SoloInv /\ UndisturbedInv /\ [Next]_vars =>
          [woStatus = "completed" => woStatus' = "completed"]_vars
  BY RestsStep
<1>2. QED
  BY <1>1, UndisturbedRuns, TypeCorrect, ApprovalsComeFirst, OneThingAtATime, PTL
     DEF Spec, Undisturbed, CompletedIsFinal

-----------------------------------------------------------------------------
(* The refinement of HumanGatedDelivery. *)

\* The gate the refinement mapping chooses is the pending one.
LEMMA ChosenGate ==
    ASSUME NEW table, NEW g \in GateIds, \A k \in GateIds : table[k].status = "pending" <=> k = g
    PROVE  (CHOOSE k \in GateIds : table[k].status = "pending") = g
OBVIOUS

\* What is seen from outside while a human is asked, ...
LEMMA SeenWhileAsking ==
    /\ \A type : OnePendingGate /\ HasPendingGate /\ (\A g \in PendingGates : gate[g].type = type)
          => artifactBar = GateArtifact(type) /\ turnBar = "human"
    /\ \A type : OnePendingGate' /\ HasPendingGate' /\ (\A g \in PendingGates' : gate'[g].type = type)
          => artifactBar' = GateArtifact(type) /\ turnBar' = "human"
<1>1. ASSUME NEW type, OnePendingGate, HasPendingGate, \A g \in PendingGates : gate[g].type = type
      PROVE  artifactBar = GateArtifact(type) /\ turnBar = "human"
  <2>1. PICK g \in GateIds : \A k \in GateIds : gate[k].status = "pending" <=> k = g
    BY <1>1 DEF OnePendingGate, HasPendingGate
  <2>2. (CHOOSE k \in GateIds : gate[k].status = "pending") = g /\ gate[g].type = type
    BY <1>1, <2>1, ChosenGate DEF PendingGates
  <2>3. QED
    BY <1>1, <2>2 DEF artifactBar, turnBar
<1>2. ASSUME NEW type, OnePendingGate', HasPendingGate', \A g \in PendingGates' : gate'[g].type = type
      PROVE  artifactBar' = GateArtifact(type) /\ turnBar' = "human"
  <2>1. PICK g \in GateIds : \A k \in GateIds : gate'[k].status = "pending" <=> k = g
    BY <1>2 DEF OnePendingGate, HasPendingGate
  <2>2. (CHOOSE k \in GateIds : gate'[k].status = "pending") = g /\ gate'[g].type = type
    BY <1>2, <2>1, ChosenGate DEF PendingGates
  <2>3. QED
    BY <1>2, <2>2 DEF artifactBar, turnBar
<1>3. QED
  BY <1>1, <1>2

\* ... and while nobody is.
LEMMA SeenOtherwise ==
    /\ ~HasPendingGate /\ woStatus # "completed" =>
          /\ turnBar = IF woStatus = "failed" THEN "stopped" ELSE "machine"
          /\ artifactBar = IF MakingDraft THEN "draft"
                           ELSE IF node["implementation_plan"] # "completed" THEN "plan"
                           ELSE IF node["development"] # "completed" THEN "patch"
                           ELSE "publication"
    /\ ~HasPendingGate' /\ woStatus' # "completed" =>
          /\ turnBar' = IF woStatus' = "failed" THEN "stopped" ELSE "machine"
          /\ artifactBar' = IF MakingDraft' THEN "draft"
                            ELSE IF node'["implementation_plan"] # "completed" THEN "plan"
                            ELSE IF node'["development"] # "completed" THEN "patch"
                            ELSE "publication"
    /\ ~HasPendingGate' /\ woStatus' = "completed" => turnBar' = "nobody" /\ artifactBar' = "nothing"
BY DEF artifactBar, turnBar

\* The step as it is seen: an action of the promise, or nothing.
Seen == \/ Abstract!Next
        \/ UNCHANGED << artifactBar, turnBar >>

\* What is seen does not change when the work goes on at the same place.
LEMMA SeenAlike ==
    ASSUME ~HasPendingGate, ~HasPendingGate', woStatus # "completed", woStatus' # "completed",
           (woStatus = "failed") <=> (woStatus' = "failed"), MakingDraft <=> MakingDraft',
           \A n \in {"implementation_plan", "development"} :
               node[n] = "completed" <=> node'[n] = "completed"
    PROVE  Seen
BY SeenOtherwise DEF Seen

\* Agents work between the questions: a tick ends by asking, by failing or by having
\* nothing to do.
LEMMA TickIsSeen ==
    ASSUME TypeOK, HumansDecideFirst, Undisturbed, SoloInv, UndisturbedInv,
           NEW t \in Ticks, TickStep(t)
    PROVE  Seen
<1> USE DEF Running
<1>0. /\ node \in [NodeTypes -> NodeStatus]
      /\ {"implementation_plan", "development", "mr_creation"} \subseteq NodeTypes
      /\ OnePendingGate /\ OneAtATime /\ Alone /\ GateStops /\ RowsFollow
      /\ UncheckedDecisionsAreAboutDrafts
      /\ NodesAreAttended /\ DraftFollows /\ CompletedRests
  BY DEF TypeOK, NodeTypes, SoloInv, GateStops, GraphFollows, HumansDecideFirst, Undisturbed,
         UndisturbedInv
<1>1. /\ Busy(t) /\ ~HasPendingGate /\ ~MakingDraft /\ ~MakingDraft' /\ UNCHANGED handler
      /\ woStatus # "failed"
  BY <1>0, TickStepFrame, WhoIsAtWork, AtWork DEF MakingDraft
<1>2. ASSUME NEW artifact, artifactBar = artifact, artifact # "publication", turnBar = "machine",
             artifactBar' = artifact, turnBar' = "human"
      PROVE  Seen
  BY <1>2 DEF Seen, Abstract!Next, Abstract!Present
<1>3. CASE AcquireTickLock(t)
  BY <1>3 DEF AcquireTickLock, Seen, artifactBar, turnBar, MakingDraft, HasPendingGate
<1>4. CASE ReconcileMergedQa(t)
  <2>1. UNCHANGED << node, gate, woStatus, handler >>
    BY <1>0, <1>4 DEF ReconcileMergedQa, RowsFollow
  <2>2. QED
    BY <2>1 DEF Seen, artifactBar, turnBar, MakingDraft, HasPendingGate
<1>5. CASE PauseAtGate(t)
  BY <1>1, <1>5 DEF PauseAtGate
<1>6. CASE NothingReady(t)
  <2>1. \A n \in {"implementation_plan", "development"} :
            node[n] = "completed" <=> node'[n] = "completed"
    BY <1>0, <1>6, RefreshReads DEF NothingReady
  <2>2. UNCHANGED << gate, woStatus, handler >>
    BY <1>6 DEF NothingReady
  <2>3. QED
    BY <2>1, <2>2 DEF Seen, artifactBar, turnBar, MakingDraft, HasPendingGate
<1>7. ASSUME NEW n \in ExecutableNodes, StartNode(t, n) PROVE Seen
  <2>1. node[n] # "completed"
    BY <1>0, <1>7, RefreshReads DEF StartNode, NextNode, FindReadyNodes, ExecutableNodes
  <2>2. woStatus # "completed"
    BY <1>0, <2>1 DEF CompletedRests
  <2>3. \A m \in {"implementation_plan", "development"} :
            node[m] = "completed" <=> node'[m] = "completed"
    <3>1. \A m \in NodeTypes :
              node'[m] = IF m = n THEN "running" ELSE RefreshNodeReadiness(node)[m]
      BY <1>0, <1>7, RefreshReads DEF StartNode
    <3>2. QED
      BY <1>0, <2>1, <3>1, RefreshReads
  <2>4. UNCHANGED << gate, handler >> /\ woStatus' = "running"
    BY <1>7 DEF StartNode
  <2>5. QED
    BY <1>1, <2>2, <2>3, <2>4, SeenAlike DEF HasPendingGate
<1>8. ~RefuseToPublish(t)
  BY <1>0, NothingIsRefused
<1>9. ASSUME tick[t].pc = "running" PROVE woStatus # "completed"
  BY <1>0, <1>9 DEF CompletedRests
<1>10. CASE PlanSucceeds(t)
  <2>1. tick[t].pc = "running" /\ node["implementation_plan"] # "completed"
    BY <1>0, <1>10 DEF PlanSucceeds, RowsFollow, ExecutableNodes
  <2>2. artifactBar = "plan" /\ turnBar = "machine"
    BY <1>1, <1>9, <2>1, SeenOtherwise
  <2>3. PICK type \in PlanGates : OpenGate(type, NoDraft)
    BY <1>10 DEF PlanSucceeds, PlanGates
  <2>4. artifactBar' = "plan" /\ turnBar' = "human"
    BY <1>0, <1>1, <2>3, PendingMoves, SeenWhileAsking DEF GateTypes, GateArtifact, PlanGates
  <2>5. QED
    BY <1>2, <2>2, <2>4
<1>11. CASE DevelopmentSucceeds(t)
  <2>1. /\ tick[t].pc = "running" /\ node["implementation_plan"] = "completed"
        /\ node["development"] # "completed"
    BY <1>0, <1>11 DEF DevelopmentSucceeds, RowsFollow, ExecutableNodes
  <2>2. artifactBar = "patch" /\ turnBar = "machine"
    BY <1>1, <1>9, <2>1, SeenOtherwise
  <2>3. artifactBar' = "patch" /\ turnBar' = "human"
    BY <1>0, <1>1, <1>11, PendingMoves, SeenWhileAsking
       DEF DevelopmentSucceeds, GateTypes, GateArtifact, PlanGates
  <2>4. QED
    BY <1>2, <2>2, <2>3
<1>12. CASE CreateMergeRequest(t)
  BY <1>12 DEF CreateMergeRequest, Seen, artifactBar, turnBar, MakingDraft, HasPendingGate
<1>13. CASE PublicationSucceeds(t)
  <2>1. /\ tick[t].pc = "running" /\ node["implementation_plan"] = "completed"
        /\ node["development"] = "completed"
    BY <1>0, <1>13 DEF PublicationSucceeds, RowsFollow, DraftFollows
  <2>2. artifactBar = "publication" /\ turnBar = "machine"
    BY <1>1, <1>9, <2>1, SeenOtherwise
  <2>3. OpenGate("jira_update", NoDraft)
    BY <1>1, <1>13 DEF PublicationSucceeds, HasPendingGate, IsPending
  <2>4. artifactBar' = "closing" /\ turnBar' = "human"
    BY <1>0, <1>1, <2>3, PendingMoves, SeenWhileAsking DEF GateTypes, GateArtifact, PlanGates
  <2>5. QED
    BY <2>2, <2>4 DEF Seen, Abstract!Next, Abstract!Present
<1>14. CASE NodeFails(t)
  <2>1. /\ tick[t].pc = "running" /\ node[tick[t].node] = "running"
        /\ \A n \in NodeTypes : node'[n] = IF n = tick[t].node THEN "failed" ELSE node[n]
        /\ woStatus' = "failed" /\ ~HasPendingGate'
    BY <1>0, <1>1, <1>14 DEF NodeFails, RowsFollow, HasPendingGate
  <2>2. /\ turnBar = "machine" /\ artifactBar \in {"plan", "patch", "publication"}
    BY <1>1, <1>9, <2>1, SeenOtherwise
  <2>3. turnBar' = "stopped" /\ artifactBar' = artifactBar
    BY <1>0, <1>1, <1>9, <2>1, SeenOtherwise
  <2>4. QED
    BY <2>2, <2>3 DEF Seen, Abstract!Next, Abstract!Stop
<1>15. ~FailureIsRefused(t)
  BY DEF FailureIsRefused, Undisturbed
<1>16. QED
  BY <1>3, <1>4, <1>5, <1>6, <1>7, <1>8, <1>10, <1>11, <1>12, <1>13, <1>14, <1>15 DEF TickStep

\* A human is asked about one artifact and answers about that one.
LEMMA DecisionIsSeen ==
    ASSUME TypeOK, HumansDecideFirst, Undisturbed, SoloInv, UndisturbedInv,
           NEW g \in GateIds, Decision(g)
    PROVE  Seen
<1>0. /\ node \in [NodeTypes -> NodeStatus] /\ handler \in [Handlers -> HandlerStates]
      /\ {"implementation_plan", "development", "mr_creation"} \subseteq NodeTypes
      /\ OnePendingGate /\ OneAtATime /\ Alone /\ GateStops /\ RowsFollow /\ GatesFollow
      /\ UncheckedDecisionsAreAboutDrafts
  BY DEF TypeOK, NodeTypes, SoloInv, GateStops, GraphFollows, HumansDecideFirst, Undisturbed
<1>1. g \in PendingGates
  BY DEF Decision, ApproveJiraUpdate, ApproveClarification, RejectPlan, RejectCodeReview,
         ApproveAnalysisPlan, ApproveCodeReview, StartMrApproval, StartMrRejection,
         CheckDecision, Reviewable, IsPending, PendingGates
<1>2. artifactBar = GateArtifact(gate[g].type) /\ turnBar = "human"
  <2>1. HasPendingGate /\ \A k \in PendingGates : gate[k].type = gate[g].type
    BY <1>0, <1>1 DEF HasPendingGate, PendingGates, OnePendingGate
  <2>2. QED
    BY <1>0, <2>1, SeenWhileAsking
<1>3. ASSUME DecideGate(g, "approved") \/ DecideGate(g, "rejected"),
             gate[g].type # "merge_request_review"
      PROVE  ~HasPendingGate' /\ (\A h \in Handlers : handler[h].pc = "idle")
  BY <1>0, <1>1, <1>3, PendingMoves, WhoIsAtWork
<1>4. CASE ApproveJiraUpdate(g)
  <2>1. gate[g].type = "jira_update" /\ DecideGate(g, "approved") /\ woStatus' = "completed"
    BY <1>4 DEF ApproveJiraUpdate, IsPending, NextStatusAfterApproval
  <2>2. artifactBar = "closing" /\ artifactBar' = "nothing" /\ turnBar' = "nobody"
    BY <1>2, <1>3, <2>1, SeenOtherwise DEF GateArtifact, PlanGates
  <2>3. QED
    BY <1>2, <2>2 DEF Seen, Abstract!Next, Abstract!Approve
<1>5. ASSUME NEW t \in Ticks, ApproveClarification(g, t) \/ RejectPlan(g, t)
      PROVE  Seen
  <2>1. /\ gate[g].type \in PlanGates /\ woStatus' = "running" /\ UNCHANGED handler
        /\ DecideGate(g, "approved") \/ DecideGate(g, "rejected")
        /\ node'["implementation_plan"] = "ready"
    BY <1>0, <1>5 DEF ApproveClarification, RejectPlan, IsPending, PlanGates
  <2>2. /\ artifactBar = "plan" /\ gate[g].type # "merge_request_review"
    BY <1>2, <2>1 DEF GateArtifact, PlanGates
  <2>3. artifactBar' = "plan" /\ turnBar' = "machine"
    BY <1>3, <2>1, <2>2, SeenOtherwise DEF MakingDraft
  <2>4. QED
    BY <1>2, <2>2, <2>3 DEF Seen, Abstract!Next, Abstract!Redo
<1>6. ASSUME NEW t \in Ticks, RejectCodeReview(g, t) PROVE Seen
  <2>1. /\ gate[g].type = "code_review" /\ woStatus' = "running" /\ UNCHANGED handler
        /\ DecideGate(g, "rejected")
    BY <1>6 DEF RejectCodeReview, IsPending
  <2>2. node'["implementation_plan"] = "completed" /\ node'["development"] = "ready"
    BY <1>0, <1>1, <1>6, <2>1 DEF RejectCodeReview, ResetPipeline, GatesFollow
  <2>3. artifactBar = "patch" /\ artifactBar' = "patch" /\ turnBar' = "machine"
    BY <1>2, <1>3, <2>1, <2>2, SeenOtherwise DEF MakingDraft, GateArtifact, PlanGates
  <2>4. QED
    BY <1>2, <2>3 DEF Seen, Abstract!Next, Abstract!Redo
<1>7. ASSUME NEW h \in Handlers, ApproveAnalysisPlan(h, g) PROVE Seen
  <2>1. /\ gate[g].type = "analysis_plan" /\ woStatus' = "running" /\ UNCHANGED node
        /\ DecideGate(g, "approved") /\ HandlerGoes(h, "scope_contract")
    BY <1>7 DEF ApproveAnalysisPlan, IsPending, NextStatusAfterApproval
  <2>2. /\ node["implementation_plan"] = "completed" /\ node["development"] = "pending"
    BY <1>0, <1>1, <2>1 DEF GatesFollow, PlanGates
  <2>3. ~MakingDraft'
    BY <1>0, <2>1, HandlerWrites DEF MakingDraft, OneAtATime
  <2>4. artifactBar = "plan" /\ artifactBar' = "patch" /\ turnBar' = "machine"
    BY <1>2, <1>3, <2>1, <2>2, <2>3, SeenOtherwise DEF GateArtifact, PlanGates
  <2>5. QED
    BY <1>2, <2>4 DEF Seen, Abstract!Next, Abstract!Approve
<1>8. ASSUME NEW h \in Handlers, ApproveCodeReview(h, g) PROVE Seen
  <2>1. /\ gate[g].type = "code_review" /\ woStatus' = "running"
        /\ DecideGate(g, "approved") /\ HandlerGoes(h, "save_draft")
    BY <1>8 DEF ApproveCodeReview, IsPending, NextStatusAfterApproval
  <2>2. MakingDraft'
    BY <2>1, HandlerWrites DEF MakingDraft
  <2>3. artifactBar = "patch" /\ artifactBar' = "draft" /\ turnBar' = "machine"
    BY <1>2, <1>3, <2>1, <2>2, SeenOtherwise DEF GateArtifact, PlanGates
  <2>4. QED
    BY <1>2, <2>3 DEF Seen, Abstract!Next, Abstract!Approve
<1>9. ASSUME NEW h \in Handlers, StartMrApproval(h, g) \/ StartMrRejection(h, g) PROVE Seen
  <2>1. UNCHANGED gate
    BY <1>9 DEF StartMrApproval, StartMrRejection, CheckDecision
  <2>2. HasPendingGate
    BY <1>1 DEF PendingGates, HasPendingGate
  <2>3. QED
    BY <2>1, <2>2 DEF Seen, artifactBar, turnBar, HasPendingGate
<1>10. QED
  BY <1>4, <1>5, <1>6, <1>7, <1>8, <1>9 DEF Decision

\* The transactions a request makes after the human answered belong to the answer, but
\* for the draft review it opens and the conflict it finds.
LEMMA HandlerIsSeen ==
    ASSUME TypeOK, HumansDecideFirst, Undisturbed, SoloInv, UndisturbedInv,
           NEW h \in Handlers, HandlerStep(h)
    PROVE  Seen
<1>0. /\ node \in [NodeTypes -> NodeStatus] /\ handler \in [Handlers -> HandlerStates]
      /\ {"implementation_plan", "development", "mr_creation"} \subseteq NodeTypes
      /\ OnePendingGate /\ OneAtATime /\ Alone /\ GateStops /\ RowsFollow
      /\ RequestsFollow /\ GatesFollow /\ UncheckedDecisionsAreAboutDrafts
      /\ NodesAreAttended /\ DraftFollows /\ CompletedRests
  BY DEF TypeOK, NodeTypes, SoloInv, GateStops, GraphFollows, HumansDecideFirst, Undisturbed,
         UndisturbedInv
<1>1. /\ handler[h].pc # "idle" /\ (\A k \in Handlers : k = h)
      /\ node["implementation_plan"] = "completed"
      /\ handler[h].pc # "scope_contract" => node["development"] = "completed"
      /\ woStatus \notin {"failed", "completed"}
  <2>1. handler[h].pc # "idle"
    BY DEF HandlerStep, CreateScopeContract, SaveDraft, AttachDraft, OpenMrReviewGate,
           ApproveMrGate, ApproveDraft, MergeIsClean, MergeConflicts, RequeueDevelopment,
           RejectMrGate, RejectDraft
  <2>2. QED
    BY <1>0, <2>1 DEF OneAtATime, RequestsFollow, NodesAreAttended, CompletedRests, Quiet
<1>2. ~RejectMrGate(h) /\ ~RejectDraft(h)
  BY <1>0 DEF RejectMrGate, RejectDraft, DraftFollows
<1>3. handler[h].pc # "approve_gate" => ~HasPendingGate
  BY <1>0, <1>1 DEF GateStops, DraftFollows
<1>4. ASSUME UNCHANGED << gate, woStatus >>, handler[h].pc # "approve_gate",
             node'["implementation_plan"] = "completed",
             node["development"] = "completed" <=> node'["development"] = "completed",
             MakingDraft <=> MakingDraft'
      PROVE  Seen
  BY <1>1, <1>3, <1>4, SeenAlike DEF HasPendingGate
<1>5. ASSUME NEW t \in Ticks, CreateScopeContract(h, t) \/ MergeIsClean(h, t) PROVE Seen
  <2>1. ~MakingDraft /\ ~MakingDraft'
    BY <1>1, <1>5, HandlerWrites DEF CreateScopeContract, MergeIsClean, MakingDraft
  <2>2. QED
    BY <1>1, <1>4, <1>5, <2>1 DEF CreateScopeContract, MergeIsClean
<1>6. CASE SaveDraft(h)
  <2>1. MakingDraft /\ MakingDraft'
    BY <1>0, <1>6 DEF SaveDraft, MakingDraft
  <2>2. QED
    BY <1>1, <1>4, <1>6, <2>1 DEF SaveDraft
<1>7. CASE AttachDraft(h)
  <2>1. MakingDraft /\ MakingDraft'
    BY <1>7, HandlerWrites DEF AttachDraft, MakingDraft
  <2>2. \A n \in {"implementation_plan", "development"} : node'[n] = node[n]
    BY <1>0, <1>7 DEF AttachDraft, CompleteSyntheticNodes
  <2>3. QED
    BY <1>1, <1>4, <1>7, <2>1, <2>2 DEF AttachDraft
<1>8. CASE OpenMrReviewGate(h)
  <2>1. artifactBar = "draft" /\ turnBar = "machine"
    <3>1. MakingDraft
      BY <1>8 DEF OpenMrReviewGate, MakingDraft
    <3>2. QED
      BY <1>1, <1>3, <1>8, <3>1, SeenOtherwise DEF OpenMrReviewGate
  <2>2. artifactBar' = "draft" /\ turnBar' = "human"
    <3>1. /\ OpenGate("merge_request_review", handler[h].draft) /\ ~HasPendingGate
          /\ handler[h].draft \in DraftIds \cup {NoDraft}
      BY <1>0, <1>3, <1>8 DEF OpenMrReviewGate, HandlerStates
    <3>2. QED
      BY <1>0, <3>1, PendingMoves, SeenWhileAsking DEF GateTypes, GateArtifact, PlanGates
  <2>3. QED
    BY <2>1, <2>2 DEF Seen, Abstract!Next, Abstract!Present
<1>9. CASE ApproveMrGate(h)
  <2>1. /\ handler[h].gate \in PendingGates /\ DecideGate(handler[h].gate, "approved")
        /\ gate[handler[h].gate].type = "merge_request_review"
    BY <1>0, <1>9
       DEF ApproveMrGate, GateStops, UncheckedDecisionsAreAboutDrafts, PendingGates
  <2>2. artifactBar = "draft" /\ turnBar = "human"
    <3>1. HasPendingGate /\ \A k \in PendingGates : gate[k].type = "merge_request_review"
      BY <1>0, <2>1 DEF HasPendingGate, PendingGates, OnePendingGate
    <3>2. QED
      BY <1>0, <3>1, SeenWhileAsking DEF GateArtifact, PlanGates
  <2>3. ~HasPendingGate' /\ ~MakingDraft' /\ UNCHANGED node /\ woStatus' = "running"
    BY <1>0, <1>1, <1>9, <2>1, PendingMoves, HandlerWrites DEF ApproveMrGate, MakingDraft
  <2>4. artifactBar' = "publication" /\ turnBar' = "machine"
    BY <1>1, <1>9, <2>3, SeenOtherwise DEF ApproveMrGate
  <2>5. QED
    BY <2>2, <2>4 DEF Seen, Abstract!Next, Abstract!Approve
<1>10. CASE ApproveDraft(h) \/ MergeConflicts(h)
  <2>1. ~MakingDraft /\ ~MakingDraft'
    BY <1>1, <1>10, HandlerWrites DEF ApproveDraft, MergeConflicts, MakingDraft
  <2>2. QED
    BY <1>1, <1>4, <1>10, <2>1 DEF ApproveDraft, MergeConflicts
<1>11. ASSUME NEW t \in Ticks, RequeueDevelopment(h, t) PROVE Seen
  <2>1. /\ ~HasPendingGate /\ ~HasPendingGate' /\ ~MakingDraft /\ ~MakingDraft'
        /\ woStatus' = "running"
    BY <1>1, <1>3, <1>11, HandlerWrites DEF RequeueDevelopment, MakingDraft, HasPendingGate
  <2>2. node'["implementation_plan"] = "completed" /\ node'["development"] = "ready"
    BY <1>0, <1>1, <1>11 DEF RequeueDevelopment
  <2>3. artifactBar = "publication" /\ turnBar = "machine"
    BY <1>1, <1>11, <2>1, SeenOtherwise DEF RequeueDevelopment
  <2>4. artifactBar' = "patch" /\ turnBar' = "machine"
    BY <2>1, <2>2, SeenOtherwise
  <2>5. QED
    BY <2>3, <2>4 DEF Seen, Abstract!Next, Abstract!Conflict
<1>12. QED
  BY <1>2, <1>5, <1>6, <1>7, <1>8, <1>9, <1>10, <1>11 DEF HandlerStep

LEMMA ResumeIsSeen ==
    ASSUME TypeOK, Undisturbed, UndisturbedInv, NEW t \in Ticks, Resume(t)
    PROVE  Seen
<1>0. /\ node \in [NodeTypes -> NodeStatus]
      /\ {"implementation_plan", "development", "mr_creation"} \subseteq NodeTypes
      /\ NodesAreAttended /\ CompletedRests
  BY DEF TypeOK, NodeTypes, UndisturbedInv
<1>1. Quiet /\ ~HasPendingGate /\ UNCHANGED << gate, handler >>
  BY DEF Resume, Undisturbed, OneAtATime
<1>2. /\ ~HasPendingGate' /\ ~MakingDraft /\ ~MakingDraft'
      /\ \A n \in {"implementation_plan", "development"} :
            node[n] = "completed" <=> node'[n] = "completed"
  BY <1>0, <1>1 DEF Resume, MayBeStuck, Quiet, MakingDraft, HasPendingGate
<1>3. CASE woStatus # "failed"
  <2>1. UNCHANGED woStatus
    BY <1>3 DEF Resume, StatusAfterResume
  <2>2. QED
    BY <1>1, <1>2, <1>3, <2>1 DEF Seen, artifactBar, turnBar
<1>4. CASE woStatus = "failed"
  <2>1. { n \in ExecutableNodes : node[n] = "failed" } # {}
    BY <1>0, <1>4 DEF NodesAreAttended
  <2>2. woStatus' = "in_progress"
    BY <1>4, <2>1 DEF Resume, StatusAfterResume
  <2>3. turnBar = "stopped" /\ turnBar' = "machine" /\ artifactBar' = artifactBar
    BY <1>1, <1>2, <1>4, <2>2, SeenOtherwise
  <2>4. QED
    BY <2>3 DEF Seen, Abstract!Next, Abstract!Retry
<1>5. QED
  BY <1>3, <1>4

\* An undisturbed delivery implements what the pipeline promises: it stops after every
\* artifact, only a human moves it on, and never by more than one artifact.
THEOREM DeliveryIsHumanGated == ASSUME Undisturbed PROVE Spec => ImplementsHumanGatedDelivery
<1>1. Init => Abstract!Init
  <2> SUFFICES ASSUME Init PROVE Abstract!Init
    OBVIOUS
  <2>1. ~HasPendingGate /\ ~MakingDraft
    BY DEF Init, NewOrder, Undisturbed, OneAtATime, NoGate, HasPendingGate, IdleHandler, MakingDraft
  <2>2. woStatus = "intake" /\ node["implementation_plan"] = "ready"
    BY DEF Init, NewOrder, Undisturbed, OneAtATime, NodeTypes, DependsOn
  <2>3. QED
    BY <2>1, <2>2, SeenOtherwise DEF Abstract!Init
<1>2. TypeOK /\ HumansDecideFirst /\ SoloInv /\ UndisturbedInv /\ [Next]_vars
        => [Abstract!Next]_<< artifactBar, turnBar >>
  <2> SUFFICES ASSUME TypeOK, HumansDecideFirst, SoloInv, UndisturbedInv, [Next]_vars
               PROVE  Seen
    BY DEF Seen
  <2>1. CASE UNCHANGED vars
    BY <2>1 DEF vars, Seen, artifactBar, turnBar, MakingDraft, HasPendingGate
  <2>2. QED
    BY <2>1, TickIsSeen, DecisionIsSeen, HandlerIsSeen, ResumeIsSeen
       DEF Next, Crash, Undisturbed
<1>3. QED
  BY <1>1, <1>2, UndisturbedRuns, TypeCorrect, ApprovalsComeFirst, OneThingAtATime, PTL
     DEF Spec, Undisturbed, ImplementsHumanGatedDelivery, Abstract!Spec, Abstract!vars
=============================================================================
