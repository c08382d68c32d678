------------------------ MODULE DeliveryRefinement ------------------------
(***************************************************************************)
(* The pipeline of DeliveryPipeline, operated with discipline, implements  *)
(* HumanGatedDelivery.                                                     *)
(***************************************************************************)
EXTENDS DeliveryPipeline

GateArtifact(type) == CASE type \in PlanGates             -> "plan"
                        [] type = "code_review"          -> "patch"
                        [] type = "merge_request_review" -> "draft"
                        [] type = "jira_update"          -> "closing"

MakingDraft ==
    \E h \in Handlers : handler[h].pc \in {"save_draft", "attach_draft", "open_mr_gate"}

artifactBar ==
    IF HasPendingGate
    THEN GateArtifact(gate[CHOOSE g \in GateIds : gate[g].status = "pending"].type)
    ELSE IF woStatus = "completed" THEN "nothing"
    ELSE IF MakingDraft THEN "draft"
    ELSE IF node["implementation_plan"] # "completed" THEN "plan"
    ELSE IF node["development"] # "completed" THEN "patch"
    ELSE "publication"

turnBar ==
    IF HasPendingGate THEN "human"
    ELSE IF woStatus = "completed" THEN "nobody"
    ELSE IF woStatus = "failed" THEN "stopped"
    ELSE "machine"

Abstract == INSTANCE HumanGatedDelivery WITH artifact <- artifactBar, turn <- turnBar

\* Whatever the threads and handlers of one work order do, seen from outside
\* the delivery stops after every artifact and only a human moves it on.
ImplementsHumanGatedDelivery == Abstract!Spec
=============================================================================
