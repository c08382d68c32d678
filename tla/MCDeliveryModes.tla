-------------------------- MODULE MCDeliveryModes --------------------------
(***************************************************************************)
(* DeliveryPipeline in three settings, of which a behaviour keeps one.     *)
(* With restarts, in both values of LIVINGCOLOR_SHADOW_MODE, which a       *)
(* server reads once: live mode is the module's own constants; in shadow   *)
(* mode branches are taken to merge.  And without restarts, with room for  *)
(* longer deliveries, where a delivery has to go on by itself.             *)
(***************************************************************************)
EXTENDS MCDeliveryPipeline

VARIABLE setting

Restarts    == NoRestart \cup {"crash"}
CleanMerges == Restarts \ {"merge_conflict"}

Shadow  == INSTANCE DeliveryPipeline WITH ShadowMode <- TRUE, Environment <- CleanMerges
Lasting == INSTANCE DeliveryPipeline WITH Environment <- NoRestart, MaxGates <- 8, MaxDrafts <- 3

InitModes ==
    \/ setting \in {"live", "shadow"} /\ Init
    \/ setting = "lasting" /\ Lasting!Init

NextModes ==
    /\ CASE setting = "live"    -> Next
         [] setting = "shadow"  -> Shadow!Next
         [] setting = "lasting" -> Lasting!Next
    /\ UNCHANGED setting

Step(action) == setting = "lasting" /\ action /\ UNCHANGED setting

\* The fairness of threads that can move, in the setting that states liveness.
FairModes ==
    /\ \A t \in Ticks : /\ WF_<<setting, vars>>(Step(Lasting!TickStep(t)))
                        /\ WF_<<setting, vars>>(Step(Lasting!AgentRunEnds(t)))
    /\ \A h \in Handlers : WF_<<setting, vars>>(Step(Lasting!HandlerStep(h)))

SpecModes == InitModes /\ [][NextModes]_<<setting, vars>> /\ FairModes

\* In shadow mode the engine reaches no publication, whatever restarts and
\* resumes do, as long as branches merge (ShadowPublishesNothing).
NothingInShadow == setting = "shadow" => Shadow!ShadowPublishesNothing

\* As long as the server does not restart, a work order that humans leave alone comes to
\* a gate, to completion or to a failure that resume can retry, through every rejection,
\* failure and conflict; the cases DraftIsRejected, FailureIsUnrecorded and GraphIsDone are
\* the only ones that leave it without a question or a status.
ComesBackToAHuman == []<>(setting = "lasting" => Lasting!WithAHuman)
=============================================================================
