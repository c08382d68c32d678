------------------------- MODULE MCDeliveryPipeline -------------------------
(* Small instances of DeliveryPipeline for TLC. *)
EXTENDS DeliveryPipeline, TLC

CONSTANTS t1, t2, h1, h2

TwoTicks    == {t1, t2}
OneHandler  == {h1}
TwoHandlers == {h1, h2}

\* The threads are interchangeable.
Threads == Permutations(Ticks) \cup Permutations(Handlers)

Anything    == EnvironmentEvents \ {"clarification"}
Disciplined == {"clarification", "agent_failure", "merge_conflict", "resume"}
NoRestart   == Disciplined \cup {"refused_failure", "mr_rejection"}

\* An environment in which the code does not do what its documents say.
StrayResume == {"impatient_resume"}
=============================================================================
