-------------------------- MODULE MCSharedCheckout --------------------------
(***************************************************************************)
(* SharedCheckout in the four settings its properties are about.  The one  *)
(* with two tickets, one after the other in a managed checkout, is the     *)
(* module's own constants; the others have one ticket and more trouble.    *)
(***************************************************************************)
EXTENDS SharedCheckout

CONSTANTS a, b

VARIABLE setting

QueueTrouble == {"rejection", "push_failure", "confinement", "stray_file", "refresh"}
Failures     == {"rejection", "push_failure", "agent_failure", "block", "confinement"}

\* A managed checkout, and a merge target that appears late.
Late == INSTANCE SharedCheckout WITH WorkOrders <- {a}, Managed <- TRUE,
            Environment <- Failures \cup {"stray_file", "late_target", "refresh"}
\* A copied checkout under a scope contract.
Copy == INSTANCE SharedCheckout WITH WorkOrders <- {a}, Managed <- FALSE,
            Environment <- Failures \cup {"stray_file", "late_target"}
\* The integration branch and the merge target do not merge.
Drift == INSTANCE SharedCheckout WITH WorkOrders <- {a}, Managed <- FALSE,
            Environment <- Failures \cup {"drift"}

InitSettings ==
    \/ setting = "queue" /\ Init
    \/ setting = "late"  /\ Late!Init
    \/ setting = "copy"  /\ Copy!Init
    \/ setting = "drift" /\ Drift!Init

NextSettings ==
    /\ UNCHANGED setting
    /\ \/ setting = "queue" /\ Next
       \/ setting = "late"  /\ Late!Next
       \/ setting = "copy"  /\ Copy!Next
       \/ setting = "drift" /\ Drift!Next

SpecSettings == InitSettings /\ [][NextSettings]_<<setting, vars>>
=============================================================================
