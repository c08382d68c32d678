------------------------ MODULE HumanGatedDelivery ------------------------
(***************************************************************************)
(* What the delivery pipeline promises, without threads, gates tables or   *)
(* graph nodes: five artifacts are worked on in order, the machine stops   *)
(* after each one and only a human moves the delivery on.                  *)
(***************************************************************************)

VARIABLES
    artifact,  \* what is being made or decided
    turn       \* whose move it is

vars == << artifact, turn >>

Artifacts == { "plan", "patch", "draft", "publication", "closing", "nothing" }
Turns     == { "machine", "human", "stopped", "nobody" }

TypeOK == artifact \in Artifacts /\ turn \in Turns

Init == artifact = "plan" /\ turn = "machine"

\* The machine has something to show and waits.  A publication is closed by hand.
Present ==
    /\ turn = "machine"
    /\ turn' = "human"
    /\ artifact' = IF artifact = "publication" THEN "closing" ELSE artifact

\* A human lets the delivery move on by one artifact, never more.
Approve ==
    /\ turn = "human"
    /\ \/ artifact = "plan"    /\ artifact' = "patch"       /\ turn' = "machine"
       \/ artifact = "patch"   /\ artifact' = "draft"       /\ turn' = "machine"
       \/ artifact = "draft"   /\ artifact' = "publication" /\ turn' = "machine"
       \/ artifact = "closing" /\ artifact' = "nothing"     /\ turn' = "nobody"

\* A human asks for another plan or another patch.
Redo ==
    /\ turn = "human"
    /\ artifact \in {"plan", "patch"}
    /\ turn' = "machine"
    /\ UNCHANGED artifact

\* An approved patch does not merge: it is developed again.
Conflict ==
    /\ turn = "machine" /\ artifact = "publication"
    /\ artifact' = "patch"
    /\ UNCHANGED turn

\* Agents fail at what they do, and a resume tries again.
Stop ==
    /\ turn = "machine" /\ artifact \in {"plan", "patch", "publication"}
    /\ turn' = "stopped"
    /\ UNCHANGED artifact

Retry ==
    /\ turn = "stopped"
    /\ turn' = "machine"
    /\ UNCHANGED artifact

Next == Present \/ Approve \/ Redo \/ Conflict \/ Stop \/ Retry

Spec == Init /\ [][Next]_vars
=============================================================================
