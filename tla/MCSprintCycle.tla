--------------------------- MODULE MCSprintCycle ---------------------------
(***************************************************************************)
(* SprintCycle in three settings.  Two ready tickets and one thread, with  *)
(* every failure, is the module's own constants; the same tickets while    *)
(* analyses change their minds, and two threads over one ticket that meet  *)
(* at any step, are instances.                                             *)
(***************************************************************************)
EXTENDS SprintCycle, TLC

CONSTANTS a, b, p0, p1, p2

VARIABLE setting

TwoTickets  == {a, b}
ByRank      == <<a, b>>
Estimates   == [t \in {a, b} |-> IF t = a THEN 1 ELSE 2]
OneThread   == {p0}
AnalystSays == {"ready"}
Unforced    == SprintEvents \ {"forced_report"}

Analysed == INSTANCE SprintCycle WITH Verdicts <- {"ready", "needs_clarification"},
               Environment <- {}

Meeting == INSTANCE SprintCycle WITH Tickets <- {a}, Rank <- <<a>>, Days <- [t \in {a} |-> 1],
               Verdicts <- {"ready"}, Threads <- {p1, p2}, MaxItems <- 1, Environment <- {}

\* The threads that meet are interchangeable.
Symmetric == Permutations({p1, p2})

InitSettings ==
    \/ setting = "alone"    /\ Init
    \/ setting = "analysed" /\ Analysed!Init
    \/ setting = "meeting"  /\ Meeting!Init

NextSettings ==
    /\ UNCHANGED setting
    /\ \/ setting = "alone"    /\ Next
       \/ setting = "analysed" /\ Analysed!Next
       \/ setting = "meeting"  /\ Meeting!Next

SpecSettings == InitSettings /\ [][NextSettings]_<<setting, vars>>
=============================================================================
