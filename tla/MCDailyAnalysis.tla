-------------------------- MODULE MCDailyAnalysis --------------------------
(***************************************************************************)
(* DailyAnalysis in two settings of one ticket and two threads.  Runs that *)
(* meet humans who estimate and decide, with every incident of theirs, is  *)
(* the module's own constants; scans and single tickets that humans have   *)
(* analysed while a run works are an instance.                             *)
(***************************************************************************)
EXTENDS DailyAnalysis, TLC

CONSTANTS a, p1, p2, h1, nobody

VARIABLE setting

OneTicket  == {a}
TwoThreads == {p1, p2}
OneHuman   == {h1}
Said       == {<<"ready", "analyst">>, <<"needs_clarification", "none">>}
OnDemand     == {"scan", "reanalyze", "interference"}
Unasked    == (Incidents \cup Requests) \ OnDemand
Alike      == Permutations(TwoThreads)

Asked == INSTANCE DailyAnalysis WITH MaxRuns <- 1, MaxProposals <- 0,
            Environment <- OnDemand \cup {"agent_failure", "estimate"}

InitSettings ==
    \/ setting = "runs"  /\ Init
    \/ setting = "asked" /\ Asked!Init

NextSettings ==
    /\ UNCHANGED setting
    /\ \/ setting = "runs"  /\ Next
       \/ setting = "asked" /\ Asked!Next

SpecSettings == InitSettings /\ [][NextSettings]_<<setting, vars>>
=============================================================================
