----------------------------- MODULE MCWorkplace -----------------------------
(***************************************************************************)
(* The parts of Workplace, one in each setting: the others stay in one of  *)
(* their initial states.  The module's own constants are those of the      *)
(* guards "at_once", the settings "in_turn", the automation and Jira.      *)
(***************************************************************************)
EXTENDS Workplace, TLC

CONSTANTS a, b, d, g1, g2, r1, r2, r3

VARIABLE setting

AtOnce   == {"interleave"}
TwoKeys  == {a, b}
Mishaps  == {"crash", "client_stops"}
AllKinds == {"poll", "put", "connect", "register", "share"}
Newer    == {"reporter"}
Updates  == {"crash", "update", "edit", "remove"}
Stirs    == {"change", "partial_list", "simple_servers", "unreadable_page"}

\* An agent that cannot be built, before another one.
Failing == INSTANCE AgentGuards WITH Environment <- {"factory_failure"}

\* Requests for local and organization projects that overlap.
Meeting == INSTANCE ProjectSettings WITH Projects <- ProjectKeys, MaxAtOnce <- 2,
              incidents <- mishaps, Kinds <- {"poll", "connect"}, Environment <- {"org_project"}

\* Setups and changes of a repository may overlap.
Setups == INSTANCE Provisioning WITH Roles <- ManifestRoles, MaxAtOnce <- 2,
              incidents <- cuts, Environment <- SetupEvents

\* Manifests that are not YAML, met by requests in turn and by starts of a new version.
Unparsed == INSTANCE Provisioning WITH Roles <- ManifestRoles, MaxAtOnce <- 1,
              incidents <- cuts, Environment <- {"update", "edit", "break", "crash"}

settingsVars   == <<mapping, torn, active, global, cloud, req, want, created, mishaps>>
automationVars == <<bundle, serving, repo, file, th, edits, cuts>>
jiraVars       == <<jira, server, fetch, fetches, stirs>>

NoSettings   == /\ Settings!Init /\ active = Nobody
NoAutomation == /\ Setups!Init /\ bundle = 2 /\ repo = NoRepo
NoJira       == /\ Search!Init /\ server = [offset |-> TRUE, limit |-> PageSize, total |-> TRUE]
NoGuards     == Init /\ shadow = FALSE

InitSettings ==
    \/ setting \in {"at_once", "failing"} /\ Init /\ NoSettings /\ NoAutomation /\ NoJira
    \/ setting \in {"in_turn", "meeting"} /\ Settings!Init /\ NoGuards /\ NoAutomation /\ NoJira
    \/ setting \in {"automation", "unparsed"} /\ Setups!Init /\ NoGuards /\ NoSettings /\ NoJira
    \/ setting = "jira" /\ Search!Init /\ NoGuards /\ NoSettings /\ NoAutomation

\* Requests are interchangeable and each is made once: r1 is the first, r3 the last.
Made(r) == req[r].pc # "idle" \/ th[r].pc # "idle"
InOrder == (Made(r2) => Made(r1)) /\ (Made(r3) => Made(r2))

NextSettings ==
    /\ UNCHANGED setting
    /\ \/ /\ \/ setting = "at_once" /\ Next
             \/ setting = "failing" /\ Failing!Next
          /\ UNCHANGED <<settingsVars, automationVars, jiraVars>>
       \/ /\ \/ setting = "in_turn" /\ Settings!Next
             \/ setting = "meeting" /\ Meeting!Next
          /\ UNCHANGED <<vars, automationVars, jiraVars>>
       \/ /\ \/ setting = "automation" /\ Setups!Next
             \/ setting = "unparsed" /\ Unparsed!Next
          /\ UNCHANGED <<vars, settingsVars, jiraVars>>
       \/ /\ setting = "jira" /\ Search!Next
          /\ UNCHANGED <<vars, settingsVars, automationVars>>
    /\ InOrder'

SpecSettings ==
    InitSettings /\ [][NextSettings]_<<setting, vars, settingsVars, automationVars, jiraVars>>

\* Runs are interchangeable, and work orders or projects are.
Symmetric == Permutations(Runs) \cup Permutations({a, b})
=============================================================================
