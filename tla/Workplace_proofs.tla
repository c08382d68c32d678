------------------------- MODULE Workplace_proofs ---------------------------
(***************************************************************************)
(* Theorems about what a delivery relies on, for all values of the         *)
(* constants: the guards of the agents (first), the automation of a        *)
(* project, the projects and their settings, and the search of issues.     *)
(* Each part has an inductive invariant of its own.                        *)
(***************************************************************************)
EXTENDS Workplace, FiniteSets, FiniteSetTheorems, Sequences, TLAPS

-----------------------------------------------------------------------------
(* The guards of the agents. *)

Active(r)   == run[r].pc \notin Resting
Speaking(r) == run[r].pc \in {"talking", "talked"}
Guided(r)   == run[r].pc \in {"talking", "talked", "unscoped"}

TasksAreKnown == \A r \in Runs : Active(r) => run[r].wo \in WorkOrders

\* A run at work has the guards registered under its task, and they know what it was
\* refused.
HasItsGuards ==
    /\ \A r, s \in Runs : Active(r) /\ Active(s) /\ Task(r) = Task(s) => r = s
    /\ \A r \in Runs :
          /\ Active(r)   => confined[Task(r)] = r /\ run[r].contract # "none"
          /\ Speaking(r) => scoped[Task(r)] = r

KnowsRefusals ==
    \A r \in Runs :
        /\ At(r, "activated") => run[r].refused = FALSE
        /\ Guided(r) => /\ run[r].kept = r
                        /\ run[r].refused = TRUE =>
                              run[r].confinement = "blocked" \/ run[r].scope = "blocked"
        /\ At(r, "accepted") /\ run[r].role = "developer" => run[r].refused = FALSE

InTurn  == incidents \cap {"overlap", "no_contract"} = {}
Guarded == InTurn => escaped = {} /\ HasItsGuards /\ KnowsRefusals

\* A guard belongs to a task somebody works on, ...
GuardsAreInUse ==
    "factory_failure" \notin incidents => \A t \in Tasks :
        /\ confined[t] # Nobody => \E r \in Runs : Active(r) /\ Task(r) = t
        /\ scoped[t] # Nobody => \E r \in Runs : Speaking(r) /\ Task(r) = t

\* ... and the directory to the one run at work.
DirectoryIsInUse ==
    incidents \cap {"factory_failure", "interleave"} = {} =>
        /\ \A r, s \in Runs : Active(r) /\ Active(s) => r = s
        /\ \A r \in Runs : Active(r) => run[r].prev = Nobody
        /\ (\A r \in Runs : ~Active(r)) => cwd = Nobody

\* The inductive invariant.
Inv == TypeOK /\ TasksAreKnown /\ Guarded /\ GuardsAreInUse /\ DirectoryIsInUse

RunRecord ==
    [pc : Pcs, wo : WorkOrders \cup {Nobody}, role : Roles, merging : BOOLEAN,
     contract : Contracts, prev : WorkOrders \cup {Nobody}, kept : Runs \cup {Nobody},
     confinement : {"open", "blocked"}, scope : {"open", "blocked"},
     refused : BOOLEAN, created : BOOLEAN]

LEMMA RunType == ASSUME TypeOK, NEW r \in Runs PROVE run[r] \in RunRecord
BY DEF TypeOK, RunRecord

LEMMA TaskType ==
    ASSUME TypeOK, TasksAreKnown, NEW r \in Runs, Active(r) PROVE Task(r) \in Tasks
BY RunType DEF TasksAreKnown, Task, TaskOf, Tasks, RunRecord

LEMMA SameTask ==
    ASSUME NEW role, NEW w, NEW role2, NEW w2
    PROVE  TaskOf(role, w) = TaskOf(role2, w2) <=> role = role2 /\ w = w2
BY DEF TaskOf

LEMMA NobodyIsNoRun == \A r \in Runs : r # Nobody
BY NobodyAssumption DEF NobodyAssumption

----------------------------------------------------------------------------
(* A run begins. *)

LEMMA ActivateStep ==
    ASSUME Inv, NEW r \in Runs, NEW w \in WorkOrders, NEW role \in Roles,
           NEW merging \in BOOLEAN, NEW contract \in Contracts,
           Activate(r, w, role, merging, contract)
    PROVE  Inv'
<1> DEFINE new    == [NoRun EXCEPT !.pc = "activated", !.wo = w, !.role = role,
                                   !.merging = merging, !.contract = contract, !.prev = cwd]
           task   == TaskOf(role, w)
           others == {s \in Runs \ {r} : Active(s)}
<1>1. /\ ~Active(r)
      /\ run' = [run EXCEPT ![r] = new] /\ cwd' = w
      /\ confined' = [confined EXCEPT ![task] = r]
      /\ UNCHANGED <<shadow, scoped, escaped>>
  BY DEF Activate, Active
<1>2. incidents' = incidents
                   \cup {e \in {"interleave"} : others # {}}
                   \cup {e \in {"overlap"} : \E s \in others : Task(s) = task}
                   \cup {e \in {"no_contract"} : contract = "none"}
  BY DEF Activate, Active
<1>3. TypeOK
  BY DEF Inv
<1>4. /\ new \in RunRecord /\ new.pc = "activated" /\ new.wo = w /\ new.role = role
      /\ new.contract = contract /\ new.prev = cwd /\ new.refused = FALSE
  BY <1>3 DEF TypeOK, NoRun, RunRecord, Pcs, Resting
<1>5. task \in Tasks
  BY DEF TaskOf, Tasks
<1> HIDE DEF new
<1>6. \A s \in Runs : run'[s] = IF s = r THEN new ELSE run[s]
  BY <1>1, <1>3 DEF TypeOK
<1>7. TypeOK'
  <2>1. run' \in [Runs -> RunRecord]
    BY <1>1, <1>3, <1>4 DEF TypeOK, RunRecord
  <2>2. incidents' \subseteq EnvironmentEvents
    BY <1>2, <1>3 DEF TypeOK, EnvironmentEvents
  <2>3. confined' \in [Tasks -> Runs \cup {Nobody}]
    BY <1>1, <1>3 DEF TypeOK
  <2>4. QED
    BY <1>1, <1>3, <2>1, <2>2, <2>3 DEF TypeOK, RunRecord
<1>8. /\ \A s \in Runs : Active(s)' <=> s = r \/ Active(s)
      /\ \A s \in Runs : Task(s)' = IF s = r THEN task ELSE Task(s)
      /\ \A s \in Runs \ {r} : (Speaking(s)' <=> Speaking(s)) /\ (Guided(s)' <=> Guided(s))
      /\ ~Speaking(r)' /\ ~Guided(r)'
  BY <1>4, <1>6 DEF Active, Speaking, Guided, Resting, Task
<1>9. TasksAreKnown'
  BY <1>4, <1>6, <1>8 DEF Inv, TasksAreKnown
<1>10. \A t \in Tasks : confined'[t] = IF t = task THEN r ELSE confined[t]
  BY <1>1, <1>3 DEF TypeOK
<1>11. Guarded'
  <2> SUFFICES ASSUME InTurn' PROVE (escaped = {} /\ HasItsGuards /\ KnowsRefusals)'
    BY DEF Guarded
  <2>1. /\ InTurn /\ contract # "none"
        /\ \A s \in Runs \ {r} : Active(s) => Task(s) # task
    BY <1>2 DEF InTurn
  <2>2. escaped = {} /\ HasItsGuards /\ KnowsRefusals
    BY <2>1 DEF Inv, Guarded
  <2>3. \A s \in Runs : Active(s) => Task(s) \in Tasks
    BY TaskType DEF Inv
  <2>4. \A s \in Runs \ {r} : Active(s) => confined'[Task(s)] = confined[Task(s)]
    BY <1>10, <2>1, <2>3
  <2>5. \A s \in Runs : Speaking(s) => Active(s)
    BY DEF Speaking, Active, Resting
  <2>6. HasItsGuards'
    BY <1>1, <1>4, <1>5, <1>6, <1>8, <1>10, <2>1, <2>2, <2>4, <2>5 DEF HasItsGuards
  <2>7. KnowsRefusals'
    BY <1>4, <1>6, <1>8, <2>2 DEF KnowsRefusals, At
  <2>8. QED
    BY <1>1, <2>2, <2>6, <2>7
<1>12. GuardsAreInUse'
  BY <1>1, <1>2, <1>8, <1>10 DEF Inv, GuardsAreInUse, Speaking, Active, Resting
<1>13. DirectoryIsInUse'
  <2> SUFFICES ASSUME (incidents \cap {"factory_failure", "interleave"} = {})'
               PROVE  /\ \A s, u \in Runs : Active(s)' /\ Active(u)' => s = u
                      /\ \A s \in Runs : Active(s)' => run'[s].prev = Nobody
                      /\ (\A s \in Runs : ~Active(s)') => cwd' = Nobody
    BY DEF DirectoryIsInUse
  <2>1. /\ incidents \cap {"factory_failure", "interleave"} = {}
        /\ \A s \in Runs \ {r} : ~Active(s)
    BY <1>2
  <2>2. cwd = Nobody
    BY <1>1, <2>1 DEF Inv, DirectoryIsInUse
  <2>3. QED
    BY <1>4, <1>6, <1>8, <2>1, <2>2
<1>14. QED
  BY <1>7, <1>9, <1>11, <1>12, <1>13 DEF Inv

----------------------------------------------------------------------------
(* The guards of a run are complete before its agent speaks. *)

LEMMA RegisterStep ==
    ASSUME Inv, NEW r \in Runs, NEW pc \in {"talking", "talked", "failed"},
           RegisterScope(r, pc), UNCHANGED <<shadow, confined, cwd, escaped>>,
           pc # "failed" => UNCHANGED incidents,
           pc = "failed" => incidents' = incidents \cup {"factory_failure"}
    PROVE  Inv'
<1> DEFINE new == [run[r] EXCEPT !.pc = pc, !.kept = confined[Task(r)]]
<1>1. /\ At(r, "activated") /\ Active(r)
      /\ run' = [run EXCEPT ![r] = new]
      /\ scoped' = IF run[r].contract = "none" THEN scoped
                                               ELSE [scoped EXCEPT ![Task(r)] = r]
  BY RunType DEF RegisterScope, At, Active, Resting, Inv, TypeOK
<1>2. TypeOK /\ Task(r) \in Tasks
  BY <1>1, TaskType DEF Inv
<1>3. /\ new \in RunRecord /\ new.pc = pc /\ new.kept = confined[Task(r)]
      /\ new.wo = run[r].wo /\ new.role = run[r].role /\ new.prev = run[r].prev
      /\ new.contract = run[r].contract /\ new.refused = run[r].refused
  BY <1>2, RunType DEF TypeOK, RunRecord, Pcs, Resting
<1> HIDE DEF new
<1>4. \A s \in Runs : run'[s] = IF s = r THEN new ELSE run[s]
  BY <1>1, <1>2 DEF TypeOK
<1>5. /\ \A t \in Tasks : t # Task(r) => scoped'[t] = scoped[t]
      /\ run[r].contract # "none" => scoped'[Task(r)] = r
  BY <1>1, <1>2 DEF TypeOK
<1>6. TypeOK'
  <2>1. run' \in [Runs -> RunRecord]
    BY <1>1, <1>2, <1>3 DEF TypeOK, RunRecord
  <2>2. incidents' \subseteq EnvironmentEvents
    BY <1>2 DEF TypeOK, EnvironmentEvents
  <2>3. scoped' \in [Tasks -> Runs \cup {Nobody}]
    BY <1>1, <1>2 DEF TypeOK
  <2>4. QED
    BY <1>2, <2>1, <2>2, <2>3 DEF TypeOK, RunRecord
<1>7. /\ \A s \in Runs : Task(s)' = Task(s)
      /\ \A s \in Runs \ {r} : /\ Active(s)' <=> Active(s)
                               /\ Speaking(s)' <=> Speaking(s)
                               /\ Guided(s)' <=> Guided(s)
      /\ ~Speaking(r) /\ ~Guided(r)
      /\ pc # "failed" => Active(r)' /\ Speaking(r)' /\ Guided(r)'
      /\ pc = "failed" => ~Active(r)' /\ ~Speaking(r)' /\ ~Guided(r)'
  BY <1>1, <1>3, <1>4 DEF Active, Speaking, Guided, Resting, Task, At
<1>8. TasksAreKnown'
  BY <1>1, <1>3, <1>4, <1>7 DEF Inv, TasksAreKnown
<1>9. Guarded'
  <2> SUFFICES ASSUME InTurn' PROVE (escaped = {} /\ HasItsGuards /\ KnowsRefusals)'
    BY DEF Guarded
  <2>1. InTurn /\ escaped = {} /\ HasItsGuards /\ KnowsRefusals
    BY DEF InTurn, Inv, Guarded
  <2>2. /\ run[r].contract # "none" /\ confined[Task(r)] = r
        /\ \A s \in Runs \ {r} : Active(s) => Task(s) # Task(r) /\ Task(s) \in Tasks
    BY <1>1, <2>1, TaskType DEF HasItsGuards, Inv
  <2>3. \A s \in Runs : Speaking(s) => Active(s)
    BY DEF Speaking, Active, Resting
  <2>4. HasItsGuards'
    BY <1>1, <1>3, <1>4, <1>5, <1>7, <2>1, <2>2, <2>3 DEF HasItsGuards
  <2>5. KnowsRefusals'
    BY <1>1, <1>3, <1>4, <1>7, <2>1, <2>2 DEF KnowsRefusals, At
  <2>6. QED
    BY <2>1, <2>4, <2>5
<1>10. GuardsAreInUse'
  BY <1>1, <1>2, <1>5, <1>7 DEF Inv, GuardsAreInUse
<1>11. DirectoryIsInUse'
  BY <1>1, <1>3, <1>4, <1>7 DEF Inv, DirectoryIsInUse
<1>12. QED
  BY <1>6, <1>8, <1>9, <1>10, <1>11 DEF Inv

----------------------------------------------------------------------------
(* A run speaks: its guards stay, what they refuse is remembered. *)

\* What a step of the conversation leaves alone.
StillTheSame(s) ==
    /\ Task(s)' = Task(s)
    /\ run'[s].wo = run[s].wo /\ run'[s].role = run[s].role
    /\ run'[s].contract = run[s].contract /\ run'[s].prev = run[s].prev
    /\ (Active(s)' <=> Active(s)) /\ (Speaking(s)' <=> Speaking(s))

LEMMA TalkStep ==
    ASSUME Inv, UNCHANGED <<shadow, confined, scoped, cwd, incidents>>,
           run' \in [Runs -> RunRecord], escaped' \subseteq Roles \X Calls,
           \A s \in Runs : StillTheSame(s),
           InTurn => escaped' = {} /\ KnowsRefusals'
    PROVE  Inv'
<1>1. TypeOK'
  BY DEF Inv, TypeOK, RunRecord
<1>2. TasksAreKnown'
  BY DEF Inv, TasksAreKnown, StillTheSame
<1>3. Guarded'
  <2> SUFFICES ASSUME InTurn' PROVE (escaped = {} /\ HasItsGuards /\ KnowsRefusals)'
    BY DEF Guarded
  <2>1. InTurn /\ HasItsGuards
    BY DEF InTurn, Inv, Guarded
  <2>2. HasItsGuards'
    BY <2>1 DEF HasItsGuards, StillTheSame
  <2>3. QED
    BY <2>1, <2>2
<1>4. GuardsAreInUse'
  BY DEF Inv, GuardsAreInUse, StillTheSame
<1>5. DirectoryIsInUse'
  BY DEF Inv, DirectoryIsInUse, StillTheSame
<1>6. QED
  BY <1>1, <1>2, <1>3, <1>4, <1>5 DEF Inv

LEMMA CallConfinedStep ==
    ASSUME Inv, NEW r \in Runs, NEW call \in Calls, CallConfined(r, call)
    PROVE  Inv'
<1> DEFINE g      == confined[Task(r)]
           blocked(s) == IF s = g THEN [run[s] EXCEPT !.confinement = "blocked"] ELSE run[s]
           new(s) == IF s = r THEN [blocked(s) EXCEPT !.refused = TRUE] ELSE blocked(s)
<1>1. /\ At(r, "talking") /\ Active(r) /\ Guided(r)
      /\ UNCHANGED <<shadow, confined, scoped, cwd, escaped, incidents>>
      /\ g # Nobody
  BY DEF CallConfined, ConfinementRefuses, At, Active, Guided, Resting
<1>2. TypeOK /\ Task(r) \in Tasks
  BY <1>1, TaskType DEF Inv
<1>3. g \in Runs
  BY <1>1, <1>2 DEF TypeOK
<1>4. \A s \in Runs : run[s] \in RunRecord
  BY <1>2, RunType
<1>5. /\ run' = [s \in Runs |-> run'[s]]
      /\ \A s \in Runs : run'[s] = new(s)
  BY <1>2, <1>3, <1>4 DEF CallConfined, TypeOK, RunRecord
<1>6. \A s \in Runs :
          /\ run'[s] \in RunRecord /\ run'[s].pc = run[s].pc
          /\ run'[s].wo = run[s].wo /\ run'[s].role = run[s].role
          /\ run'[s].contract = run[s].contract /\ run'[s].prev = run[s].prev
          /\ run'[s].kept = run[s].kept /\ run'[s].scope = run[s].scope
          /\ s = g => run'[s].confinement = "blocked"
          /\ s # g => run'[s].confinement = run[s].confinement
          /\ s = r => run'[s].refused = TRUE
          /\ s # r => run'[s].refused = run[s].refused
  <2> TAKE s \in Runs
  <2>1. run[s] \in RunRecord /\ run'[s] = new(s)
    BY <1>4, <1>5
  <2>2. CASE s = g /\ s = r
    BY <2>1, <2>2 DEF RunRecord
  <2>3. CASE s = g /\ s # r
    BY <2>1, <2>3 DEF RunRecord
  <2>4. CASE s # g /\ s = r
    BY <2>1, <2>4 DEF RunRecord
  <2>5. CASE s # g /\ s # r
    BY <2>1, <2>5
  <2>6. QED
    BY <2>2, <2>3, <2>4, <2>5
<1> HIDE DEF g, blocked, new
<1>7. run' \in [Runs -> RunRecord]
  BY <1>5, <1>6
<1>8. \A s \in Runs : StillTheSame(s) /\ (Guided(s)' <=> Guided(s))
  BY <1>6 DEF StillTheSame, Active, Speaking, Guided, Task
<1>9. ASSUME InTurn PROVE escaped' = {} /\ KnowsRefusals'
  <2>1. escaped = {} /\ HasItsGuards /\ KnowsRefusals
    BY <1>9 DEF Inv, Guarded
  <2>2. g = r
    BY <1>1, <2>1 DEF HasItsGuards, g
  <2>3. KnowsRefusals'
    BY <1>1, <1>6, <1>8, <2>1, <2>2 DEF KnowsRefusals, At
  <2>4. QED
    BY <1>1, <2>1, <2>3
<1>10. escaped' \subseteq Roles \X Calls
  BY <1>1, <1>2 DEF TypeOK
<1>11. QED
  BY <1>1, <1>7, <1>8, <1>9, <1>10, TalkStep

LEMMA CallOutOfScopeStep ==
    ASSUME Inv, NEW r \in Runs, NEW call \in Calls, CallOutOfScope(r, call)
    PROVE  Inv'
<1> DEFINE g      == scoped[Task(r)]
           blocked(s) == IF s = g THEN [run[s] EXCEPT !.scope = "blocked"] ELSE run[s]
           new(s) == IF s = r THEN [blocked(s) EXCEPT !.refused = TRUE] ELSE blocked(s)
<1>1. /\ At(r, "talking") /\ Active(r) /\ Speaking(r)
      /\ UNCHANGED <<shadow, confined, scoped, cwd, escaped, incidents>>
      /\ g # Nobody
  BY DEF CallOutOfScope, ScopeRefuses, At, Active, Speaking, Resting
<1>2. TypeOK /\ Task(r) \in Tasks
  BY <1>1, TaskType DEF Inv
<1>3. g \in Runs
  BY <1>1, <1>2 DEF TypeOK
<1>4. \A s \in Runs : run[s] \in RunRecord
  BY <1>2, RunType
<1>5. /\ run' = [s \in Runs |-> run'[s]]
      /\ \A s \in Runs : run'[s] = new(s)
  BY <1>2, <1>3, <1>4 DEF CallOutOfScope, TypeOK, RunRecord
<1>6. \A s \in Runs :
          /\ run'[s] \in RunRecord /\ run'[s].pc = run[s].pc
          /\ run'[s].wo = run[s].wo /\ run'[s].role = run[s].role
          /\ run'[s].contract = run[s].contract /\ run'[s].prev = run[s].prev
          /\ run'[s].kept = run[s].kept /\ run'[s].confinement = run[s].confinement
          /\ s = g => run'[s].scope = "blocked"
          /\ s # g => run'[s].scope = run[s].scope
          /\ s = r => run'[s].refused = TRUE
          /\ s # r => run'[s].refused = run[s].refused
  <2> TAKE s \in Runs
  <2>1. run[s] \in RunRecord /\ run'[s] = new(s)
    BY <1>4, <1>5
  <2>2. CASE s = g /\ s = r
    <3>1. run'[s] = [run[s] EXCEPT !.scope = "blocked", !.refused = TRUE]
      BY <2>1, <2>2
    <3>2. QED
      BY <2>1, <2>2, <3>1 DEF RunRecord
  <2>3. CASE s = g /\ s # r
    BY <2>1, <2>3 DEF RunRecord
  <2>4. CASE s # g /\ s = r
    BY <2>1, <2>4 DEF RunRecord
  <2>5. CASE s # g /\ s # r
    BY <2>1, <2>5
  <2>6. QED
    BY <2>2, <2>3, <2>4, <2>5
<1> HIDE DEF g, blocked, new
<1>7. run' \in [Runs -> RunRecord]
  BY <1>5, <1>6
<1>8. \A s \in Runs : StillTheSame(s) /\ (Guided(s)' <=> Guided(s))
  BY <1>6 DEF StillTheSame, Active, Speaking, Guided, Task
<1>9. ASSUME InTurn PROVE escaped' = {} /\ KnowsRefusals'
  <2>1. escaped = {} /\ HasItsGuards /\ KnowsRefusals
    BY <1>9 DEF Inv, Guarded
  <2>2. g = r
    BY <1>1, <2>1 DEF HasItsGuards, g
  <2>3. KnowsRefusals'
    BY <1>1, <1>6, <1>8, <2>1, <2>2 DEF KnowsRefusals, At, Guided, Speaking
  <2>4. QED
    BY <1>1, <2>1, <2>3
<1>10. escaped' \subseteq Roles \X Calls
  BY <1>1, <1>2 DEF TypeOK
<1>11. QED
  BY <1>1, <1>7, <1>8, <1>9, <1>10, TalkStep

\* What the guards of a run let pass is not forbidden to it.
LEMMA WhatPassesIsAllowed ==
    ASSUME Inv, NEW r \in Runs, NEW call \in Calls, At(r, "talking"), InTurn,
           ~Refused(r, call)
    PROVE  ~Forbidden(r, call)
<1>1. /\ confined[Task(r)] = r /\ scoped[Task(r)] = r /\ r # Nobody
  BY NobodyIsNoRun DEF Inv, Guarded, HasItsGuards, Active, Speaking, At, Resting
<1>2. run[r].role \in Roles
  BY RunType DEF Inv, RunRecord
<1>3. call \in PathTools \cup Terminal => ~OutsideRoot(call)
  BY <1>1 DEF Refused, ConfinementRefuses
<1>4. call \in (PathTools \ ReadTools) \cup Terminal =>
          ~OutOfScope(run[r].contract, call) /\ ~DeniedByPolicy(r, run[r].role, call)
  BY <1>1 DEF Refused, ScopeRefuses
<1>5. ~ShadowRefusesCommand(call) /\ ~McpRefuses(run[r].role, call)
  BY DEF Refused
<1>6. QED
  BY <1>2, <1>3, <1>4, <1>5
     DEF Forbidden, OutsideRoot, OutOfScope, DeniedByPolicy, ShadowRefusesCommand, McpRefuses,
         Roles, Calls, PathTools, ReadTools, Terminal, GitWrites, McpTools, VcsWrites

LEMMA CallCarriedOutStep ==
    ASSUME Inv, NEW r \in Runs, NEW call \in Calls, CallCarriedOut(r, call)
    PROVE  Inv'
<1> DEFINE new == [run[r] EXCEPT !.created =
                      @ \/ (run[r].role = "publisher" /\ call \in VcsWrites)]
<1>1. /\ At(r, "talking") /\ ~Refused(r, call)
      /\ run' = [run EXCEPT ![r] = new]
      /\ escaped' = escaped \cup {c \in {<<run[r].role, call>>} : Forbidden(r, call)}
      /\ UNCHANGED <<shadow, confined, scoped, cwd, incidents>>
  BY DEF CallCarriedOut
<1>2. TypeOK /\ \A s \in Runs : run[s] \in RunRecord
  BY RunType DEF Inv
<1>3. /\ new \in RunRecord /\ new.pc = run[r].pc /\ new.wo = run[r].wo
      /\ new.role = run[r].role /\ new.contract = run[r].contract /\ new.prev = run[r].prev
      /\ new.kept = run[r].kept /\ new.confinement = run[r].confinement
      /\ new.scope = run[r].scope /\ new.refused = run[r].refused
  BY <1>2 DEF RunRecord
<1> HIDE DEF new
<1>4. \A s \in Runs : run'[s] = IF s = r THEN new ELSE run[s]
  BY <1>1, <1>2 DEF TypeOK
<1>5. run' \in [Runs -> RunRecord]
  BY <1>1, <1>2, <1>3 DEF TypeOK, RunRecord
<1>6. \A s \in Runs : StillTheSame(s) /\ (Guided(s)' <=> Guided(s))
  BY <1>3, <1>4 DEF StillTheSame, Active, Speaking, Guided, Task
<1>7. escaped' \subseteq Roles \X Calls
  BY <1>1, <1>2 DEF TypeOK, RunRecord
<1>8. ASSUME InTurn PROVE escaped' = {} /\ KnowsRefusals'
  <2>1. escaped = {} /\ KnowsRefusals
    BY <1>8 DEF Inv, Guarded
  <2>2. escaped' = {}
    BY <1>1, <1>8, <2>1, WhatPassesIsAllowed
  <2>3. KnowsRefusals'
    BY <1>3, <1>4, <1>6, <2>1 DEF KnowsRefusals, At
  <2>4. QED
    BY <2>2, <2>3
<1>9. QED
  BY <1>1, <1>5, <1>6, <1>7, <1>8, TalkStep

LEMMA EndConversationStep ==
    ASSUME Inv, NEW r \in Runs, EndConversation(r)
    PROVE  Inv'
<1> DEFINE new == [run[r] EXCEPT !.pc = "talked"]
<1>1. /\ At(r, "talking") /\ run' = [run EXCEPT ![r] = new]
      /\ UNCHANGED <<shadow, confined, scoped, cwd, escaped, incidents>>
  BY DEF EndConversation, Go
<1>2. TypeOK /\ \A s \in Runs : run[s] \in RunRecord
  BY RunType DEF Inv
<1>3. /\ new \in RunRecord /\ new.pc = "talked" /\ new.wo = run[r].wo
      /\ new.role = run[r].role /\ new.contract = run[r].contract /\ new.prev = run[r].prev
      /\ new.kept = run[r].kept /\ new.confinement = run[r].confinement
      /\ new.scope = run[r].scope /\ new.refused = run[r].refused
  BY <1>2 DEF RunRecord, Pcs
<1> HIDE DEF new
<1>4. \A s \in Runs : run'[s] = IF s = r THEN new ELSE run[s]
  BY <1>1, <1>2 DEF TypeOK
<1>5. run' \in [Runs -> RunRecord]
  BY <1>1, <1>2, <1>3 DEF TypeOK, RunRecord
<1>6. \A s \in Runs : StillTheSame(s) /\ (Guided(s)' <=> Guided(s))
  BY <1>1, <1>3, <1>4 DEF StillTheSame, Active, Speaking, Guided, Task, At, Resting
<1>7. InTurn => escaped' = {} /\ KnowsRefusals'
  BY <1>1, <1>3, <1>4, <1>6 DEF Inv, Guarded, KnowsRefusals, At
<1>8. QED
  BY <1>1, <1>2, <1>5, <1>6, <1>7, TalkStep DEF TypeOK

----------------------------------------------------------------------------
(* A run ends. *)

LEMMA ClearScopeStep ==
    ASSUME Inv, NEW r \in Runs, ClearScope(r)
    PROVE  Inv'
<1> DEFINE new == [run[r] EXCEPT !.pc = "unscoped"]
<1>1. /\ At(r, "talked") /\ Active(r) /\ Speaking(r) /\ Guided(r)
      /\ run' = [run EXCEPT ![r] = new]
      /\ scoped' = [scoped EXCEPT ![Task(r)] = Nobody]
      /\ UNCHANGED <<shadow, confined, cwd, escaped, incidents>>
  BY DEF ClearScope, Go, At, Active, Speaking, Guided, Resting
<1>2. TypeOK /\ Task(r) \in Tasks /\ \A s \in Runs : run[s] \in RunRecord
  BY <1>1, TaskType, RunType DEF Inv
<1>3. /\ new \in RunRecord /\ new.pc = "unscoped" /\ new.wo = run[r].wo
      /\ new.role = run[r].role /\ new.contract = run[r].contract /\ new.prev = run[r].prev
      /\ new.kept = run[r].kept /\ new.confinement = run[r].confinement
      /\ new.scope = run[r].scope /\ new.refused = run[r].refused
  BY <1>2 DEF RunRecord, Pcs
<1> HIDE DEF new
<1>4. \A s \in Runs : run'[s] = IF s = r THEN new ELSE run[s]
  BY <1>1, <1>2 DEF TypeOK
<1>5. \A t \in Tasks : scoped'[t] = IF t = Task(r) THEN Nobody ELSE scoped[t]
  BY <1>1, <1>2 DEF TypeOK
<1>6. TypeOK'
  <2>1. run' \in [Runs -> RunRecord]
    BY <1>1, <1>2, <1>3 DEF TypeOK, RunRecord
  <2>2. scoped' \in [Tasks -> Runs \cup {Nobody}]
    BY <1>1, <1>2 DEF TypeOK
  <2>3. QED
    BY <1>1, <1>2, <2>1, <2>2 DEF TypeOK, RunRecord
<1>7. /\ \A s \in Runs : Task(s)' = Task(s) /\ (Active(s)' <=> Active(s))
                         /\ (Guided(s)' <=> Guided(s))
      /\ \A s \in Runs \ {r} : Speaking(s)' <=> Speaking(s)
      /\ ~Speaking(r)'
  BY <1>1, <1>3, <1>4 DEF Active, Speaking, Guided, Resting, Task
<1>8. TasksAreKnown'
  BY <1>3, <1>4, <1>7 DEF Inv, TasksAreKnown
<1>9. Guarded'
  <2> SUFFICES ASSUME InTurn' PROVE (escaped = {} /\ HasItsGuards /\ KnowsRefusals)'
    BY DEF Guarded
  <2>1. escaped = {} /\ HasItsGuards /\ KnowsRefusals
    BY <1>1 DEF InTurn, Inv, Guarded
  <2>2. \A s \in Runs \ {r} : Active(s) => Task(s) # Task(r) /\ Task(s) \in Tasks
    BY <1>1, <2>1, TaskType DEF HasItsGuards, Inv
  <2>3. \A s \in Runs : Speaking(s) => Active(s)
    BY DEF Speaking, Active, Resting
  <2>4. HasItsGuards'
    BY <1>1, <1>3, <1>4, <1>5, <1>7, <2>1, <2>2, <2>3 DEF HasItsGuards
  <2>5. KnowsRefusals'
    BY <1>1, <1>3, <1>4, <1>7, <2>1 DEF KnowsRefusals, At
  <2>6. QED
    BY <1>1, <2>1, <2>4, <2>5
<1>10. GuardsAreInUse'
  BY <1>1, <1>5, <1>7 DEF Inv, GuardsAreInUse
<1>11. DirectoryIsInUse'
  BY <1>1, <1>3, <1>4, <1>7 DEF Inv, DirectoryIsInUse
<1>12. QED
  BY <1>6, <1>8, <1>9, <1>10, <1>11 DEF Inv

LEMMA DeactivateStep ==
    ASSUME Inv, NEW r \in Runs, NEW outcome \in {"stopped", "accepted", "failed"},
           Deactivate(r, outcome),
           outcome = "accepted" => ~Blocked(r) \/ run[r].role = "publisher"
    PROVE  Inv'
<1> DEFINE kept == \E s \in Runs \ {r} : run[s].kept = r
           left == IF kept THEN run[r].confinement ELSE "open"
           told == outcome = "accepted" /\ run[r].refused
           new  == [NoRun EXCEPT !.pc = outcome, !.role = run[r].role,
                                 !.confinement = left, !.refused = told]
<1>1. /\ At(r, "unscoped") /\ Active(r) /\ Guided(r) /\ ~Speaking(r)
      /\ run' = [run EXCEPT ![r] = new]
      /\ confined' = [confined EXCEPT ![Task(r)] = Nobody]
      /\ cwd' = run[r].prev
      /\ UNCHANGED <<shadow, scoped, escaped, incidents>>
  BY DEF Deactivate, At, Active, Speaking, Guided, Resting
<1>2. TypeOK /\ Task(r) \in Tasks /\ \A s \in Runs : run[s] \in RunRecord
  BY <1>1, TaskType, RunType DEF Inv
<1>3. /\ new \in RunRecord /\ new.pc = outcome /\ new.role = run[r].role
      /\ new.refused = told
  <2>1. left \in {"open", "blocked"} /\ told \in BOOLEAN /\ run[r].role \in Roles
    BY <1>2 DEF RunRecord
  <2> HIDE DEF left, told
  <2>2. QED
    BY <2>1 DEF RunRecord, Pcs, Resting, NoRun, Contracts
<1>3a. told = TRUE => outcome = "accepted" /\ run[r].refused = TRUE
  OBVIOUS
<1>3b. told \in BOOLEAN
  OBVIOUS
<1> HIDE DEF told, new
<1>4. \A s \in Runs : run'[s] = IF s = r THEN new ELSE run[s]
  BY <1>1, <1>2 DEF TypeOK
<1>5. \A t \in Tasks : confined'[t] = IF t = Task(r) THEN Nobody ELSE confined[t]
  BY <1>1, <1>2 DEF TypeOK
<1>6. TypeOK'
  <2>1. run' \in [Runs -> RunRecord]
    BY <1>1, <1>2, <1>3 DEF TypeOK, RunRecord
  <2>2. confined' \in [Tasks -> Runs \cup {Nobody}]
    BY <1>1, <1>2 DEF TypeOK
  <2>3. cwd' \in WorkOrders \cup {Nobody}
    BY <1>1, <1>2 DEF RunRecord
  <2>4. QED
    BY <1>1, <1>2, <2>1, <2>2, <2>3 DEF TypeOK, RunRecord
<1>7. /\ \A s \in Runs \ {r} : /\ Task(s)' = Task(s) /\ (Active(s)' <=> Active(s))
                               /\ (Guided(s)' <=> Guided(s))
                               /\ (Speaking(s)' <=> Speaking(s))
      /\ ~Active(r)' /\ ~Speaking(r)' /\ ~Guided(r)'
  BY <1>1, <1>3, <1>4 DEF Active, Speaking, Guided, Resting, Task
<1>8. TasksAreKnown'
  BY <1>3, <1>4, <1>7 DEF Inv, TasksAreKnown
<1>9. Guarded'
  <2> SUFFICES ASSUME InTurn' PROVE (escaped = {} /\ HasItsGuards /\ KnowsRefusals)'
    BY DEF Guarded
  <2>1. escaped = {} /\ HasItsGuards /\ KnowsRefusals
    BY <1>1 DEF InTurn, Inv, Guarded
  <2>2. \A s \in Runs \ {r} : Active(s) => Task(s) # Task(r) /\ Task(s) \in Tasks
    BY <1>1, <2>1, TaskType DEF HasItsGuards, Inv
  <2>3. \A s \in Runs : Speaking(s) => Active(s)
    BY DEF Speaking, Active, Resting
  <2>4. HasItsGuards'
    BY <1>1, <1>4, <1>5, <1>7, <2>1, <2>2, <2>3 DEF HasItsGuards
  <2>5. outcome = "accepted" /\ run[r].role = "developer" => told = FALSE
    <3>1. /\ run[r].kept = r /\ run[r].contract # "none"
          /\ run[r].refused = TRUE =>
                 run[r].confinement = "blocked" \/ run[r].scope = "blocked"
      BY <1>1, <2>1 DEF HasItsGuards, KnowsRefusals
    <3>2. run[r].refused \in BOOLEAN
      BY <1>2 DEF RunRecord
    <3>3. QED
      BY <1>3a, <1>3b, <3>1, <3>2 DEF Blocked
  <2>6. KnowsRefusals'
    BY <1>1, <1>3, <1>4, <1>7, <2>1, <2>5 DEF KnowsRefusals, At
  <2>7. QED
    BY <1>1, <2>1, <2>4, <2>6
<1>10. GuardsAreInUse'
  BY <1>1, <1>5, <1>7 DEF Inv, GuardsAreInUse
<1>11. DirectoryIsInUse'
  BY <1>1, <1>3, <1>4, <1>7 DEF Inv, DirectoryIsInUse
<1>12. QED
  BY <1>6, <1>8, <1>9, <1>10, <1>11 DEF Inv

----------------------------------------------------------------------------
LEMMA InitInv == Init => Inv
<1> SUFFICES ASSUME Init PROVE Inv
  OBVIOUS
<1>1. NoRun \in RunRecord /\ NoRun.pc = "idle" /\ NoRun.refused = FALSE
  BY DEF NoRun, RunRecord, Pcs, Resting, Roles, Contracts
<1>2. \A r \in Runs : run[r] = NoRun
  BY DEF Init
<1>3. \A r \in Runs : ~Active(r) /\ ~Speaking(r) /\ ~Guided(r)
  BY <1>1, <1>2 DEF Active, Speaking, Guided, Resting
<1>4. TypeOK
  BY <1>1 DEF Init, TypeOK, RunRecord
<1>5. Guarded
  BY <1>1, <1>2, <1>3 DEF Init, Guarded, HasItsGuards, KnowsRefusals, At
<1>6. GuardsAreInUse /\ DirectoryIsInUse /\ TasksAreKnown
  BY <1>3 DEF Init, GuardsAreInUse, DirectoryIsInUse, TasksAreKnown
<1>7. QED
  BY <1>4, <1>5, <1>6 DEF Inv

LEMMA StepInv == Inv /\ [Next]_vars => Inv'
<1> SUFFICES ASSUME Inv, [Next]_vars PROVE Inv'
  OBVIOUS
<1>1. CASE UNCHANGED vars
  BY <1>1 DEF vars, Inv, TypeOK, TasksAreKnown, Guarded, InTurn, HasItsGuards, KnowsRefusals,
              GuardsAreInUse, DirectoryIsInUse, Active, Speaking, Guided, Task, TaskOf, At
<1>2. ASSUME NEW r \in Runs, NEW w \in WorkOrders, NEW role \in Roles,
             NEW merging \in BOOLEAN, NEW contract \in Contracts,
             Activate(r, w, role, merging, contract)
      PROVE  Inv'
  BY <1>2, ActivateStep
<1>3. ASSUME NEW r \in Runs, RunStep(r) PROVE Inv'
  <2>1. CASE StartAgent(r)
    BY <2>1, RegisterStep DEF StartAgent
  <2>2. CASE DeveloperFactoryFails(r)
    BY <2>2, RegisterStep DEF DeveloperFactoryFails
  <2>3. CASE PublisherFactoryFails(r)
    BY <2>3, RegisterStep DEF PublisherFactoryFails
  <2>4. ASSUME NEW call \in Calls,
               CallConfined(r, call) \/ CallOutOfScope(r, call) \/ CallCarriedOut(r, call)
        PROVE  Inv'
    BY <2>4, CallConfinedStep, CallOutOfScopeStep, CallCarriedOutStep
  <2>5. CASE EndConversation(r)
    BY <2>5, EndConversationStep
  <2>6. CASE ClearScope(r)
    BY <2>6, ClearScopeStep
  <2>7. CASE JudgeDeveloper(r)
    BY <2>7, DeactivateStep DEF JudgeDeveloper
  <2>8. CASE JudgePublisher(r)
    BY <2>8, DeactivateStep DEF JudgePublisher
  <2>9. QED
    BY <1>3, <2>1, <2>2, <2>3, <2>4, <2>5, <2>6, <2>7, <2>8 DEF RunStep
<1>4. QED
  BY <1>1, <1>2, <1>3 DEF Next

\* Where no two runs of one task overlap and every work order has a scope contract,
\* nothing an agent's role or contract forbids is carried out and a developer that was
\* refused something is not accepted; at rest no guard is registered, and no directory
\* is pinned if the runs also followed each other.
THEOREM AgentsStayGuarded == Spec => []GuardsHold
<1>1. Inv => GuardsHold
  <2> SUFFICES ASSUME Inv PROVE GuardsHold
    OBVIOUS
  <2>1. NothingForbiddenIsDone /\ StoppedIsNotAccepted
    BY DEF Inv, Guarded, InTurn, KnowsRefusals, NothingForbiddenIsDone, StoppedIsNotAccepted
  <2>2. LeavesNoTrace
    BY DEF Inv, GuardsAreInUse, DirectoryIsInUse, LeavesNoTrace, Active, Speaking, Resting
  <2>3. QED
    BY <2>1, <2>2 DEF GuardsHold
<1>2. QED
  BY InitInv, StepInv, <1>1, PTL DEF Spec

-----------------------------------------------------------------------------
(* The automation of a project. *)

ThreadRecord == [pc : Automation!Pcs, task : Automation!Tasks, todo : SUBSET Automation!Paths,
                 path : Automation!Paths, text : Automation!Files, repo : Automation!AnyRepo]

Working(t) == th[t].pc \in {"choosing", "open", "writing"}
Holding(t) == th[t].pc \in {"open", "writing"}
RolesOf(v) == IF v = 2 THEN ManifestRoles ELSE ManifestRoles \ NewRoles

\* Requests are served when the start is over.
StartComesFirst ==
    /\ serving <=> th[Automation!Boot].pc = "done"
    /\ \A r \in Requests : th[r].pc \notin {"idle", "done"} => serving

\* What a thread has to write, and what it holds.
TasksAreSound == \A t \in Automation!Threads :
    /\ th[t].pc = "merging" => th[t].task = "setup" /\ t # Automation!Boot
    /\ Working(t) => /\ th[t].task \in {"setup", "patch", "upgrade"}
                     /\ th[t].task = "upgrade" <=> t = Automation!Boot
                     /\ th[t].todo \subseteq Automation!BundleRoles \cup {Automation!State}
                     /\ t = Automation!Boot => Automation!State \notin th[t].todo

TextsAreWhole == \A t \in Automation!Threads : Holding(t) =>
    /\ th[t].path \in th[t].todo
    /\ th[t].text.kind = "whole" /\ th[t].text.version <= bundle
    /\ th[t].task = "setup" /\ th[t].path = Automation!State => th[t].todo = {Automation!State}
    /\ th[t].task = "patch" => Automation!OnDisk(th[t].path)

\* What a setup or an upgrade is done with is there, if none met a manifest that is not YAML.
DoneIsOnDisk == "broken" \notin cuts =>
    \A t \in Automation!Threads : Working(t) /\ th[t].task # "patch" =>
        \A role \in Automation!BundleRoles \ th[t].todo : Automation!OnDisk(role)

FilesAreSound ==
    /\ \A p \in Automation!Paths :
          /\ Automation!OnDisk(p) => p \in Automation!BundleRoles \cup {Automation!State}
          /\ Automation!Readable(p) => file[p].version <= bundle
    /\ "broken" \notin cuts =>
          /\ Automation!Ready => \A role \in RolesOf(file[Automation!State].version) :
                                     Automation!OnDisk(role)
          /\ serving /\ Automation!OnDisk(Automation!State) =>
                 \A role \in Automation!BundleRoles : Automation!OnDisk(role)

\* A file that names another repository is about to be written.
Due(p) == \E t \in Automation!Threads :
    Working(t) /\ p \in th[t].todo /\ th[t].task # "upgrade"

RepoIsDue == cuts = {} =>
    /\ \A t, u \in Automation!Busy : t = u
    /\ \A t \in Automation!Threads : /\ Working(t) => th[t].repo = repo
                                     /\ Holding(t) => th[t].text.repo = repo
    /\ repo # NoRepo =>
           \A p \in Automation!Paths : Automation!Readable(p) => file[p].repo = repo \/ Due(p)

\* What a human edited is in the file, or in the text that is about to be written.
Rescued(role) == \E t \in Automation!Threads :
    /\ th[t].pc = "writing" /\ th[t].path = role
    /\ th[t].task = "setup" \/ th[t].text.edited

EditsAreHeld == cuts = {} =>
    /\ \A role \in edits : file[role].edited \/ Rescued(role)
    /\ \A t \in Automation!Threads : Holding(t) /\ th[t].path \in edits =>
           th[t].task = "setup" \/ (th[t].task = "patch" /\ th[t].text.edited)

AutomationInv ==
    /\ Automation!TypeOK
    /\ StartComesFirst /\ TasksAreSound /\ TextsAreWhole /\ DoneIsOnDisk /\ FilesAreSound
    /\ RepoIsDue /\ EditsAreHeld

LEMMA ThreadType ==
    ASSUME Automation!TypeOK, NEW t \in Automation!Threads PROVE th[t] \in ThreadRecord
BY DEF Automation!TypeOK, ThreadRecord

LEMMA FileType ==
    ASSUME Automation!TypeOK, NEW p \in Automation!Paths
    PROVE  /\ file[p] \in Automation!Files
           /\ Automation!Readable(p) =>
                  file[p] \in [kind : {"whole"}, version : Automation!Versions,
                               repo : Automation!AnyRepo, edited : BOOLEAN]
           /\ ~Automation!Readable(p) => file[p].edited = FALSE
<1> DEFINE whole == [kind : {"whole"}, version : Automation!Versions,
                     repo : Automation!AnyRepo, edited : BOOLEAN]
<1>1. file[p] \in Automation!Files
  BY DEF Automation!TypeOK
<1>2. file[p] \in {Automation!Absent, Automation!Truncated, Automation!Broken}
      \/ file[p] \in whole
  BY <1>1 DEF Automation!Files
<1>3. CASE file[p] \in whole
  <2>1. file[p].kind = "whole"
    BY <1>3
  <2>2. QED
    BY <1>1, <1>3, <2>1 DEF Automation!Readable
<1>4. CASE file[p] \in {Automation!Absent, Automation!Truncated, Automation!Broken}
  <2>1. file[p].kind # "whole" /\ file[p].edited = FALSE
    BY <1>4 DEF Automation!Absent, Automation!Truncated, Automation!Broken
  <2>2. QED
    BY <1>1, <2>1 DEF Automation!Readable
<1>5. QED
  BY <1>2, <1>3, <1>4

LEMMA SomeRecords ==
    /\ Automation!Absent \in Automation!Files /\ Automation!Truncated \in Automation!Files
    /\ Automation!Idle \in ThreadRecord /\ Automation!Done \in ThreadRecord
    /\ Automation!Absent.kind = "absent" /\ Automation!Absent.edited = FALSE
    /\ Automation!Truncated.kind = "truncated" /\ Automation!Truncated.edited = FALSE
    /\ Automation!Broken \in Automation!Files
    /\ Automation!Broken.kind = "broken" /\ Automation!Broken.edited = FALSE
    /\ Automation!Idle.pc = "idle" /\ Automation!Done.pc = "done"
<1>1. /\ Automation!Absent \in Automation!Files /\ Automation!Truncated \in Automation!Files
      /\ Automation!Absent.kind = "absent" /\ Automation!Absent.edited = FALSE
      /\ Automation!Truncated.kind = "truncated" /\ Automation!Truncated.edited = FALSE
      /\ Automation!Broken \in Automation!Files
      /\ Automation!Broken.kind = "broken" /\ Automation!Broken.edited = FALSE
  BY DEF Automation!Files, Automation!Absent, Automation!Truncated, Automation!Broken
<1>2. NoRepo \in Automation!AnyRepo /\ Automation!State \in Automation!Paths
  BY DEF Automation!AnyRepo, Automation!Paths
<1>3. Automation!Idle \in ThreadRecord /\ Automation!Idle.pc = "idle"
  BY <1>1, <1>2 DEF Automation!Idle, ThreadRecord, Automation!Pcs, Automation!Tasks
<1>4. Automation!Done \in ThreadRecord /\ Automation!Done.pc = "done"
  BY <1>3 DEF Automation!Done, ThreadRecord, Automation!Pcs
<1>5. QED
  BY <1>1, <1>3, <1>4

LEMMA TextType ==
    ASSUME Automation!TypeOK, NEW t \in Automation!Threads, NEW p \in Automation!Paths,
           ~Automation!Skips(t, p)
    PROVE  Automation!Text(t, p) \in Automation!Files
<1>1. th[t].repo \in Automation!AnyRepo /\ bundle \in Automation!Versions
  BY DEF Automation!TypeOK
<1>2. CASE th[t].task = "patch"
  <2>1. Automation!Readable(p)
    BY <1>2 DEF Automation!Skips
  <2>2. QED
    BY <1>1, <1>2, <2>1, FileType DEF Automation!Text, Automation!Files
<1>3. CASE th[t].task # "patch"
  BY <1>1, <1>3 DEF Automation!Text, Automation!Rendered, Automation!Files
<1>4. QED
  BY <1>2, <1>3

\* The roles of an older version are among those of a newer one.
LEMMA BundleContainsOlder ==
    ASSUME bundle \in Automation!Versions, NEW v \in Automation!Versions, v <= bundle
    PROVE  RolesOf(v) \subseteq Automation!BundleRoles
BY DEF RolesOf, Automation!BundleRoles, Automation!Versions

\* The thread that leaves a path is done with it, and is over or chooses the next one.
LEMMA LeaveChanges ==
    ASSUME Automation!TypeOK, NEW t \in Automation!Threads, NEW p \in Automation!Paths,
           Automation!Leave(t, p)
    PROVE  \E new \in ThreadRecord :
              /\ th' = [th EXCEPT ![t] = new]
              /\ \A u \in Automation!Threads : th'[u] = IF u = t THEN new ELSE th[u]
              /\ IF th[t].todo \ {p} = {}
                 THEN new.pc = "done"
                 ELSE /\ new.pc = "choosing" /\ new.todo = th[t].todo \ {p}
                      /\ new.task = th[t].task /\ new.repo = th[t].repo
              /\ serving' = (serving \/ th[t].todo \ {p} = {})
<1> DEFINE rest  == th[t].todo \ {p}
           stays == [th[t] EXCEPT !.pc = "choosing", !.todo = rest,
                                  !.path = Automation!State, !.text = Automation!Absent]
           new   == IF rest = {} THEN Automation!Done ELSE stays
<1>1. th[t] \in ThreadRecord
  BY ThreadType
<1>2. stays \in ThreadRecord /\ stays.pc = "choosing" /\ stays.todo = rest
      /\ stays.task = th[t].task /\ stays.repo = th[t].repo
  BY <1>1, SomeRecords DEF ThreadRecord, Automation!Pcs, Automation!Paths
<1>3. th' = [th EXCEPT ![t] = new] /\ serving' = (serving \/ rest = {})
  BY DEF Automation!Leave
<1> HIDE DEF stays
<1>4. new \in ThreadRecord
  BY <1>2, SomeRecords
<1>5. \A u \in Automation!Threads : th'[u] = IF u = t THEN new ELSE th[u]
  BY <1>3 DEF Automation!TypeOK
<1>6. QED
  BY <1>2, <1>3, <1>4, <1>5, SomeRecords

LEMMA BootIsApart == /\ Automation!Boot \in Automation!Threads
                     /\ Requests \subseteq Automation!Threads
                     /\ \A r \in Requests : r # Automation!Boot
                     /\ Automation!State \in Automation!Paths
                     /\ Automation!BundleRoles \subseteq ManifestRoles
                     /\ ManifestRoles \subseteq Automation!Paths
                     /\ \A role \in ManifestRoles : role # Automation!State
BY ManifestAssumption, BootAssumption
   DEF Automation!Threads, Automation!Paths, Automation!BundleRoles

LEMMA TextIsRight ==
    ASSUME AutomationInv, NEW t \in Automation!Threads, NEW p \in Automation!Paths,
           ~Automation!Skips(t, p)
    PROVE  /\ Automation!Text(t, p) \in Automation!Files
           /\ Automation!Text(t, p).kind = "whole" /\ Automation!Text(t, p).version <= bundle
           /\ Automation!Text(t, p).repo = th[t].repo
           /\ th[t].task = "patch" => /\ Automation!Readable(p)
                                      /\ Automation!Text(t, p).edited = file[p].edited
<1> DEFINE text == Automation!Text(t, p)
<1> SUFFICES /\ text \in Automation!Files
             /\ text.kind = "whole" /\ text.version <= bundle /\ text.repo = th[t].repo
             /\ th[t].task = "patch" => /\ Automation!Readable(p)
                                        /\ text.edited = file[p].edited
  OBVIOUS
<1>1. /\ text \in Automation!Files /\ th[t] \in ThreadRecord
      /\ bundle \in Automation!Versions
  BY TextType, ThreadType DEF AutomationInv, Automation!TypeOK
<1>2. CASE th[t].task = "patch"
  <2>1. Automation!Readable(p)
    BY <1>2 DEF Automation!Skips
  <2>2. text = [file[p] EXCEPT !.repo = th[t].repo]
    BY <1>2 DEF Automation!Text
  <2>3. file[p] \in [kind : {"whole"}, version : Automation!Versions,
                     repo : Automation!AnyRepo, edited : BOOLEAN]
    BY <2>1, FileType DEF AutomationInv
  <2>4. file[p].version <= bundle
    BY <2>1 DEF AutomationInv, FilesAreSound
  <2>5. text.kind = "whole" /\ text.version = file[p].version
        /\ text.repo = th[t].repo /\ text.edited = file[p].edited
    BY <2>2, <2>3
  <2>6. QED
    BY <1>1, <2>1, <2>4, <2>5
<1>3. CASE th[t].task # "patch"
  <2>1. text = [kind |-> "whole", version |-> bundle, repo |-> th[t].repo, edited |-> FALSE]
    BY <1>3 DEF Automation!Text, Automation!Rendered
  <2>2. text.kind = "whole" /\ text.version = bundle /\ text.repo = th[t].repo
    BY <2>1
  <2>3. bundle <= bundle
    BY <1>1 DEF Automation!Versions
  <2> HIDE DEF text
  <2>4. QED
    BY <1>1, <1>3, <2>2, <2>3
<1>4. QED
  BY <1>2, <1>3

LEMMA ChooseStep ==
    ASSUME AutomationInv, NEW t \in Automation!Threads, NEW p \in Automation!Paths,
           Automation!Choose(t, p)
    PROVE  AutomationInv'
<1> DEFINE text == Automation!Text(t, p)
           new  == [th[t] EXCEPT !.pc = "open", !.path = p, !.text = text]
<1>1. /\ th[t].pc = "choosing" /\ p \in Automation!NextPaths(th[t].todo)
      /\ ~Automation!Skips(t, p)
      /\ th' = [th EXCEPT ![t] = new]
      /\ UNCHANGED <<bundle, serving, repo, file, edits, cuts>>
  BY DEF Automation!Choose, Automation!At
<1>2. /\ Automation!TypeOK /\ StartComesFirst /\ TasksAreSound /\ TextsAreWhole
      /\ DoneIsOnDisk /\ FilesAreSound /\ RepoIsDue /\ EditsAreHeld
  BY DEF AutomationInv
<1>3. /\ th[t] \in ThreadRecord /\ text \in Automation!Files
      /\ text.kind = "whole" /\ text.version <= bundle /\ text.repo = th[t].repo
      /\ th[t].task = "patch" => Automation!Readable(p) /\ text.edited = file[p].edited
  BY <1>1, <1>2, ThreadType, TextIsRight
<1> HIDE DEF text
<1>4. /\ new \in ThreadRecord /\ new.pc = "open" /\ new.path = p /\ new.text = text
      /\ new.task = th[t].task /\ new.todo = th[t].todo /\ new.repo = th[t].repo
  BY <1>3 DEF ThreadRecord, Automation!Pcs
<1>5. p \in th[t].todo /\ (p = Automation!State => th[t].todo = {Automation!State})
  BY <1>1 DEF Automation!NextPaths
<1> HIDE DEF new
<1>6. \A u \in Automation!Threads : th'[u] = IF u = t THEN new ELSE th[u]
  BY <1>1, <1>2 DEF Automation!TypeOK
<1>7. Automation!TypeOK'
  BY <1>1, <1>2, <1>4 DEF Automation!TypeOK, ThreadRecord, Automation!AnyRepo
<1>8. /\ Automation!BundleRoles' = Automation!BundleRoles
      /\ \A q \in Automation!Paths : /\ Automation!OnDisk(q)' <=> Automation!OnDisk(q)
                                     /\ Automation!Readable(q)' <=> Automation!Readable(q)
  BY <1>1 DEF Automation!BundleRoles, Automation!OnDisk, Automation!Readable
<1>9. /\ \A u \in Automation!Threads : Working(u)' <=> Working(u)
      /\ \A u \in Automation!Threads : Holding(u)' <=> u = t \/ Holding(u)
      /\ Automation!Busy' = Automation!Busy /\ Working(t) /\ ~Holding(t)
  BY <1>1, <1>4, <1>6 DEF Working, Holding, Automation!Busy
<1>10. StartComesFirst'
  BY <1>1, <1>2, <1>4, <1>6, BootIsApart DEF StartComesFirst
<1>11. TasksAreSound'
  BY <1>2, <1>4, <1>6, <1>8, <1>9 DEF TasksAreSound
<1>12. Automation!Readable(p) => Automation!OnDisk(p)
  BY DEF Automation!Readable, Automation!OnDisk
<1>13. TextsAreWhole'
  <2> SUFFICES ASSUME NEW u \in Automation!Threads, Holding(u)'
               PROVE  /\ th'[u].path \in th'[u].todo
                      /\ th'[u].text.kind = "whole" /\ th'[u].text.version <= bundle
                      /\ th'[u].task = "setup" /\ th'[u].path = Automation!State =>
                             th'[u].todo = {Automation!State}
                      /\ th'[u].task = "patch" => Automation!OnDisk(th[u].path)'
    BY <1>1 DEF TextsAreWhole
  <2>1. CASE u = t
    BY <1>3, <1>4, <1>5, <1>6, <1>8, <1>12, <2>1
  <2>2. CASE u # t
    <3>1. th[u].path \in Automation!Paths
      BY <1>2, ThreadType DEF ThreadRecord
    <3>2. QED
      BY <1>2, <1>6, <1>8, <1>9, <2>2, <3>1 DEF TextsAreWhole
  <2>3. QED
    BY <2>1, <2>2
<1>14. DoneIsOnDisk'
  BY <1>1, <1>2, <1>4, <1>6, <1>8, <1>9, BootIsApart DEF DoneIsOnDisk
<1>15. FilesAreSound'
  BY <1>1, <1>2, <1>8 DEF FilesAreSound, RolesOf, Automation!Ready, Automation!BundleRoles,
     Automation!OnDisk, Automation!Readable
<1>16. ASSUME cuts = {} PROVE \A q : Due(q)' <=> Due(q)
  BY <1>4, <1>6, <1>9 DEF Due
<1>17. RepoIsDue'
  BY <1>1, <1>2, <1>3, <1>4, <1>6, <1>8, <1>9, <1>16 DEF RepoIsDue
<1>18. EditsAreHeld'
  <2> SUFFICES ASSUME cuts = {} PROVE EditsAreHeld'
    BY <1>1 DEF EditsAreHeld
  <2>1. \A u \in Automation!Threads : th[u].pc = "writing" => u \in Automation!Busy
    BY DEF Automation!Busy
  <2>2. \A u \in Automation!Threads : th[u].pc # "writing"
    BY <1>1, <1>2, <2>1 DEF RepoIsDue, Automation!Busy
  <2>3. \A role \in edits : file[role].edited
    BY <1>2, <2>2 DEF EditsAreHeld, Rescued
  <2>4. th[t].task \in {"setup", "patch", "upgrade"}
    BY <1>2, <1>9 DEF TasksAreSound
  <2>5. ASSUME p \in edits, th[t].task = "upgrade" PROVE FALSE
    <3>1. file[p].edited
      BY <2>3, <2>5
    <3>2. Automation!OnDisk(p)
      BY <3>1, SomeRecords, <1>2, FileType DEF Automation!Readable, Automation!OnDisk
    <3>3. QED
      BY <1>1, <2>5, <3>1, <3>2 DEF Automation!Skips
  <2>6. QED
    BY <1>1, <1>3, <1>4, <1>6, <1>9, <1>2, <2>3, <2>4, <2>5 DEF EditsAreHeld
<1>19. QED
  BY <1>7, <1>10, <1>11, <1>13, <1>14, <1>15, <1>17, <1>18 DEF AutomationInv

\* A setup skips nothing, a patch what it cannot read, an upgrade what is there.
LEMMA WhatIsSkipped ==
    ASSUME AutomationInv, NEW t \in Automation!Threads, NEW p \in Automation!Paths,
           Working(t), Automation!Skips(t, p)
    PROVE  /\ th[t].task # "setup"
           /\ th[t].task = "patch" => ~Automation!Readable(p)
           /\ th[t].task = "upgrade" /\ p \in Automation!BundleRoles =>
                  "broken" \in cuts \/ Automation!OnDisk(p)
<1>1. th[t].task # "setup" /\ (th[t].task = "patch" => ~Automation!Readable(p))
  BY DEF Automation!Skips
<1>2. ASSUME th[t].task = "upgrade", p \in Automation!BundleRoles, ~Automation!OnDisk(p),
             "broken" \notin cuts
      PROVE  FALSE
  <2>1. bundle <= Automation!StateVersion
    BY <1>2 DEF Automation!Skips
  <2>2. bundle \in Automation!Versions
    BY DEF AutomationInv, Automation!TypeOK
  <2>3. Automation!Ready
    BY <2>1, <2>2 DEF Automation!StateVersion, Automation!Versions
  <2>4. file[Automation!State].version <= bundle
        /\ file[Automation!State].version \in Automation!Versions
    BY <2>3, BootIsApart, FileType DEF AutomationInv, FilesAreSound, Automation!Ready
  <2>5. file[Automation!State].version = bundle
    BY <2>1, <2>2, <2>3, <2>4 DEF Automation!StateVersion, Automation!Versions
  <2>6. p \in RolesOf(file[Automation!State].version)
    BY <1>2, <2>5 DEF RolesOf, Automation!BundleRoles
  <2>7. QED
    BY <1>2, <2>3, <2>6 DEF AutomationInv, FilesAreSound
<1>3. QED
  BY <1>1, <1>2

LEMMA SkipStep ==
    ASSUME AutomationInv, NEW t \in Automation!Threads, NEW p \in Automation!Paths,
           Automation!Skip(t, p)
    PROVE  AutomationInv'
<1> DEFINE rest == th[t].todo \ {p}
<1>1. /\ th[t].pc = "choosing" /\ p \in Automation!NextPaths(th[t].todo)
      /\ Automation!Skips(t, p) /\ Automation!Leave(t, p)
      /\ UNCHANGED <<bundle, repo, file, edits, cuts>>
  BY DEF Automation!Skip, Automation!At
<1>2. /\ Automation!TypeOK /\ StartComesFirst /\ TasksAreSound /\ TextsAreWhole
      /\ DoneIsOnDisk /\ FilesAreSound /\ RepoIsDue /\ EditsAreHeld
  BY DEF AutomationInv
<1>3. PICK new \in ThreadRecord :
              /\ th' = [th EXCEPT ![t] = new]
              /\ \A u \in Automation!Threads : th'[u] = IF u = t THEN new ELSE th[u]
              /\ IF rest = {} THEN new.pc = "done"
                 ELSE /\ new.pc = "choosing" /\ new.todo = rest
                      /\ new.task = th[t].task /\ new.repo = th[t].repo
              /\ serving' = (serving \/ rest = {})
  BY <1>1, <1>2, LeaveChanges
<1>4. p \in th[t].todo
  BY <1>1 DEF Automation!NextPaths
<1>5. /\ Working(t) /\ ~Holding(t) /\ ~Holding(t)' /\ (Working(t)' <=> rest # {})
      /\ \A u \in Automation!Threads \ {t} : /\ Working(u)' <=> Working(u)
                                             /\ Holding(u)' <=> Holding(u)
      /\ \A u \in Automation!Busy' : u \in Automation!Busy
  BY <1>1, <1>3 DEF Working, Holding, Automation!Busy
<1>6. /\ Automation!BundleRoles' = Automation!BundleRoles
      /\ \A q \in Automation!Paths : /\ Automation!OnDisk(q)' <=> Automation!OnDisk(q)
                                     /\ Automation!Readable(q)' <=> Automation!Readable(q)
  BY <1>1 DEF Automation!BundleRoles, Automation!OnDisk, Automation!Readable
<1>7. /\ th[t].task # "setup"
      /\ th[t].task = "patch" => ~Automation!Readable(p)
      /\ th[t].task = "upgrade" /\ p \in Automation!BundleRoles =>
             "broken" \in cuts \/ Automation!OnDisk(p)
  BY <1>1, <1>5, WhatIsSkipped
<1>8. Automation!TypeOK'
  BY <1>1, <1>2, <1>3 DEF Automation!TypeOK, ThreadRecord, Automation!AnyRepo
<1>9. StartComesFirst'
  BY <1>1, <1>2, <1>3, BootIsApart DEF StartComesFirst, Automation!Threads
<1>10. TasksAreSound'
  BY <1>2, <1>3, <1>5, <1>6 DEF TasksAreSound
<1>11. TextsAreWhole'
  <2>1. \A u \in Automation!Threads : th[u].path \in Automation!Paths
    BY <1>2, ThreadType DEF ThreadRecord
  <2>2. QED
    BY <1>1, <1>2, <1>3, <1>5, <1>6, <2>1 DEF TextsAreWhole
<1>12. th[t].task # "patch" /\ "broken" \notin cuts =>
           \A role \in Automation!BundleRoles \ rest : Automation!OnDisk(role)
  BY <1>2, <1>5, <1>7 DEF DoneIsOnDisk, TasksAreSound
<1>13. DoneIsOnDisk'
  BY <1>1, <1>2, <1>3, <1>5, <1>6, <1>12, BootIsApart DEF DoneIsOnDisk
<1>14. FilesAreSound'
  <2>1. ASSUME serving', ~serving, "broken" \notin cuts
        PROVE  \A role \in Automation!BundleRoles : Automation!OnDisk(role)
    <3>1. t = Automation!Boot
      BY <1>1, <1>2, <2>1 DEF StartComesFirst, Automation!Threads
    <3>2. th[t].task # "patch"
      BY <1>2, <1>5, <3>1 DEF TasksAreSound
    <3>3. QED
      BY <1>3, <1>12, <2>1, <3>2
  <2>2. QED
    BY <1>1, <1>2, <1>6, <2>1, BootIsApart DEF FilesAreSound, RolesOf, Automation!Ready,
       Automation!OnDisk, Automation!Readable
<1>15. RepoIsDue'
  <2> SUFFICES ASSUME cuts = {} PROVE RepoIsDue'
    BY <1>1 DEF RepoIsDue
  <2>1. /\ \A u, v \in Automation!Busy' : u = v
        /\ \A u \in Automation!Threads : /\ Working(u)' => th'[u].repo = repo
                                         /\ Holding(u)' => th'[u].text.repo = repo
    BY <1>2, <1>3, <1>5 DEF RepoIsDue
  <2>2. ASSUME NEW q \in Automation!Paths, Automation!Readable(q), Due(q) PROVE Due(q)'
    BY <1>2, <1>3, <1>5, <1>7, <2>2 DEF Due, TasksAreSound
  <2>3. QED
    BY <1>1, <1>2, <1>6, <2>1, <2>2 DEF RepoIsDue
<1>16. EditsAreHeld'
  <2> SUFFICES ASSUME cuts = {} PROVE EditsAreHeld'
    BY <1>1 DEF EditsAreHeld
  <2>1. \A role : Rescued(role) => Rescued(role)'
    BY <1>1, <1>3 DEF Rescued
  <2>2. QED
    BY <1>1, <1>2, <1>3, <1>5, <2>1 DEF EditsAreHeld
<1>17. QED
  BY <1>8, <1>9, <1>10, <1>11, <1>13, <1>14, <1>15, <1>16 DEF AutomationInv

\* The state is written when every manifest of the plugin is there.
LEMMA StateComesLast ==
    ASSUME AutomationInv, NEW t \in Automation!Threads, Holding(t),
           th[t].path = Automation!State, "broken" \notin cuts
    PROVE  \A role \in Automation!BundleRoles : Automation!OnDisk(role)
<1>1. /\ StartComesFirst /\ TasksAreSound /\ TextsAreWhole /\ DoneIsOnDisk /\ FilesAreSound
      /\ Working(t)
  BY DEF AutomationInv, Holding, Working
<1>2. th[t].path \in th[t].todo /\ t # Automation!Boot
  BY <1>1 DEF TextsAreWhole, TasksAreSound
<1>3. CASE th[t].task = "setup"
  BY <1>1, <1>3, BootIsApart DEF TextsAreWhole, DoneIsOnDisk
<1>4. CASE th[t].task = "patch"
  <2>1. serving
    BY <1>1, <1>2 DEF StartComesFirst, Working, Automation!Threads
  <2>2. Automation!OnDisk(Automation!State)
    BY <1>1, <1>4 DEF TextsAreWhole
  <2>3. QED
    BY <1>1, <2>1, <2>2 DEF FilesAreSound
<1>5. QED
  BY <1>1, <1>2, <1>3, <1>4 DEF TasksAreSound

LEMMA OpenStep ==
    ASSUME AutomationInv, NEW t \in Automation!Threads, Automation!Open(t)
    PROVE  AutomationInv'
<1> DEFINE new  == [th[t] EXCEPT !.pc = "writing"]
           path == th[t].path
<1>1. /\ th[t].pc = "open"
      /\ file' = [file EXCEPT ![path] = Automation!Truncated]
      /\ th' = [th EXCEPT ![t] = new]
      /\ UNCHANGED <<bundle, serving, repo, edits, cuts>>
  BY DEF Automation!Open, Automation!At
<1>2. /\ Automation!TypeOK /\ StartComesFirst /\ TasksAreSound /\ TextsAreWhole
      /\ DoneIsOnDisk /\ FilesAreSound /\ RepoIsDue /\ EditsAreHeld
  BY DEF AutomationInv
<1>3. th[t] \in ThreadRecord /\ path \in Automation!Paths
  BY <1>2, ThreadType DEF ThreadRecord
<1>4. /\ new \in ThreadRecord /\ new.pc = "writing" /\ new.path = path
      /\ new.text = th[t].text /\ new.task = th[t].task /\ new.todo = th[t].todo
      /\ new.repo = th[t].repo
  BY <1>3 DEF ThreadRecord, Automation!Pcs
<1> HIDE DEF new
<1>5. \A u \in Automation!Threads : th'[u] = IF u = t THEN new ELSE th[u]
  BY <1>1, <1>2 DEF Automation!TypeOK
<1>6. \A q \in Automation!Paths :
          file'[q] = IF q = path THEN Automation!Truncated ELSE file[q]
  BY <1>1, <1>2 DEF Automation!TypeOK
<1>7. Automation!TypeOK'
  <2>1. file' \in [Automation!Paths -> Automation!Files]
    BY <1>1, <1>2, SomeRecords DEF Automation!TypeOK
  <2>2. th' \in [Automation!Threads -> ThreadRecord]
    BY <1>1, <1>2, <1>4 DEF Automation!TypeOK, ThreadRecord
  <2>3. QED
    BY <1>1, <1>2, <2>1, <2>2 DEF Automation!TypeOK, ThreadRecord, Automation!AnyRepo
<1>8. /\ Automation!BundleRoles' = Automation!BundleRoles
      /\ \A q \in Automation!Paths :
            /\ Automation!OnDisk(q)' <=> q = path \/ Automation!OnDisk(q)
            /\ Automation!Readable(q)' <=> q # path /\ Automation!Readable(q)
  BY <1>1, <1>6, SomeRecords
     DEF Automation!BundleRoles, Automation!OnDisk, Automation!Readable
<1>9. /\ \A u \in Automation!Threads : (Working(u)' <=> Working(u)) /\ (Holding(u)' <=> Holding(u))
      /\ Automation!Busy' = Automation!Busy /\ Working(t) /\ Holding(t)
  BY <1>1, <1>4, <1>5 DEF Working, Holding, Automation!Busy
<1>10. StartComesFirst'
  BY <1>1, <1>2, <1>4, <1>5, BootIsApart DEF StartComesFirst
<1>11. TasksAreSound'
  BY <1>1, <1>2, <1>4, <1>5, <1>8, <1>9 DEF TasksAreSound
<1>12. TextsAreWhole'
  <2>1. \A u \in Automation!Threads : th[u].path \in Automation!Paths
    BY <1>2, ThreadType DEF ThreadRecord
  <2>2. QED
    BY <1>1, <1>2, <1>4, <1>5, <1>8, <1>9, <2>1 DEF TextsAreWhole
<1>13. DoneIsOnDisk'
  BY <1>1, <1>2, <1>4, <1>5, <1>8, <1>9, BootIsApart DEF DoneIsOnDisk
<1>14. FilesAreSound'
  <2>1. path \in th[t].todo /\ th[t].todo \subseteq Automation!BundleRoles \cup {Automation!State}
    BY <1>2, <1>9 DEF TextsAreWhole, TasksAreSound
  <2>2. \A q \in Automation!Paths :
            /\ Automation!OnDisk(q)' => q \in Automation!BundleRoles \cup {Automation!State}
            /\ Automation!Readable(q)' => file'[q].version <= bundle
    BY <1>2, <1>6, <1>8, <2>1 DEF FilesAreSound
  <2>3. Automation!Ready' => /\ Automation!Ready
                             /\ file'[Automation!State] = file[Automation!State]
    BY <1>6, <1>8, BootIsApart DEF Automation!Ready
  <2>4. path = Automation!State /\ "broken" \notin cuts =>
            \A role \in Automation!BundleRoles : Automation!OnDisk(role)
    BY <1>9, StateComesLast
  <2>5. serving' /\ "broken" \notin cuts /\ Automation!OnDisk(Automation!State)' =>
            \A role \in Automation!BundleRoles : Automation!OnDisk(role)
    BY <1>1, <1>2, <1>8, <2>4, BootIsApart DEF FilesAreSound
  <2>6. \A role \in RolesOf(file[Automation!State].version) : role \in Automation!Paths
    BY BootIsApart DEF RolesOf
  <2>7. QED
    BY <1>1, <1>2, <1>8, <2>2, <2>3, <2>5, <2>6, BootIsApart DEF FilesAreSound, RolesOf
<1>15. RepoIsDue'
  <2>1. \A q : Due(q)' <=> Due(q)
    BY <1>4, <1>5, <1>9 DEF Due
  <2>2. QED
    BY <1>1, <1>2, <1>4, <1>5, <1>6, <1>8, <1>9, <2>1 DEF RepoIsDue
<1>16. EditsAreHeld'
  <2> SUFFICES ASSUME cuts = {} PROVE EditsAreHeld'
    BY <1>1 DEF EditsAreHeld
  <2>1. \A role : Rescued(role) => Rescued(role)'
    BY <1>1, <1>4, <1>5 DEF Rescued
  <2>2. path \in edits => Rescued(path)'
    BY <1>2, <1>4, <1>5, <1>9 DEF EditsAreHeld, Rescued
  <2>3. \A role \in edits : role \in Automation!Paths
    BY <1>2 DEF Automation!TypeOK, Automation!Paths
  <2>4. QED
    BY <1>1, <1>2, <1>4, <1>5, <1>6, <1>9, <2>1, <2>2, <2>3 DEF EditsAreHeld
<1>17. QED
  BY <1>7, <1>10, <1>11, <1>12, <1>13, <1>14, <1>15, <1>16 DEF AutomationInv

LEMMA WriteStep ==
    ASSUME AutomationInv, NEW t \in Automation!Threads, Automation!Write(t)
    PROVE  AutomationInv'
<1> DEFINE path == th[t].path
           text == th[t].text
           rest == th[t].todo \ {path}
<1>1. /\ th[t].pc = "writing" /\ file' = [file EXCEPT ![path] = text]
      /\ edits' = (IF th[t].task = "setup" THEN edits \ {path} ELSE edits)
      /\ Automation!Leave(t, path)
      /\ UNCHANGED <<bundle, repo, cuts>>
  BY DEF Automation!Write, Automation!At
<1>2. /\ Automation!TypeOK /\ StartComesFirst /\ TasksAreSound /\ TextsAreWhole
      /\ DoneIsOnDisk /\ FilesAreSound /\ RepoIsDue /\ EditsAreHeld
  BY DEF AutomationInv
<1>3. th[t] \in ThreadRecord /\ path \in Automation!Paths /\ text \in Automation!Files
  BY <1>2, ThreadType DEF ThreadRecord
<1>4. PICK new \in ThreadRecord :
              /\ th' = [th EXCEPT ![t] = new]
              /\ \A u \in Automation!Threads : th'[u] = IF u = t THEN new ELSE th[u]
              /\ IF rest = {} THEN new.pc = "done"
                 ELSE /\ new.pc = "choosing" /\ new.todo = rest
                      /\ new.task = th[t].task /\ new.repo = th[t].repo
              /\ serving' = (serving \/ rest = {})
  BY <1>1, <1>2, <1>3, LeaveChanges
<1>5. /\ Working(t) /\ Holding(t) /\ ~Holding(t)' /\ (Working(t)' <=> rest # {})
      /\ \A u \in Automation!Threads \ {t} : /\ Working(u)' <=> Working(u)
                                             /\ Holding(u)' <=> Holding(u)
      /\ \A u \in Automation!Busy' : u \in Automation!Busy
  BY <1>1, <1>4 DEF Working, Holding, Automation!Busy
<1>6. /\ path \in th[t].todo /\ text.kind = "whole" /\ text.version <= bundle
      /\ th[t].todo \subseteq Automation!BundleRoles \cup {Automation!State}
      /\ th[t].task \in {"setup", "patch", "upgrade"}
      /\ path = Automation!State /\ "broken" \notin cuts =>
             \A role \in Automation!BundleRoles : Automation!OnDisk(role)
  BY <1>2, <1>5, StateComesLast DEF TextsAreWhole, TasksAreSound
<1>7. \A q \in Automation!Paths : file'[q] = IF q = path THEN text ELSE file[q]
  BY <1>1, <1>2 DEF Automation!TypeOK
<1>8. /\ Automation!BundleRoles' = Automation!BundleRoles
      /\ \A q \in Automation!Paths :
            /\ Automation!OnDisk(q)' <=> q = path \/ Automation!OnDisk(q)
            /\ Automation!Readable(q)' <=> q = path \/ Automation!Readable(q)
  BY <1>1, <1>6, <1>7 DEF Automation!BundleRoles, Automation!OnDisk, Automation!Readable
<1>9. Automation!TypeOK'
  <2>1. file' \in [Automation!Paths -> Automation!Files]
    BY <1>1, <1>2, <1>3 DEF Automation!TypeOK
  <2>2. th' \in [Automation!Threads -> ThreadRecord]
    BY <1>2, <1>4 DEF Automation!TypeOK, ThreadRecord
  <2>3. edits' \subseteq ManifestRoles /\ serving' \in BOOLEAN
    BY <1>1, <1>2, <1>4 DEF Automation!TypeOK
  <2>4. QED
    BY <1>1, <1>2, <2>1, <2>2, <2>3 DEF Automation!TypeOK, ThreadRecord, Automation!AnyRepo
<1>10. StartComesFirst'
  BY <1>1, <1>2, <1>4, BootIsApart DEF StartComesFirst, Automation!Threads
<1>11. TasksAreSound'
  BY <1>2, <1>4, <1>5, <1>8 DEF TasksAreSound
<1>12. TextsAreWhole'
  <2>1. \A u \in Automation!Threads : th[u].path \in Automation!Paths
    BY <1>2, ThreadType DEF ThreadRecord
  <2>2. QED
    BY <1>1, <1>2, <1>4, <1>5, <1>8, <2>1 DEF TextsAreWhole
<1>13. th[t].task # "patch" /\ "broken" \notin cuts =>
           \A role \in Automation!BundleRoles \ rest : role = path \/ Automation!OnDisk(role)
  BY <1>2, <1>5 DEF DoneIsOnDisk
<1>14. DoneIsOnDisk'
  <2>1. \A role \in Automation!BundleRoles : role \in Automation!Paths
    BY BootIsApart
  <2>2. QED
    BY <1>1, <1>2, <1>4, <1>5, <1>8, <1>13, <2>1 DEF DoneIsOnDisk
<1>15. FilesAreSound'
  <2>1. \A q \in Automation!Paths :
            /\ Automation!OnDisk(q)' => q \in Automation!BundleRoles \cup {Automation!State}
            /\ Automation!Readable(q)' => file'[q].version <= bundle
    BY <1>2, <1>6, <1>7, <1>8 DEF FilesAreSound
  <2>2. ASSUME Automation!Ready', NEW role \in RolesOf(file'[Automation!State].version),
               "broken" \notin cuts
        PROVE  Automation!OnDisk(role)'
    <3>1. role \in Automation!Paths
      BY BootIsApart DEF RolesOf
    <3>2. CASE path = Automation!State
      <4>1. bundle \in Automation!Versions /\ text.version \in Automation!Versions
        BY <1>2, <1>3, <1>6 DEF Automation!TypeOK, Automation!Files, Automation!Absent,
           Automation!Truncated, Automation!Broken
      <4>2. role \in Automation!BundleRoles
        BY <1>6, <1>7, <2>2, <3>2, <4>1, BootIsApart, BundleContainsOlder
      <4>3. QED
        BY <1>6, <1>8, <2>2, <3>1, <3>2, <4>2
    <3>3. CASE path # Automation!State
      BY <1>2, <1>7, <1>8, <2>2, <3>1, <3>3, BootIsApart DEF FilesAreSound, Automation!Ready
    <3>4. QED
      BY <3>2, <3>3
  <2>3. ASSUME serving', ~serving, "broken" \notin cuts
        PROVE  \A role \in Automation!BundleRoles : role = path \/ Automation!OnDisk(role)
    <3>1. t = Automation!Boot
      BY <1>1, <1>2, <2>3 DEF StartComesFirst, Automation!Threads
    <3>2. th[t].task # "patch"
      BY <1>2, <1>5, <3>1 DEF TasksAreSound
    <3>3. QED
      BY <1>4, <1>13, <2>3, <3>2
  <2>4. serving' /\ "broken" \notin cuts /\ Automation!OnDisk(Automation!State)' =>
            \A role \in Automation!BundleRoles : role = path \/ Automation!OnDisk(role)
    BY <1>2, <1>6, <1>8, <2>3, BootIsApart DEF FilesAreSound
  <2>5. serving' /\ "broken" \notin cuts /\ Automation!OnDisk(Automation!State)' =>
            \A role \in Automation!BundleRoles : Automation!OnDisk(role)'
    BY <1>8, <2>4, BootIsApart
  <2>6. RolesOf(file[Automation!State].version)' = RolesOf(file'[Automation!State].version)
    BY DEF RolesOf
  <2>7. QED
    BY <1>1, <1>8, <2>1, <2>2, <2>5, <2>6 DEF FilesAreSound
<1>16. RepoIsDue'
  <2> SUFFICES ASSUME cuts = {} PROVE RepoIsDue'
    BY <1>1 DEF RepoIsDue
  <2>1. /\ \A u, v \in Automation!Busy' : u = v
        /\ \A u \in Automation!Threads : /\ Working(u)' => th'[u].repo = repo
                                         /\ Holding(u)' => th'[u].text.repo = repo
        /\ text.repo = repo
    BY <1>2, <1>4, <1>5 DEF RepoIsDue
  <2>2. ASSUME NEW q \in Automation!Paths, q # path, Due(q) PROVE Due(q)'
    BY <1>2, <1>4, <1>5, <2>2 DEF Due, TasksAreSound
  <2>3. QED
    BY <1>1, <1>2, <1>7, <1>8, <2>1, <2>2 DEF RepoIsDue
<1>17. EditsAreHeld'
  <2> SUFFICES ASSUME cuts = {} PROVE EditsAreHeld'
    BY <1>1 DEF EditsAreHeld
  <2>1. \A role : role # path /\ Rescued(role) => Rescued(role)'
    BY <1>1, <1>4 DEF Rescued
  <2>2. path \in edits' => text.edited /\ th[t].task = "patch"
    BY <1>1, <1>2, <1>5 DEF EditsAreHeld
  <2>3. edits' \subseteq edits /\ \A role \in edits : role \in Automation!Paths
    BY <1>1, <1>2 DEF Automation!TypeOK, Automation!Paths
  <2>4. \A role \in edits' : file'[role].edited \/ Rescued(role)'
    BY <1>2, <1>7, <2>1, <2>2, <2>3 DEF EditsAreHeld
  <2>5. \A u \in Automation!Threads : Holding(u)' /\ th'[u].path \in edits' =>
           th'[u].task = "setup" \/ (th'[u].task = "patch" /\ th'[u].text.edited)
    BY <1>2, <1>4, <1>5, <2>3 DEF EditsAreHeld
  <2>6. QED
    BY <2>4, <2>5 DEF EditsAreHeld
<1>18. QED
  BY <1>9, <1>10, <1>11, <1>12, <1>14, <1>15, <1>16, <1>17 DEF AutomationInv

LEMMA SetupStep ==
    ASSUME AutomationInv, NEW r \in Requests, NEW force \in BOOLEAN,
           NEW prerequisites \in BOOLEAN, Automation!Setup(r, force, prerequisites)
    PROVE  AutomationInv'
<1> DEFINE merging == [Automation!Idle EXCEPT !.pc = "merging", !.task = "setup"]
           new == IF ~prerequisites \/ (~force /\ Automation!SetUpAlready)
                  THEN Automation!Done ELSE merging
<1>1. /\ serving /\ th[r].pc = "idle" /\ th' = [th EXCEPT ![r] = new]
      /\ cuts' = (IF prerequisites THEN Automation!Met ELSE cuts)
      /\ UNCHANGED <<bundle, serving, repo, file, edits>>
  BY DEF Automation!Setup, Automation!MayStart, Automation!At
<1>2. /\ Automation!TypeOK /\ StartComesFirst /\ TasksAreSound /\ TextsAreWhole
      /\ DoneIsOnDisk /\ FilesAreSound /\ RepoIsDue /\ EditsAreHeld
  BY DEF AutomationInv
<1>3. merging \in ThreadRecord /\ merging.pc = "merging" /\ merging.task = "setup"
  BY SomeRecords DEF ThreadRecord, Automation!Pcs, Automation!Tasks
<1>4. /\ new \in ThreadRecord /\ new.pc \in {"merging", "done"}
      /\ new.pc = "merging" => new.task = "setup" /\ prerequisites
  <2> HIDE DEF merging
  <2>1. QED
    BY <1>3, SomeRecords
<1> HIDE DEF new
<1>5. r \in Automation!Threads /\ r # Automation!Boot
  BY BootIsApart
<1>6. \A u \in Automation!Threads : th'[u] = IF u = r THEN new ELSE th[u]
  BY <1>1, <1>2, <1>5 DEF Automation!TypeOK
<1>7. /\ \A u \in Automation!Threads : /\ Working(u)' <=> Working(u)
                                       /\ Holding(u)' <=> Holding(u)
                                       /\ Working(u) => u # r
                                       /\ Holding(u) => u # r
      /\ \A u \in Automation!Busy' : u \in Automation!Busy \/ (u = r /\ prerequisites)
  BY <1>1, <1>4, <1>6 DEF Working, Holding, Automation!Busy
<1>8. /\ Automation!BundleRoles' = Automation!BundleRoles
      /\ \A q \in Automation!Paths : /\ Automation!OnDisk(q)' <=> Automation!OnDisk(q)
                                     /\ Automation!Readable(q)' <=> Automation!Readable(q)
  BY <1>1 DEF Automation!BundleRoles, Automation!OnDisk, Automation!Readable
<1>9. Automation!TypeOK'
  <2>1. cuts' \subseteq {"cut", "overlap", "broken"}
    BY <1>1, <1>2 DEF Automation!TypeOK, Automation!Met
  <2>2. QED
    BY <1>1, <1>2, <1>4, <1>5, <2>1 DEF Automation!TypeOK, ThreadRecord, Automation!AnyRepo
<1>10. StartComesFirst'
  BY <1>1, <1>2, <1>5, <1>6, BootIsApart DEF StartComesFirst
<1>11. TasksAreSound'
  BY <1>1, <1>2, <1>4, <1>5, <1>6, <1>7, <1>8 DEF TasksAreSound
<1>12. TextsAreWhole'
  <2>1. \A u \in Automation!Threads : th[u].path \in Automation!Paths
    BY <1>2, ThreadType DEF ThreadRecord
  <2>2. QED
    BY <1>1, <1>2, <1>6, <1>7, <1>8, <2>1 DEF TextsAreWhole
<1>13. "broken" \notin cuts' => "broken" \notin cuts
  BY <1>1 DEF Automation!Met
<1>14. DoneIsOnDisk'
  BY <1>13, <1>2, <1>6, <1>7, <1>8, BootIsApart DEF DoneIsOnDisk
<1>15. FilesAreSound'
  BY <1>13, <1>1, <1>2, <1>8 DEF FilesAreSound, RolesOf, Automation!Ready, Automation!BundleRoles,
     Automation!OnDisk, Automation!Readable
<1>16. cuts' = {} => cuts = {} /\ (prerequisites => Automation!Busy = {})
  BY <1>1 DEF Automation!Met
<1>17. RepoIsDue'
  <2>1. \A q : Due(q)' <=> Due(q)
    BY <1>6, <1>7 DEF Due
  <2>2. cuts' = {} => \A u, v \in Automation!Busy' : u = v
    BY <1>2, <1>7, <1>16 DEF RepoIsDue
  <2>3. QED
    BY <1>1, <1>2, <1>6, <1>7, <1>8, <1>16, <2>1, <2>2 DEF RepoIsDue
<1>18. EditsAreHeld'
  <2>1. \A role : Rescued(role) => Rescued(role)'
    BY <1>1, <1>6 DEF Rescued
  <2>2. QED
    BY <1>1, <1>2, <1>6, <1>7, <1>16, <2>1 DEF EditsAreHeld
<1>19. QED
  BY <1>9, <1>10, <1>11, <1>12, <1>14, <1>15, <1>17, <1>18 DEF AutomationInv

LEMMA MergeMappingStep ==
    ASSUME AutomationInv, NEW r \in Requests, NEW found \in Automation!Discoveries,
           Automation!MergeMapping(r, found)
    PROVE  AutomationInv'
<1> DEFINE chosen == Automation!DefaultRepo(repo, found)
           all    == Automation!BundleRoles \cup {Automation!State}
           new    == [th[r] EXCEPT !.pc = "choosing", !.todo = all, !.repo = chosen]
<1>1. /\ th[r].pc = "merging" /\ repo' = chosen /\ th' = [th EXCEPT ![r] = new]
      /\ UNCHANGED <<bundle, serving, file, edits, cuts>>
  BY DEF Automation!MergeMapping, Automation!At
<1>2. /\ Automation!TypeOK /\ StartComesFirst /\ TasksAreSound /\ TextsAreWhole
      /\ DoneIsOnDisk /\ FilesAreSound /\ RepoIsDue /\ EditsAreHeld
  BY DEF AutomationInv
<1>3. r \in Automation!Threads /\ r # Automation!Boot /\ th[r] \in ThreadRecord
  BY <1>2, BootIsApart, ThreadType
<1>4. chosen \in Automation!AnyRepo /\ all \subseteq Automation!Paths
  BY <1>2, BootIsApart DEF Automation!TypeOK, Automation!DefaultRepo, Automation!Discoveries
<1>5. /\ new \in ThreadRecord /\ new.pc = "choosing" /\ new.todo = all /\ new.repo = chosen
      /\ new.task = th[r].task
  <2> HIDE DEF chosen, all
  <2>1. QED
    BY <1>3, <1>4 DEF ThreadRecord, Automation!Pcs
<1>6. th[r].task = "setup"
  BY <1>1, <1>2, <1>3 DEF TasksAreSound
<1> HIDE DEF new
<1>7. \A u \in Automation!Threads : th'[u] = IF u = r THEN new ELSE th[u]
  BY <1>1, <1>2, <1>3 DEF Automation!TypeOK
<1>8. /\ \A u \in Automation!Threads : /\ Working(u)' <=> u = r \/ Working(u)
                                       /\ Holding(u)' <=> Holding(u)
                                       /\ Holding(u) => u # r
      /\ Automation!Busy' = Automation!Busy /\ r \in Automation!Busy /\ Working(r)'
  BY <1>1, <1>3, <1>5, <1>7 DEF Working, Holding, Automation!Busy
<1>9. /\ Automation!BundleRoles' = Automation!BundleRoles
      /\ \A q \in Automation!Paths : /\ Automation!OnDisk(q)' <=> Automation!OnDisk(q)
                                     /\ Automation!Readable(q)' <=> Automation!Readable(q)
  BY <1>1 DEF Automation!BundleRoles, Automation!OnDisk, Automation!Readable
<1>10. Automation!TypeOK'
  BY <1>1, <1>2, <1>3, <1>4, <1>5 DEF Automation!TypeOK, ThreadRecord, Automation!AnyRepo
<1>11. StartComesFirst'
  BY <1>1, <1>2, <1>3, <1>5, <1>7, BootIsApart DEF StartComesFirst
<1>12. TasksAreSound'
  BY <1>1, <1>2, <1>3, <1>5, <1>6, <1>7, <1>8, <1>9 DEF TasksAreSound
<1>13. TextsAreWhole'
  <2>1. \A u \in Automation!Threads : th[u].path \in Automation!Paths
    BY <1>2, ThreadType DEF ThreadRecord
  <2>2. QED
    BY <1>1, <1>2, <1>7, <1>8, <1>9, <2>1 DEF TextsAreWhole
<1>14. DoneIsOnDisk'
  BY <1>1, <1>2, <1>5, <1>7, <1>8, <1>9, BootIsApart DEF DoneIsOnDisk
<1>15. FilesAreSound'
  BY <1>1, <1>2, <1>9 DEF FilesAreSound, RolesOf, Automation!Ready, Automation!BundleRoles,
     Automation!OnDisk, Automation!Readable
<1>16. RepoIsDue'
  <2> SUFFICES ASSUME cuts = {} PROVE RepoIsDue'
    BY <1>1 DEF RepoIsDue
  <2>1. \A u \in Automation!Threads : Working(u)' => u = r
    BY <1>2, <1>8 DEF RepoIsDue, Automation!Busy, Working
  <2>2. \A u \in Automation!Threads : ~Holding(u)'
    BY <1>5, <1>7, <2>1 DEF Working, Holding
  <2>3. ASSUME NEW q \in Automation!Paths, Automation!Readable(q) PROVE Due(q)'
    <3>1. q \in all
      BY <1>2, <2>3 DEF FilesAreSound, Automation!OnDisk, Automation!Readable
    <3>2. QED
      BY <1>3, <1>5, <1>6, <1>7, <1>8, <3>1 DEF Due
  <2>4. QED
    BY <1>1, <1>2, <1>5, <1>7, <1>8, <1>9, <2>1, <2>2, <2>3 DEF RepoIsDue
<1>17. EditsAreHeld'
  <2>1. \A role : Rescued(role) => Rescued(role)'
    BY <1>1, <1>7 DEF Rescued
  <2>2. QED
    BY <1>1, <1>2, <1>7, <1>8, <2>1 DEF EditsAreHeld
<1>18. QED
  BY <1>10, <1>11, <1>12, <1>13, <1>14, <1>15, <1>16, <1>17 DEF AutomationInv

LEMMA ChangeRepoStep ==
    ASSUME AutomationInv, NEW r \in Requests, NEW chosen \in Repos,
           Automation!ChangeRepo(r, chosen)
    PROVE  AutomationInv'
<1> DEFINE all == Automation!BundleRoles \cup {Automation!State}
           new == [Automation!Idle EXCEPT !.pc = "choosing", !.task = "patch",
                                          !.repo = chosen, !.todo = all]
<1>1. /\ serving /\ th[r].pc = "idle" /\ repo' = chosen /\ th' = [th EXCEPT ![r] = new]
      /\ cuts' = Automation!Met
      /\ UNCHANGED <<bundle, serving, file, edits>>
  BY DEF Automation!ChangeRepo, Automation!MayStart, Automation!At
<1>2. /\ Automation!TypeOK /\ StartComesFirst /\ TasksAreSound /\ TextsAreWhole
      /\ DoneIsOnDisk /\ FilesAreSound /\ RepoIsDue /\ EditsAreHeld
  BY DEF AutomationInv
<1>3. r \in Automation!Threads /\ r # Automation!Boot
  BY BootIsApart
<1>4. chosen \in Automation!AnyRepo /\ all \subseteq Automation!Paths
  BY BootIsApart DEF Automation!AnyRepo
<1>5. /\ new \in ThreadRecord /\ new.pc = "choosing" /\ new.todo = all /\ new.repo = chosen
      /\ new.task = "patch"
  <2> HIDE DEF all
  <2>1. QED
    BY <1>4, SomeRecords DEF ThreadRecord, Automation!Pcs, Automation!Tasks
<1> HIDE DEF new
<1>6. \A u \in Automation!Threads : th'[u] = IF u = r THEN new ELSE th[u]
  BY <1>1, <1>2, <1>3 DEF Automation!TypeOK
<1>7. /\ \A u \in Automation!Threads : /\ Working(u)' <=> u = r \/ Working(u)
                                       /\ Holding(u)' <=> Holding(u)
                                       /\ Holding(u) => u # r
      /\ \A u \in Automation!Busy' : u \in Automation!Busy \/ u = r
  BY <1>1, <1>3, <1>5, <1>6 DEF Working, Holding, Automation!Busy
<1>8. /\ Automation!BundleRoles' = Automation!BundleRoles
      /\ \A q \in Automation!Paths : /\ Automation!OnDisk(q)' <=> Automation!OnDisk(q)
                                     /\ Automation!Readable(q)' <=> Automation!Readable(q)
  BY <1>1 DEF Automation!BundleRoles, Automation!OnDisk, Automation!Readable
<1>9. Automation!TypeOK'
  <2>1. cuts' \subseteq {"cut", "overlap", "broken"}
    BY <1>1, <1>2 DEF Automation!TypeOK, Automation!Met
  <2>2. QED
    BY <1>1, <1>2, <1>3, <1>4, <1>5, <2>1
       DEF Automation!TypeOK, ThreadRecord, Automation!AnyRepo
<1>10. StartComesFirst'
  BY <1>1, <1>2, <1>3, <1>6, BootIsApart DEF StartComesFirst
<1>11. TasksAreSound'
  BY <1>1, <1>2, <1>3, <1>5, <1>6, <1>7, <1>8 DEF TasksAreSound
<1>12. TextsAreWhole'
  <2>1. \A u \in Automation!Threads : th[u].path \in Automation!Paths
    BY <1>2, ThreadType DEF ThreadRecord
  <2>2. QED
    BY <1>1, <1>2, <1>6, <1>7, <1>8, <2>1 DEF TextsAreWhole
<1>13. "broken" \notin cuts' => "broken" \notin cuts
  BY <1>1 DEF Automation!Met
<1>14. DoneIsOnDisk'
  BY <1>13, <1>2, <1>5, <1>6, <1>7, <1>8, BootIsApart DEF DoneIsOnDisk
<1>15. FilesAreSound'
  BY <1>13, <1>1, <1>2, <1>8 DEF FilesAreSound, RolesOf, Automation!Ready, Automation!BundleRoles,
     Automation!OnDisk, Automation!Readable
<1>16. cuts' = {} => cuts = {} /\ Automation!Busy = {}
  BY <1>1 DEF Automation!Met
<1>17. RepoIsDue'
  <2> SUFFICES ASSUME cuts' = {} PROVE RepoIsDue'
    BY DEF RepoIsDue
  <2>1. \A u \in Automation!Threads : Working(u)' => u = r
    BY <1>7, <1>16 DEF Automation!Busy, Working
  <2>2. \A u \in Automation!Threads : ~Holding(u)'
    BY <1>5, <1>6, <2>1 DEF Working, Holding
  <2>3. ASSUME NEW q \in Automation!Paths, Automation!Readable(q) PROVE Due(q)'
    <3>1. q \in all
      BY <1>2, <2>3 DEF FilesAreSound, Automation!OnDisk, Automation!Readable
    <3>2. QED
      BY <1>3, <1>5, <1>6, <1>7, <3>1 DEF Due
  <2>4. QED
    BY <1>1, <1>5, <1>6, <1>7, <1>8, <1>16, <2>1, <2>2, <2>3 DEF RepoIsDue
<1>18. EditsAreHeld'
  <2>1. \A role : Rescued(role) => Rescued(role)'
    BY <1>1, <1>6 DEF Rescued
  <2>2. QED
    BY <1>1, <1>2, <1>6, <1>7, <1>16, <2>1 DEF EditsAreHeld
<1>19. QED
  BY <1>9, <1>10, <1>11, <1>12, <1>14, <1>15, <1>17, <1>18 DEF AutomationInv

LEMMA NobodyWorks ==
    ASSUME Automation!TypeOK, Automation!Busy = {}
    PROVE  \A u \in Automation!Threads :
               ~Working(u) /\ ~Holding(u) /\ th[u].pc \in {"idle", "done"}
BY DEF Automation!Busy, Working, Holding

LEMMA RemoveStep == ASSUME AutomationInv, Automation!Remove PROVE AutomationInv'
<1>1. /\ Automation!Busy = {} /\ repo' = NoRepo
      /\ UNCHANGED <<bundle, serving, file, th, edits, cuts>>
  BY DEF Automation!Remove
<1>2. /\ Automation!TypeOK /\ StartComesFirst /\ TasksAreSound /\ TextsAreWhole
      /\ DoneIsOnDisk /\ FilesAreSound /\ RepoIsDue /\ EditsAreHeld
  BY DEF AutomationInv
<1>3. \A u \in Automation!Threads : (Working(u)' <=> Working(u)) /\ (Holding(u)' <=> Holding(u))
  BY <1>1 DEF Working, Holding
<1>4. Automation!TypeOK'
  BY <1>1, <1>2 DEF Automation!TypeOK, Automation!AnyRepo
<1>5. StartComesFirst' /\ TasksAreSound' /\ TextsAreWhole'
  BY <1>1, <1>2 DEF StartComesFirst, TasksAreSound, TextsAreWhole, Working, Holding,
     Automation!BundleRoles, Automation!OnDisk
<1>6. DoneIsOnDisk' /\ FilesAreSound'
  BY <1>1, <1>2 DEF DoneIsOnDisk, FilesAreSound, Working, RolesOf, Automation!Ready,
     Automation!Readable, Automation!BundleRoles, Automation!OnDisk
<1>7. RepoIsDue'
  BY <1>1, <1>2, <1>3, NobodyWorks DEF RepoIsDue, Automation!Busy
<1>8. EditsAreHeld'
  BY <1>1, <1>2 DEF EditsAreHeld, Rescued, Holding
<1>9. QED
  BY <1>4, <1>5, <1>6, <1>7, <1>8 DEF AutomationInv

LEMMA EditStep ==
    ASSUME AutomationInv, NEW role \in ManifestRoles, Automation!Edit(role)
    PROVE  AutomationInv'
<1> DEFINE new == [file[role] EXCEPT !.edited = TRUE]
<1>1. /\ Automation!Busy = {} /\ Automation!Readable(role)
      /\ file' = [file EXCEPT ![role] = new] /\ edits' = edits \cup {role}
      /\ UNCHANGED <<bundle, serving, repo, th, cuts>>
  BY DEF Automation!Edit
<1>2. /\ Automation!TypeOK /\ StartComesFirst /\ TasksAreSound /\ TextsAreWhole
      /\ DoneIsOnDisk /\ FilesAreSound /\ RepoIsDue /\ EditsAreHeld
  BY DEF AutomationInv
<1>3. role \in Automation!Paths /\ role # Automation!State
  BY BootIsApart
<1>4. file[role] \in [kind : {"whole"}, version : Automation!Versions,
                      repo : Automation!AnyRepo, edited : BOOLEAN]
  BY <1>1, <1>2, <1>3, FileType
<1>5. /\ new \in Automation!Files /\ new.kind = "whole" /\ new.version = file[role].version
      /\ new.repo = file[role].repo /\ new.edited
  BY <1>4 DEF Automation!Files
<1> HIDE DEF new
<1>6. \A q \in Automation!Paths : file'[q] = IF q = role THEN new ELSE file[q]
  BY <1>1, <1>2 DEF Automation!TypeOK
<1>7. /\ Automation!BundleRoles' = Automation!BundleRoles
      /\ \A q \in Automation!Paths : /\ Automation!OnDisk(q)' <=> Automation!OnDisk(q)
                                     /\ Automation!Readable(q)' <=> Automation!Readable(q)
      /\ \A q \in Automation!Paths : /\ file'[q].version = file[q].version
                                     /\ file'[q].repo = file[q].repo
                                     /\ file[q].edited => file'[q].edited
  BY <1>1, <1>5, <1>6 DEF Automation!BundleRoles, Automation!OnDisk, Automation!Readable
<1>8. \A u \in Automation!Threads : /\ ~Working(u) /\ ~Holding(u) /\ ~Working(u)' /\ ~Holding(u)'
                                    /\ th[u].pc \in {"idle", "done"} /\ th'[u] = th[u]
  BY <1>1, <1>2, NobodyWorks DEF Working, Holding
<1>9. Automation!TypeOK'
  <2>1. file' \in [Automation!Paths -> Automation!Files]
    BY <1>1, <1>2, <1>5 DEF Automation!TypeOK
  <2>2. QED
    BY <1>1, <1>2, <2>1 DEF Automation!TypeOK, Automation!AnyRepo
<1>10. StartComesFirst' /\ TasksAreSound' /\ TextsAreWhole' /\ DoneIsOnDisk'
  BY <1>1, <1>2, <1>8 DEF StartComesFirst, TasksAreSound, TextsAreWhole, DoneIsOnDisk
<1>11. FilesAreSound'
  <2>1. \A v : \A q \in RolesOf(v) : q \in Automation!Paths
    BY BootIsApart DEF RolesOf
  <2>2. RolesOf(file[Automation!State].version)' = RolesOf(file[Automation!State].version)
    BY <1>7, BootIsApart DEF RolesOf
  <2>3. Automation!Ready' <=> Automation!Ready
    BY <1>7, BootIsApart DEF Automation!Ready
  <2>4. QED
    BY <1>1, <1>2, <1>7, <2>1, <2>2, <2>3, BootIsApart DEF FilesAreSound
<1>12. RepoIsDue'
  BY <1>1, <1>2, <1>7, <1>8 DEF RepoIsDue, Automation!Busy, Due
<1>13. EditsAreHeld'
  <2>1. \A q \in edits : q \in Automation!Paths
    BY <1>2 DEF Automation!TypeOK, Automation!Paths
  <2>2. \A q : ~Rescued(q)
    BY <1>8 DEF Rescued
  <2>3. QED
    BY <1>1, <1>2, <1>3, <1>5, <1>6, <1>7, <1>8, <2>1, <2>2 DEF EditsAreHeld
<1>14. QED
  BY <1>9, <1>10, <1>11, <1>12, <1>13 DEF AutomationInv

LEMMA RestartStep == ASSUME AutomationInv, Automation!Restart PROVE AutomationInv'
<1>1. /\ bundle' \in {bundle} \cup {v \in {2} : Automation!Allows("update")}
      /\ serving' = FALSE
      /\ th' = [t \in Automation!Threads |->
                   IF t = Automation!Boot THEN Automation!Idle
                   ELSE IF t \in Automation!Busy THEN Automation!Done ELSE th[t]]
      /\ cuts' = cuts \cup {e \in {"cut"} : Automation!Busy \ {Automation!Boot} # {}}
      /\ UNCHANGED <<repo, file, edits>>
  BY DEF Automation!Restart
<1>2. /\ Automation!TypeOK /\ StartComesFirst /\ TasksAreSound /\ TextsAreWhole
      /\ DoneIsOnDisk /\ FilesAreSound /\ RepoIsDue /\ EditsAreHeld
  BY DEF AutomationInv
<1>3. \A u \in Automation!Threads :
          /\ th'[u] \in ThreadRecord /\ th'[u].pc \in {"idle", "done"}
          /\ ~Working(u)' /\ ~Holding(u)'
  BY <1>1, <1>2, ThreadType, SomeRecords DEF Automation!Busy, Working, Holding
<1>4. bundle \in Automation!Versions /\ bundle' \in Automation!Versions /\ bundle <= bundle'
  BY <1>1, <1>2 DEF Automation!TypeOK, Automation!Versions
<1>5. Automation!BundleRoles \subseteq Automation!BundleRoles'
  BY <1>4 DEF Automation!BundleRoles, Automation!Versions
<1>6. Automation!TypeOK'
  <2>1. th' \in [Automation!Threads -> ThreadRecord]
    BY <1>1, <1>3
  <2>2. cuts' \subseteq {"cut", "overlap", "broken"}
    BY <1>1, <1>2 DEF Automation!TypeOK
  <2>3. QED
    BY <1>1, <1>2, <1>4, <2>1, <2>2 DEF Automation!TypeOK, ThreadRecord, Automation!AnyRepo
<1>7. StartComesFirst'
  <2>1. th'[Automation!Boot].pc = "idle"
    BY <1>1, BootIsApart, SomeRecords
  <2>2. QED
    BY <1>1, <1>3, <2>1, BootIsApart DEF StartComesFirst
<1>8. TasksAreSound' /\ TextsAreWhole' /\ DoneIsOnDisk'
  BY <1>3 DEF TasksAreSound, TextsAreWhole, DoneIsOnDisk
<1>9. FilesAreSound'
  <2>1. \A q \in Automation!Paths : /\ Automation!OnDisk(q)' <=> Automation!OnDisk(q)
                                    /\ Automation!Readable(q)' <=> Automation!Readable(q)
                                    /\ Automation!Readable(q) =>
                                           file[q].version \in Automation!Versions
    BY <1>1, <1>2, FileType DEF Automation!OnDisk, Automation!Readable
  <2>2. \A q \in Automation!Paths :
            /\ Automation!OnDisk(q)' => q \in Automation!BundleRoles' \cup {Automation!State}
            /\ Automation!Readable(q)' => file[q].version <= bundle'
    BY <1>2, <1>4, <1>5, <2>1 DEF FilesAreSound, Automation!Versions
  <2>3. Automation!Ready' /\ "broken" \notin cuts' =>
            \A role \in RolesOf(file[Automation!State].version) : Automation!OnDisk(role)
    BY <1>1, <1>2 DEF FilesAreSound, Automation!Ready, Automation!Readable
  <2>4. QED
    BY <1>1, <2>1, <2>2, <2>3 DEF FilesAreSound, RolesOf, Automation!OnDisk
<1>10. ASSUME cuts' = {}
       PROVE  /\ cuts = {}
              /\ \A u \in Automation!Threads : Working(u) => u = Automation!Boot
  BY <1>1, <1>10 DEF Automation!Busy, Working
<1>11. RepoIsDue'
  <2>1. cuts' = {} => \A q : ~Due(q)
    BY <1>2, <1>10 DEF Due, TasksAreSound
  <2>2. Automation!Busy' = {}
    BY <1>3 DEF Automation!Busy
  <2>3. QED
    BY <1>1, <1>2, <1>3, <1>10, <2>1, <2>2 DEF RepoIsDue, Automation!Readable
<1>12. EditsAreHeld'
  <2> SUFFICES ASSUME cuts' = {} PROVE EditsAreHeld'
    BY DEF EditsAreHeld
  <2>1. \A role \in edits : ~Rescued(role)
    BY <1>2, <1>10 DEF Rescued, EditsAreHeld, TasksAreSound, Working, Holding
  <2>2. QED
    BY <1>1, <1>2, <1>3, <1>10, <2>1 DEF EditsAreHeld
<1>13. QED
  BY <1>6, <1>7, <1>8, <1>9, <1>11, <1>12 DEF AutomationInv

LEMMA StartUpgradeStep == ASSUME AutomationInv, Automation!StartUpgrade PROVE AutomationInv'
<1> DEFINE boot     == Automation!Boot
           there    == Automation!OnDisk(Automation!State)
           starting == [Automation!Idle EXCEPT !.pc = "choosing", !.task = "upgrade",
                                               !.todo = Automation!BundleRoles, !.repo = repo]
           new      == IF there THEN starting ELSE Automation!Done
<1>1. /\ th[boot].pc = "idle" /\ th' = [th EXCEPT ![boot] = new]
      /\ serving' = IF there THEN serving ELSE TRUE
      /\ UNCHANGED <<bundle, repo, file, edits, cuts>>
  BY DEF Automation!StartUpgrade, Automation!At
<1>2. /\ Automation!TypeOK /\ StartComesFirst /\ TasksAreSound /\ TextsAreWhole
      /\ DoneIsOnDisk /\ FilesAreSound /\ RepoIsDue /\ EditsAreHeld
  BY DEF AutomationInv
<1>3. Automation!BundleRoles \subseteq Automation!Paths /\ repo \in Automation!AnyRepo
  BY <1>2, BootIsApart DEF Automation!TypeOK
<1>4. /\ starting \in ThreadRecord /\ starting.pc = "choosing" /\ starting.task = "upgrade"
      /\ starting.todo = Automation!BundleRoles /\ starting.repo = repo
  BY <1>3, SomeRecords DEF ThreadRecord, Automation!Pcs, Automation!Tasks
<1> HIDE DEF starting
<1>5. new \in ThreadRecord /\ (IF there THEN new = starting ELSE new.pc = "done")
  BY <1>4, SomeRecords
<1> HIDE DEF new, there
<1>6. \A u \in Automation!Threads : th'[u] = IF u = boot THEN new ELSE th[u]
  BY <1>1, <1>2 DEF Automation!TypeOK
<1>7. \A u \in Automation!Threads : th[u].pc \in {"idle", "done"}
  <2>1. ~serving
    BY <1>1, <1>2 DEF StartComesFirst
  <2>2. QED
    BY <1>1, <1>2, <2>1 DEF StartComesFirst, Automation!Threads
<1>8. \A u \in Automation!Threads : /\ ~Working(u) /\ ~Holding(u) /\ ~Holding(u)'
                                    /\ Working(u)' <=> u = boot /\ there
                                    /\ u \in Automation!Busy' => u = boot
  BY <1>4, <1>5, <1>6, <1>7 DEF Working, Holding, Automation!Busy
<1>9. Automation!TypeOK'
  BY <1>1, <1>2, <1>5 DEF Automation!TypeOK, ThreadRecord, Automation!AnyRepo
<1>10. StartComesFirst'
  <2>1. \A r \in Requests : th'[r] = th[r] /\ th[r].pc \in {"idle", "done"}
    BY <1>6, <1>7, BootIsApart
  <2>2. (th'[boot].pc = "done") <=> ~there
    BY <1>4, <1>5, <1>6, BootIsApart
  <2>3. ~serving
    BY <1>1, <1>2 DEF StartComesFirst
  <2>4. QED
    BY <1>1, <2>1, <2>2, <2>3 DEF StartComesFirst
<1>11. TasksAreSound'
  <2>1. Automation!BundleRoles' = Automation!BundleRoles
    BY <1>1 DEF Automation!BundleRoles
  <2>2. \A u \in Automation!Threads : th'[u].pc # "merging"
    BY <1>4, <1>5, <1>6, <1>7
  <2>3. QED
    BY <1>4, <1>5, <1>6, <1>8, <2>1, <2>2, BootIsApart DEF TasksAreSound
<1>12. TextsAreWhole'
  BY <1>8 DEF TextsAreWhole
<1>13. DoneIsOnDisk'
  BY <1>1, <1>4, <1>5, <1>6, <1>8 DEF DoneIsOnDisk, Automation!BundleRoles
<1>14. FilesAreSound'
  <2>1. ~serving /\ (serving' => ~there)
    BY <1>1, <1>2 DEF StartComesFirst
  <2>2. QED
    BY <1>1, <1>2, <2>1 DEF FilesAreSound, RolesOf, Automation!Ready, Automation!Readable,
       Automation!OnDisk, Automation!BundleRoles, there
<1>15. RepoIsDue'
  <2>1. \A q : ~Due(q)
    BY <1>8 DEF Due
  <2>2. \A u \in Automation!Busy' : u = boot
    BY <1>8 DEF Automation!Busy
  <2>3. QED
    BY <1>1, <1>2, <1>4, <1>5, <1>6, <1>8, <2>1, <2>2 DEF RepoIsDue, Automation!Readable
<1>16. EditsAreHeld'
  <2>1. \A q : ~Rescued(q)
    BY <1>7 DEF Rescued
  <2>2. QED
    BY <1>1, <1>2, <1>8, <2>1 DEF EditsAreHeld
<1>17. QED
  BY <1>9, <1>10, <1>11, <1>12, <1>13, <1>14, <1>15, <1>16 DEF AutomationInv

LEMMA BreakStep ==
    ASSUME AutomationInv, NEW role \in ManifestRoles, Automation!Break(role)
    PROVE  AutomationInv'
<1>1. /\ Automation!Busy = {} /\ Automation!Readable(role)
      /\ file' = [file EXCEPT ![role] = Automation!Broken] /\ edits' = edits \ {role}
      /\ UNCHANGED <<bundle, serving, repo, th, cuts>>
  BY DEF Automation!Break
<1>2. /\ Automation!TypeOK /\ StartComesFirst /\ TasksAreSound /\ TextsAreWhole
      /\ DoneIsOnDisk /\ FilesAreSound /\ RepoIsDue /\ EditsAreHeld
  BY DEF AutomationInv
<1>3. role \in Automation!Paths /\ role # Automation!State
  BY BootIsApart
<1>4. \A q \in Automation!Paths :
          file'[q] = IF q = role THEN Automation!Broken ELSE file[q]
  BY <1>1, <1>2 DEF Automation!TypeOK
<1>5. /\ Automation!BundleRoles' = Automation!BundleRoles
      /\ \A q \in Automation!Paths :
            /\ Automation!OnDisk(q)' <=> Automation!OnDisk(q)
            /\ Automation!Readable(q)' <=> q # role /\ Automation!Readable(q)
  BY <1>1, <1>4, SomeRecords
     DEF Automation!BundleRoles, Automation!OnDisk, Automation!Readable
<1>6. \A u \in Automation!Threads : /\ ~Working(u) /\ ~Holding(u) /\ ~Working(u)' /\ ~Holding(u)'
                                    /\ th[u].pc \in {"idle", "done"} /\ th'[u] = th[u]
  BY <1>1, <1>2, NobodyWorks DEF Working, Holding
<1>7. Automation!TypeOK'
  <2>1. file' \in [Automation!Paths -> Automation!Files] /\ edits' \subseteq ManifestRoles
    BY <1>1, <1>2, SomeRecords DEF Automation!TypeOK
  <2>2. QED
    BY <1>1, <1>2, <2>1 DEF Automation!TypeOK, Automation!AnyRepo
<1>8. StartComesFirst' /\ TasksAreSound' /\ TextsAreWhole' /\ DoneIsOnDisk'
  BY <1>1, <1>2, <1>6 DEF StartComesFirst, TasksAreSound, TextsAreWhole, DoneIsOnDisk
<1>9. FilesAreSound'
  <2>1. \A v : \A q \in RolesOf(v) : q \in Automation!Paths
    BY BootIsApart DEF RolesOf
  <2>2. RolesOf(file[Automation!State].version)' = RolesOf(file[Automation!State].version)
    BY <1>3, <1>4, BootIsApart DEF RolesOf
  <2>3. Automation!Ready' <=> Automation!Ready
    BY <1>3, <1>5, BootIsApart DEF Automation!Ready
  <2>4. QED
    BY <1>1, <1>2, <1>4, <1>5, <2>1, <2>2, <2>3, BootIsApart DEF FilesAreSound
<1>10. RepoIsDue'
  BY <1>1, <1>2, <1>4, <1>5, <1>6 DEF RepoIsDue, Automation!Busy, Due
<1>11. EditsAreHeld'
  <2>1. \A q \in edits : q \in Automation!Paths
    BY <1>2 DEF Automation!TypeOK, Automation!Paths
  <2>2. \A q : ~Rescued(q)
    BY <1>6 DEF Rescued
  <2>3. QED
    BY <1>1, <1>2, <1>4, <1>6, <2>1, <2>2 DEF EditsAreHeld
<1>12. QED
  BY <1>7, <1>8, <1>9, <1>10, <1>11 DEF AutomationInv

\* A thread that a broken manifest ends: nothing is claimed of what it has left undone.
LEMMA EndedStep ==
    ASSUME AutomationInv, NEW t \in Automation!Threads,
           th' = [th EXCEPT ![t] = Automation!Done], serving' = TRUE,
           ~serving => t = Automation!Boot,
           th[t].pc \in {"idle", "choosing"},
           cuts' = cuts \cup {"broken"},
           UNCHANGED <<bundle, repo, file, edits>>
    PROVE  AutomationInv'
<1>1. /\ Automation!TypeOK /\ StartComesFirst /\ TasksAreSound /\ TextsAreWhole
      /\ DoneIsOnDisk /\ FilesAreSound /\ RepoIsDue /\ EditsAreHeld
  BY DEF AutomationInv
<1>2. \A u \in Automation!Threads : th'[u] = IF u = t THEN Automation!Done ELSE th[u]
  BY <1>1 DEF Automation!TypeOK
<1>3. \A u \in Automation!Threads : /\ Working(u)' => Working(u) /\ u # t
                                    /\ Holding(u)' => Holding(u) /\ u # t
  BY <1>2, SomeRecords DEF Working, Holding
<1>4. Automation!TypeOK'
  <2>1. th' \in [Automation!Threads -> ThreadRecord]
    BY <1>1, SomeRecords DEF Automation!TypeOK, ThreadRecord
  <2>2. QED
    BY <1>1, <2>1 DEF Automation!TypeOK, ThreadRecord, Automation!AnyRepo
<1>5. StartComesFirst'
  <2>1. th'[Automation!Boot].pc = "done"
    BY <1>1, <1>2, SomeRecords, BootIsApart DEF StartComesFirst
  <2>2. QED
    BY <2>1 DEF StartComesFirst
<1>6. TasksAreSound'
  BY <1>1, <1>2, <1>3, SomeRecords DEF TasksAreSound, Automation!BundleRoles
<1>7. TextsAreWhole'
  BY <1>1, <1>2, <1>3 DEF TextsAreWhole, Automation!OnDisk
<1>8. DoneIsOnDisk' /\ RepoIsDue' /\ EditsAreHeld'
  BY DEF DoneIsOnDisk, RepoIsDue, EditsAreHeld
<1>9. FilesAreSound'
  BY <1>1 DEF FilesAreSound, Automation!OnDisk, Automation!Readable, Automation!BundleRoles
<1>10. QED
  BY <1>4, <1>5, <1>6, <1>7, <1>8, <1>9 DEF AutomationInv

LEMMA GiveUpStep ==
    ASSUME AutomationInv, NEW t \in Automation!Threads, NEW p \in Automation!Paths,
           Automation!GiveUp(t, p)
    PROVE  AutomationInv'
<1>1. /\ th[t].pc = "choosing" /\ th' = [th EXCEPT ![t] = Automation!Done]
      /\ serving' = TRUE /\ cuts' = cuts \cup {"broken"}
      /\ UNCHANGED <<bundle, repo, file, edits>>
  BY DEF Automation!GiveUp, Automation!At
<1>2. ~serving => t = Automation!Boot
  BY <1>1 DEF AutomationInv, StartComesFirst, Automation!Threads
<1>3. QED
  BY <1>1, <1>2, EndedStep

LEMMA MissUpgradeStep == ASSUME AutomationInv, Automation!MissUpgrade PROVE AutomationInv'
<1>1. /\ th[Automation!Boot].pc = "idle"
      /\ th' = [th EXCEPT ![Automation!Boot] = Automation!Done]
      /\ serving' = TRUE /\ cuts' = cuts \cup {"broken"}
      /\ UNCHANGED <<bundle, repo, file, edits>>
  BY DEF Automation!MissUpgrade, Automation!At
<1>2. QED
  BY <1>1, EndedStep, BootIsApart

LEMMA AutomationInit == Automation!Init => AutomationInv
<1> SUFFICES ASSUME Automation!Init PROVE AutomationInv
  OBVIOUS
<1>1. /\ bundle \in Automation!Versions /\ serving = TRUE /\ repo \in Automation!AnyRepo
      /\ file = [p \in Automation!Paths |-> Automation!Absent]
      /\ th = [t \in Automation!Threads |->
                  IF t = Automation!Boot THEN Automation!Done ELSE Automation!Idle]
      /\ edits = {} /\ cuts = {}
  BY DEF Automation!Init
<1>2. /\ \A u \in Automation!Threads :
             /\ th[u] \in ThreadRecord /\ th[u].pc \in {"idle", "done"}
             /\ ~Working(u) /\ ~Holding(u)
      /\ th[Automation!Boot].pc = "done"
  BY <1>1, SomeRecords, BootIsApart DEF Working, Holding
<1>3. \A p \in Automation!Paths : /\ file[p] \in Automation!Files
                                  /\ ~Automation!OnDisk(p) /\ ~Automation!Readable(p)
  BY <1>1, SomeRecords DEF Automation!OnDisk, Automation!Readable
<1>4. Automation!TypeOK
  BY <1>1, <1>2, <1>3 DEF Automation!TypeOK, ThreadRecord
<1>5. StartComesFirst /\ TasksAreSound /\ TextsAreWhole /\ DoneIsOnDisk
  BY <1>1, <1>2, BootIsApart DEF StartComesFirst, TasksAreSound, TextsAreWhole, DoneIsOnDisk
<1>6. FilesAreSound
  BY <1>3, BootIsApart DEF FilesAreSound, Automation!Ready
<1>7. RepoIsDue /\ EditsAreHeld
  BY <1>1, <1>2, <1>3 DEF RepoIsDue, EditsAreHeld, Automation!Busy
<1>8. QED
  BY <1>4, <1>5, <1>6, <1>7 DEF AutomationInv

LEMMA AutomationStutters ==
    ASSUME AutomationInv, UNCHANGED Automation!vars PROVE AutomationInv'
<1>1. UNCHANGED <<bundle, serving, repo, file, th, edits, cuts>>
  BY DEF Automation!vars
<1>2. Automation!TypeOK'
  BY <1>1 DEF AutomationInv, Automation!TypeOK, Automation!AnyRepo
<1>3. StartComesFirst' /\ TasksAreSound' /\ TextsAreWhole' /\ DoneIsOnDisk'
  BY <1>1 DEF AutomationInv, StartComesFirst, TasksAreSound, TextsAreWhole, DoneIsOnDisk,
     Working, Holding, Automation!BundleRoles, Automation!OnDisk
<1>4. FilesAreSound'
  BY <1>1 DEF AutomationInv, FilesAreSound, RolesOf, Automation!Ready, Automation!Readable,
     Automation!BundleRoles, Automation!OnDisk
<1>5. RepoIsDue' /\ EditsAreHeld'
  BY <1>1 DEF AutomationInv, RepoIsDue, EditsAreHeld, Due, Rescued, Working, Holding,
     Automation!Busy, Automation!Readable
<1>6. QED
  BY <1>2, <1>3, <1>4, <1>5 DEF AutomationInv

LEMMA AutomationStep == AutomationInv /\ [Automation!Next]_(Automation!vars) => AutomationInv'
<1> SUFFICES ASSUME AutomationInv, [Automation!Next]_(Automation!vars) PROVE AutomationInv'
  OBVIOUS
<1>1. CASE Automation!Remove
  BY <1>1, RemoveStep
<1>2. CASE Automation!Restart
  BY <1>2, RestartStep
<1>3. CASE Automation!StartUpgrade
  BY <1>3, StartUpgradeStep
<1>4. CASE \E role \in ManifestRoles : Automation!Edit(role)
  BY <1>4, EditStep
<1>5. CASE \E r \in Requests, force, prerequisites \in BOOLEAN :
               Automation!Setup(r, force, prerequisites)
  BY <1>5, SetupStep
<1>6. CASE \E r \in Requests, found \in Automation!Discoveries : Automation!MergeMapping(r, found)
  BY <1>6, MergeMappingStep
<1>7. CASE \E r \in Requests, chosen \in Repos : Automation!ChangeRepo(r, chosen)
  BY <1>7, ChangeRepoStep
<1>8. CASE \E t \in Automation!Threads, p \in Automation!Paths : Automation!Skip(t, p)
  BY <1>8, SkipStep
<1>9. CASE \E t \in Automation!Threads, p \in Automation!Paths : Automation!Choose(t, p)
  BY <1>9, ChooseStep
<1>10. CASE \E t \in Automation!Threads : Automation!Open(t)
  BY <1>10, OpenStep
<1>11. CASE \E t \in Automation!Threads : Automation!Write(t)
  BY <1>11, WriteStep
<1>12. CASE \E role \in ManifestRoles : Automation!Break(role)
  BY <1>12, BreakStep
<1>13. CASE \E t \in Automation!Threads, p \in Automation!Paths : Automation!GiveUp(t, p)
  BY <1>13, GiveUpStep
<1>14. CASE Automation!MissUpgrade
  BY <1>14, MissUpgradeStep
<1>15. CASE UNCHANGED Automation!vars
  BY <1>15, AutomationStutters
<1>16. QED
  BY <1>1, <1>2, <1>3, <1>4, <1>5, <1>6, <1>7, <1>8, <1>9, <1>10, <1>11, <1>12, <1>13, <1>14,
     <1>15 DEF Automation!Next

\* Whatever setups, changes of the repository, starts of a new version and crashes meet: a
\* project that is ready has a manifest for every role of the plugin; and where none met
\* and none was cut short, its files name its repository and keep what a human edited
\* (provisioner.py, upgrade.py).
THEOREM AutomationStaysWhole == Automation!Spec => []AutomationHolds
<1>1. AutomationInv => AutomationHolds
  <2> SUFFICES ASSUME AutomationInv PROVE Automation!ProvisioningHolds
    BY DEF AutomationHolds
  <2>1. Automation!ReadyMeansProvisioned
    BY DEF AutomationInv, FilesAreSound, Automation!ReadyMeansProvisioned, Automation!Ready,
       Automation!Readable, Automation!OnDisk
  <2>2. Automation!RepoAgrees
    BY NobodyWorks DEF AutomationInv, RepoIsDue, Due, Automation!RepoAgrees
  <2>3. Automation!EditsStand
    BY NobodyWorks DEF AutomationInv, EditsAreHeld, Rescued, Automation!EditsStand
  <2>4. QED
    BY <2>1, <2>2, <2>3 DEF Automation!ProvisioningHolds
<1>2. QED
  BY <1>1, AutomationInit, AutomationStep, PTL DEF Automation!Spec

-----------------------------------------------------------------------------
(* Projects and their settings. *)

Maps == UNION {[S -> Settings!Entries] : S \in SUBSET Settings!Keys}

Chosen  == {"default", "mine"}
Changes == [project : Settings!Keys, field : {"sprint", "scope"}, value : Chosen]
           \cup [project : Settings!Keys, field : {"config"}, value : Settings!Configs]
           \cup [project : Settings!Keys, field : {"register", "remove"}, value : Settings!Keys]

RequestRecord ==
    [pc : Settings!Pcs, kind : Kinds \cup {"poll"}, project : Settings!Keys, header : BOOLEAN,
     copy : Maps, todo : Seq(Changes), then : Settings!Pcs, config : Settings!Configs,
     payload : Settings!Entries]

FilesTyped ==
    /\ mapping \in Maps /\ cloud \in Maps /\ torn \in BOOLEAN
    /\ active \in Settings!Owners /\ global \in Settings!Configs
    /\ want \in [Settings!Keys -> [{"sprint", "scope"} -> Settings!Settings]]
    /\ created \subseteq Settings!Keys

SettingsTyped ==
    /\ FilesTyped
    /\ req \in [Requests -> RequestRecord]

UnderWay(q) == q.pc \notin {"idle", "done"}
Changing(q) == q.pc \in {"updating", "read", "open"}

\* What is left to change, and what follows.
PlanIsSound(q) ==
    \/ /\ q.kind \in Settings!Scoped /\ q.then = "saving"
       /\ q.todo = <<Settings!Update(q.project, "config", q.config)>>
    \/ /\ q.kind \in {"put", "register"} /\ q.then = "done"
       /\ \E v, w \in Chosen :
             \/ q.todo = <<Settings!Update(q.project, "sprint", v),
                           Settings!Update(q.project, "scope", w)>>
             \/ q.todo = <<Settings!Update(q.project, "scope", w)>>
    \/ /\ q.kind = "register" /\ q.then = "registered"
       /\ \E k \in Settings!Keys : q.todo = <<Settings!Update(q.project, "register", k)>>
    \/ /\ q.kind = "share" /\ q.then = "unlisting"
       /\ q.todo = <<Settings!Update(q.project, "remove", q.project)>>

RequestIsSound(q) ==
    /\ UnderWay(q) => q.project \in ProjectKeys
    /\ q.pc \in {"listing", "activating"} => q.kind \in Settings!Scoped /\ (~q.header => q.kind = "put")
    /\ q.pc \in {"applying", "saving"} => q.kind \in Settings!Scoped
    /\ q.pc = "storing" => q.kind = "put"
    /\ q.pc \in {"registered", "settling"} => q.kind = "register"
    /\ q.pc \in {"posting", "finalizing", "unlisting", "reactivating"} => q.kind = "share"
    /\ Changing(q) => PlanIsSound(q)

\* The servers of a mapping, and the one a request is about to store.
OwnServers(map) ==
    \A p \in DOMAIN map : map[p].config \in {Settings!NoConfig, [address |-> p, env |-> p]}

OwnServerAhead(q) ==
    /\ OwnServers(q.copy)
    /\ Changing(q) /\ q.then = "saving" => q.config = [address |-> q.project, env |-> q.project]

OwnStaysOwn ==
    "partial_body" \notin SettingsEvents =>
        OwnServers(mapping) /\ \A r \in Requests : OwnServerAhead(req[r])

KeyOf(act) == IF act = Nobody THEN Default ELSE act

\* Where one request follows the other, q under way: what there is, is local or shared, and
\* so is the active project, unless the mapping is new; ...
ProjectsStand(q, map, trunc, act, shared, made) ==
    /\ trunc <=> q.pc = "open"
    /\ \A p \in made : p # Nobody /\ p \in DOMAIN map \cup DOMAIN shared \cup {act}
    /\ act \in DOMAIN map \cup DOMAIN shared \cup {Nobody} \/ DOMAIN map = {}
    /\ q.pc \in {"read", "open"} => q.copy = map
    /\ UnderWay(q) /\ (q.kind \in Settings!Scoped \/ q.pc = "posting") =>
           q.project \in DOMAIN map \cup {act}
    /\ Changing(q) /\ q.then = "registered" =>
           q.todo = <<Settings!Update(q.project, "register", KeyOf(act))>>
    /\ \/ q.pc \in {"registered", "settling"}
       \/ Changing(q) /\ q.then = "done" /\ q.kind = "register"
       => q.project \in DOMAIN map
    /\ q.pc = "settling" => q.project = act
    /\ \/ q.pc \in {"finalizing", "unlisting", "reactivating"}
       \/ Changing(q) /\ q.then = "unlisting"
       => q.project \in DOMAIN shared
    /\ q.pc = "reactivating" => act = Nobody

Fields == {"sprint", "scope"}

\* ... what a user stored is in the mapping or, where that has not the project, shared; and
\* the settings a registration or a share is about to write are those there are.
WishesStand(q, map, act, shared, wanted) ==
    /\ \A p \in Settings!Keys, f \in Fields : wanted[p][f] # "unset" =>
           IF p \in DOMAIN map THEN map[p][f] = wanted[p][f]
                               ELSE p \in DOMAIN shared /\ shared[p][f] = wanted[p][f]
    /\ wanted[Default] = Settings!Unwanted
    /\ act \in Settings!Keys \ DOMAIN map =>
           wanted[act] = Settings!Unwanted \/ (q.pc = "unlisting" /\ q.project = act)
    /\ Changing(q) /\ q.kind = "register" /\ q.then = "done" =>
           \A i \in DOMAIN q.todo :
               wanted[q.project][q.todo[i].field] \in {"unset", q.todo[i].value}
    /\ q.pc = "posting" => q.payload = Settings!EntryOf(map, q.project)
    /\ \/ q.pc = "finalizing"
       \/ Changing(q) /\ q.then = "unlisting"
       => (q.project \in DOMAIN map => shared[q.project] = map[q.project])

InTurnSoFar == mishaps \subseteq {"half_removed"}

\* The request under way, or none.
Current == IF Settings!Busy = {} THEN {Settings!NewRequest} ELSE {req[r] : r \in Settings!Busy}

InTurnInv ==
    /\ InTurnSoFar =>
           /\ \A r, s \in Settings!Busy : r = s
           /\ \A q \in Current : ProjectsStand(q, mapping, torn, active, cloud, created)
    /\ mishaps = {} => \A q \in Current : WishesStand(q, mapping, active, cloud, want)

SettingsInv ==
    /\ SettingsTyped
    /\ \A r \in Requests : RequestIsSound(req[r])
    /\ OwnStaysOwn
    /\ InTurnInv

-----------------------------------------------------------------------------
(* Mappings and requests. *)

LEMMA KeysApart == /\ Default \in Settings!Keys /\ ProjectKeys \subseteq Settings!Keys
                   /\ Nobody \notin Settings!Keys /\ Default \notin ProjectKeys
                   /\ Settings!Owners = Settings!Keys \cup {Nobody}
BY DefaultAssumption, NobodyIsNoProject DEF Settings!Keys, Settings!Owners

LEMMA MapsAre == ASSUME NEW map \in Maps
                 PROVE  /\ DOMAIN map \subseteq Settings!Keys
                        /\ \A p \in DOMAIN map : map[p] \in Settings!Entries
BY DEF Maps

LEMMA BlankType == Settings!Blank \in Settings!Entries /\ Settings!NoConfig \in Settings!Configs
BY DEF Settings!Blank, Settings!NoConfig, Settings!Entries, Settings!Configs, Settings!Settings,
       Settings!Owners

LEMMA EmptyType == Settings!Empty \in Maps /\ DOMAIN Settings!Empty = {}
<1>1. DOMAIN Settings!Empty = {}
  BY DEF Settings!Empty
<1>2. Settings!Empty \in [{} -> Settings!Entries]
  BY DEF Settings!Empty
<1>3. QED
  BY <1>1, <1>2 DEF Maps

LEMMA EntryOfType ==
    ASSUME NEW map \in Maps, NEW p PROVE Settings!EntryOf(map, p) \in Settings!Entries
BY MapsAre, BlankType DEF Settings!EntryOf

LEMMA WithType ==
    ASSUME NEW map \in Maps, NEW p \in Settings!Keys, NEW e \in Settings!Entries
    PROVE  /\ Settings!With(map, p, e) \in Maps
           /\ DOMAIN Settings!With(map, p, e) = DOMAIN map \cup {p}
           /\ Settings!With(map, p, e)[p] = e
           /\ \A k \in DOMAIN map \ {p} : Settings!With(map, p, e)[k] = map[k]
<1> DEFINE S == DOMAIN map \cup {p}
<1>1. S \in SUBSET Settings!Keys /\ \A k \in DOMAIN map : map[k] \in Settings!Entries
  BY MapsAre
<1>2. Settings!With(map, p, e) = [k \in S |-> IF k = p THEN e ELSE map[k]]
  BY DEF Settings!With
<1>3. Settings!With(map, p, e) \in [S -> Settings!Entries]
  BY <1>1, <1>2
<1>4. QED
  BY <1>1, <1>2, <1>3 DEF Maps

LEMMA WithoutType ==
    ASSUME NEW map \in Maps, NEW p
    PROVE  /\ Settings!Without(map, p) \in Maps
           /\ DOMAIN Settings!Without(map, p) = DOMAIN map \ {p}
           /\ \A k \in DOMAIN map \ {p} : Settings!Without(map, p)[k] = map[k]
<1> DEFINE S == DOMAIN map \ {p}
<1>1. S \in SUBSET Settings!Keys /\ \A k \in DOMAIN map : map[k] \in Settings!Entries
  BY MapsAre
<1>2. Settings!Without(map, p) = [k \in S |-> map[k]]
  BY DEF Settings!Without
<1>3. Settings!Without(map, p) \in [S -> Settings!Entries]
  BY <1>1, <1>2
<1>4. QED
  BY <1>1, <1>2, <1>3 DEF Maps

LEMMA RegisterType ==
    ASSUME NEW map \in Maps, NEW p \in Settings!Keys, NEW previous \in Settings!Keys
    PROVE  /\ Settings!RegisterIn(map, p, previous) \in Maps
           /\ DOMAIN Settings!RegisterIn(map, p, previous) = DOMAIN map \cup {p, previous}
           /\ \A k \in DOMAIN map \cup {p, previous} :
                 Settings!RegisterIn(map, p, previous)[k] = Settings!EntryOf(map, k)
<1> DEFINE entry(m, k) == Settings!EntryOf(m, k)
           wider == Settings!With(map, previous, entry(map, previous))
           both  == IF previous = p THEN map ELSE wider
           new   == Settings!RegisterIn(map, p, previous)
<1>1. /\ entry(map, previous) \in Settings!Entries
      /\ \A k : entry(map, k) = IF k \in DOMAIN map THEN map[k] ELSE Settings!Blank
  BY EntryOfType DEF Settings!EntryOf
<1>2. /\ wider \in Maps /\ DOMAIN wider = DOMAIN map \cup {previous}
      /\ wider[previous] = entry(map, previous)
      /\ \A k \in DOMAIN map \ {previous} : wider[k] = map[k]
  BY <1>1, WithType
<1> HIDE DEF wider
<1>3. /\ both \in Maps /\ DOMAIN both \cup {p} = DOMAIN map \cup {p, previous}
      /\ \A k \in DOMAIN both : both[k] = IF k \in DOMAIN map THEN map[k] ELSE Settings!Blank
      /\ \A k \in DOMAIN both \cup {p} : k \notin DOMAIN both => k \notin DOMAIN map
  <2>1. CASE previous = p
    BY <1>1, <2>1
  <2>2. CASE previous # p
    BY <1>1, <1>2, <2>2
  <2>3. QED
    BY <2>1, <2>2
<1>4. new = Settings!With(both, p, entry(both, p))
  BY DEF Settings!RegisterIn, wider
<1> HIDE DEF both
<1>5. entry(both, p) = entry(map, p) /\ entry(both, p) \in Settings!Entries
  BY <1>3, EntryOfType DEF Settings!EntryOf
<1>6. /\ new \in Maps /\ DOMAIN new = DOMAIN both \cup {p}
      /\ new[p] = entry(both, p) /\ \A k \in DOMAIN both \ {p} : new[k] = both[k]
  BY <1>3, <1>4, <1>5, WithType
<1> HIDE DEF new
<1>7. \A k \in DOMAIN map \cup {p, previous} : new[k] = entry(map, k)
  BY <1>1, <1>3, <1>5, <1>6
<1>8. QED
  BY <1>3, <1>6, <1>7 DEF new

LEMMA NewRequestType ==
    /\ Settings!NewRequest \in RequestRecord
    /\ Settings!NewRequest.pc = "idle" /\ Settings!NewRequest.copy = Settings!Empty
<1>1. "idle" \in Settings!Pcs /\ "done" \in Settings!Pcs
  BY DEF Settings!Pcs
<1>2. <<>> \in Seq(Changes)
  OBVIOUS
<1>3. QED
  BY <1>1, <1>2, KeysApart, BlankType, EmptyType DEF Settings!NewRequest, RequestRecord

LEMMA AnsweredType ==
    ASSUME NEW r
    PROVE  /\ Settings!Answered(r) \in RequestRecord /\ Settings!Answered(r).pc = "done"
           /\ Settings!Answered(r).copy = Settings!Empty
           /\ RequestIsSound(Settings!Answered(r)) /\ OwnServerAhead(Settings!Answered(r))
<1> DEFINE q == Settings!Answered(r)
<1>1. q = [Settings!NewRequest EXCEPT !.pc = "done"] /\ "done" \in Settings!Pcs
  BY DEF Settings!Answered, Settings!Pcs
<1>2. q \in RequestRecord /\ q.pc = "done" /\ q.copy = Settings!Empty
  BY <1>1, NewRequestType DEF RequestRecord
<1> HIDE DEF q
<1>3. RequestIsSound(q) /\ OwnServerAhead(q)
  BY <1>2, EmptyType DEF RequestIsSound, OwnServerAhead, UnderWay, Changing, OwnServers
<1>4. QED
  BY <1>2, <1>3 DEF q

\* What holds of the request under way, and of the files, when requests do not overlap.
LEMMA RequestAlone ==
    ASSUME SettingsInv, NEW r \in Requests, r \in Settings!Busy
    PROVE  /\ InTurnSoFar => ProjectsStand(req[r], mapping, torn, active, cloud, created)
           /\ mishaps = {} => WishesStand(req[r], mapping, active, cloud, want)
BY DEF SettingsInv, InTurnInv, Current

\* A step of a request: it is enough to look at what the request and the files become.
LEMMA RequestStep ==
    ASSUME SettingsInv, NEW r \in Requests, r \in Settings!Busy, NEW new \in RequestRecord,
           req' = [req EXCEPT ![r] = new], mishaps' = mishaps, FilesTyped',
           new.pc # "idle", RequestIsSound(new),
           "partial_body" \notin SettingsEvents => OwnServers(mapping') /\ OwnServerAhead(new),
           InTurnSoFar => ProjectsStand(new, mapping', torn', active', cloud', created'),
           mishaps = {} => WishesStand(new, mapping', active', cloud', want')
    PROVE  SettingsInv'
<1>1. \A s \in Requests : req'[s] = IF s = r THEN new ELSE req[s]
  BY DEF SettingsInv, SettingsTyped
<1>2. SettingsTyped'
  BY DEF SettingsInv, SettingsTyped
<1>3. \A s \in Requests : RequestIsSound(req'[s])
  BY <1>1 DEF SettingsInv
<1>4. OwnStaysOwn'
  BY <1>1 DEF SettingsInv, OwnStaysOwn
<1>5. Settings!Busy' = (Settings!Busy \ {r}) \cup {s \in {r} : UnderWay(new)}
  BY <1>1 DEF Settings!Busy, UnderWay
<1>6. InTurnInv'
  <2>1. InTurnSoFar => /\ \A s \in Settings!Busy : s = r
                       /\ \A s \in Settings!Busy' : s = r
    BY <1>5 DEF SettingsInv, InTurnInv
  <2>2. InTurnSoFar => Current' = IF UnderWay(new) THEN {new} ELSE {Settings!NewRequest}
    <3> SUFFICES ASSUME InTurnSoFar
                 PROVE  Current' = IF UnderWay(new) THEN {new} ELSE {Settings!NewRequest}
      OBVIOUS
    <3>1. CASE UnderWay(new)
      <4>1. Settings!Busy' = {r}
        BY <1>5, <2>1, <3>1
      <4>2. req'[r] = new
        BY <1>1
      <4>3. QED
        BY <3>1, <4>1, <4>2 DEF Current
    <3>2. CASE ~UnderWay(new)
      <4>1. Settings!Busy' = {}
        BY <1>5, <2>1, <3>2
      <4>2. Settings!NewRequest' = Settings!NewRequest
        BY DEF Settings!NewRequest, Settings!Empty, Settings!NoConfig, Settings!Blank
      <4>3. QED
        BY <3>2, <4>1, <4>2 DEF Current
    <3>3. QED
      BY <3>1, <3>2
  <2>3. ASSUME ~UnderWay(new), ProjectsStand(new, mapping', torn', active', cloud', created')
        PROVE  ProjectsStand(Settings!NewRequest, mapping', torn', active', cloud', created')
    BY <2>3, NewRequestType DEF UnderWay, ProjectsStand, Changing
  <2>4. ASSUME ~UnderWay(new), WishesStand(new, mapping', active', cloud', want')
        PROVE  WishesStand(Settings!NewRequest, mapping', active', cloud', want')
    BY <2>4, NewRequestType DEF UnderWay, WishesStand, Changing
  <2>5. InTurnSoFar => \A q \in Current' : ProjectsStand(q, mapping', torn', active', cloud', created')
    BY <2>2, <2>3
  <2>6. mishaps = {} => \A q \in Current' : WishesStand(q, mapping', active', cloud', want')
    BY <2>2, <2>4 DEF InTurnSoFar
  <2>7. InTurnSoFar' = InTurnSoFar
    BY DEF InTurnSoFar
  <2>8. QED
    BY <2>1, <2>5, <2>6, <2>7 DEF InTurnInv
<1>7. QED
  BY <1>2, <1>3, <1>4, <1>6 DEF SettingsInv

\* A step of a request that leaves the files alone, but for the process's configuration.
LEMMA RequestGoesOn ==
    ASSUME SettingsInv, NEW r \in Requests, r \in Settings!Busy, NEW new \in RequestRecord,
           req' = [req EXCEPT ![r] = new],
           UNCHANGED <<mapping, torn, active, cloud, want, created, mishaps>>,
           global' \in Settings!Configs,
           new.pc # "idle", RequestIsSound(new),
           "partial_body" \notin SettingsEvents => OwnServerAhead(new),
           InTurnSoFar => ProjectsStand(new, mapping, torn, active, cloud, created),
           mishaps = {} => WishesStand(new, mapping, active, cloud, want)
    PROVE  SettingsInv'
<1>1. FilesTyped'
  BY DEF SettingsInv, SettingsTyped, FilesTyped
<1>2. "partial_body" \notin SettingsEvents => OwnServers(mapping')
  BY DEF SettingsInv, OwnStaysOwn
<1>3. QED
  BY <1>1, <1>2, RequestStep

\* The request under way, its record and what holds of it.
LEMMA AtIsBusy ==
    ASSUME SettingsInv, NEW r \in Requests, NEW pc \in Settings!Pcs \ {"idle", "done"},
           req[r].pc = pc
    PROVE  /\ r \in Settings!Busy /\ UnderWay(req[r]) /\ req[r] \in RequestRecord
           /\ RequestIsSound(req[r]) /\ req[r].project \in ProjectKeys
           /\ req[r].project \in Settings!Keys
BY KeysApart DEF SettingsInv, SettingsTyped, Settings!Busy, UnderWay, RequestIsSound

\* A request that is answered, with the file whole.
LEMMA RequestAnswered ==
    ASSUME SettingsInv, NEW r \in Requests, r \in Settings!Busy,
           req' = [req EXCEPT ![r] = Settings!Answered(r)],
           UNCHANGED <<mapping, torn, active, cloud, want, created, mishaps>>,
           global' \in Settings!Configs, req[r].pc # "open",
           req[r].pc = "unlisting" => active # req[r].project
    PROVE  SettingsInv'
<1> DEFINE new == Settings!Answered(r)
<1>1. /\ new \in RequestRecord /\ new.pc = "done" /\ RequestIsSound(new) /\ OwnServerAhead(new)
  BY AnsweredType
<1> HIDE DEF new
<1>2. InTurnSoFar => ProjectsStand(new, mapping, torn, active, cloud, created)
  BY <1>1, RequestAlone DEF ProjectsStand, UnderWay, Changing
<1>3. mishaps = {} => WishesStand(new, mapping, active, cloud, want)
  BY <1>1, RequestAlone DEF WishesStand, Changing
<1>4. req' = [req EXCEPT ![r] = new]
  BY DEF new
<1>5. QED
  BY <1>1, <1>2, <1>3, <1>4, RequestGoesOn

LEMMA MergeType ==
    ASSUME NEW below \in Settings!Configs, NEW above \in Settings!Configs
    PROVE  /\ Settings!Merge(below, above) \in Settings!Configs
           /\ \A p \in Settings!Keys : above = [address |-> p, env |-> p] =>
                  Settings!Merge(below, above) = [address |-> p, env |-> p]
<1> DEFINE a == IF above.address = Nobody THEN below.address ELSE above.address
           e == IF above.env = Nobody THEN below.env ELSE above.env
<1>1. Settings!Merge(below, above) = [address |-> a, env |-> e]
  BY DEF Settings!Merge
<1>2. a \in Settings!Owners /\ e \in Settings!Owners
  BY DEF Settings!Configs
<1>3. \A p \in Settings!Keys : above = [address |-> p, env |-> p] => a = p /\ e = p
  BY KeysApart
<1>4. QED
  BY <1>1, <1>2, <1>3 DEF Settings!Configs

LEMMA ContentType ==
    ASSUME SettingsInv
    PROVE  /\ Settings!Content \in Maps
           /\ ~torn => Settings!Content = mapping
           /\ "partial_body" \notin SettingsEvents => OwnServers(Settings!Content)
BY EmptyType DEF SettingsInv, SettingsTyped, FilesTyped, Settings!Content, OwnStaysOwn, OwnServers

LEMMA ReadMappingStep ==
    ASSUME SettingsInv, NEW r \in Requests, Settings!ReadMapping(r) PROVE SettingsInv'
<1> DEFINE q   == req[r]
           new == [q EXCEPT !.pc = "read", !.copy = Settings!Content]
<1>1. /\ q.pc = "updating" /\ req' = [req EXCEPT ![r] = new]
      /\ UNCHANGED <<mapping, torn, active, global, cloud, want, created, mishaps>>
  BY DEF Settings!ReadMapping, Settings!At, Settings!files, Settings!observed
<1>2. /\ r \in Settings!Busy /\ q \in RequestRecord /\ RequestIsSound(q) /\ UnderWay(q)
  BY <1>1, AtIsBusy DEF Settings!Pcs
<1>3. /\ new \in RequestRecord /\ new.pc = "read" /\ new.copy = Settings!Content
      /\ new.kind = q.kind /\ new.project = q.project /\ new.todo = q.todo
      /\ new.then = q.then /\ new.config = q.config
  <2>1. Settings!Content \in Maps
    BY ContentType
  <2>2. QED
    BY <1>2, <2>1 DEF RequestRecord, Settings!Pcs
<1> HIDE DEF new
<1>4. RequestIsSound(new)
  BY <1>1, <1>2, <1>3 DEF RequestIsSound, UnderWay, Changing, PlanIsSound
<1>5. "partial_body" \notin SettingsEvents => OwnServerAhead(new)
  BY <1>1, <1>3, ContentType DEF OwnServerAhead, Changing, SettingsInv, OwnStaysOwn
<1>6. InTurnSoFar => ProjectsStand(new, mapping, torn, active, cloud, created)
  BY <1>1, <1>2, <1>3, RequestAlone, ContentType DEF ProjectsStand, UnderWay, Changing
<1>7. mishaps = {} => WishesStand(new, mapping, active, cloud, want)
  BY <1>1, <1>2, <1>3, RequestAlone DEF WishesStand, Changing
<1>8. QED
  BY <1>1, <1>2, <1>3, <1>4, <1>5, <1>6, <1>7, RequestGoesOn DEF SettingsInv, SettingsTyped,
     FilesTyped

LEMMA TruncateStep ==
    ASSUME SettingsInv, NEW r \in Requests, Settings!Truncate(r) PROVE SettingsInv'
<1> DEFINE q   == req[r]
           new == [q EXCEPT !.pc = "open"]
<1>1. /\ q.pc = "read" /\ req' = [req EXCEPT ![r] = new] /\ torn' = TRUE
      /\ UNCHANGED <<mapping, active, global, cloud, want, created, mishaps>>
  BY DEF Settings!Truncate, Settings!At, Settings!Go, Settings!observed
<1>2. /\ r \in Settings!Busy /\ q \in RequestRecord /\ RequestIsSound(q) /\ UnderWay(q)
  BY <1>1, AtIsBusy DEF Settings!Pcs
<1>3. /\ new \in RequestRecord /\ new.pc = "open" /\ new.copy = q.copy
      /\ new.kind = q.kind /\ new.project = q.project /\ new.todo = q.todo
      /\ new.then = q.then /\ new.config = q.config
  BY <1>2 DEF RequestRecord, Settings!Pcs
<1> HIDE DEF new
<1>4. RequestIsSound(new)
  BY <1>1, <1>2, <1>3 DEF RequestIsSound, UnderWay, Changing, PlanIsSound
<1>5. "partial_body" \notin SettingsEvents => OwnServers(mapping') /\ OwnServerAhead(new)
  BY <1>1, <1>3 DEF OwnServerAhead, Changing, SettingsInv, OwnStaysOwn
<1>6. InTurnSoFar => ProjectsStand(new, mapping', torn', active', cloud', created')
  BY <1>1, <1>2, <1>3, RequestAlone DEF ProjectsStand, UnderWay, Changing
<1>7. mishaps = {} => WishesStand(new, mapping', active', cloud', want')
  BY <1>1, <1>2, <1>3, RequestAlone DEF WishesStand, Changing
<1>8. FilesTyped'
  BY <1>1 DEF SettingsInv, SettingsTyped, FilesTyped
<1>9. QED
  BY <1>1, <1>2, <1>3, <1>4, <1>5, <1>6, <1>7, <1>8, RequestStep

\* A request that only goes on to another place, with the file whole.
LEMMA GoStep ==
    ASSUME SettingsInv, NEW r \in Requests, r \in Settings!Busy, NEW new \in RequestRecord,
           req' = [req EXCEPT ![r] = new],
           new.copy = req[r].copy, new.kind = req[r].kind, new.project = req[r].project,
           UNCHANGED <<mapping, torn, active, cloud, want, created, mishaps>>,
           global' \in Settings!Configs, RequestIsSound(new),
           req[r].pc \notin {"open", "unlisting"},
           new.pc \in {"listing", "activating", "applying", "handling", "storing"}
    PROVE  SettingsInv'
<1>1. "partial_body" \notin SettingsEvents => OwnServerAhead(new)
  BY DEF OwnServerAhead, Changing, SettingsInv, OwnStaysOwn
<1>2. UnderWay(req[r])
  BY DEF Settings!Busy, UnderWay
<1>3. InTurnSoFar => ProjectsStand(new, mapping, torn, active, cloud, created)
  BY <1>2, RequestAlone DEF ProjectsStand, UnderWay, Changing
<1>4. mishaps = {} => WishesStand(new, mapping, active, cloud, want)
  BY RequestAlone DEF WishesStand, Changing
<1>5. QED
  BY <1>1, <1>3, <1>4, RequestGoesOn

LEMMA GlobalStays == ASSUME SettingsInv, UNCHANGED global PROVE global' \in Settings!Configs
BY DEF SettingsInv, SettingsTyped, FilesTyped

LEMMA ListProjectsStep ==
    ASSUME SettingsInv, NEW r \in Requests, Settings!ListProjects(r) PROVE SettingsInv'
<1> DEFINE q   == req[r]
           pc  == IF q.project \in Settings!Listed THEN "activating"
                  ELSE IF q.header THEN "applying" ELSE "storing"
           new == [q EXCEPT !.pc = pc]
<1>1. /\ q.pc = "listing" /\ req' = [req EXCEPT ![r] = new]
      /\ UNCHANGED <<mapping, torn, active, global, cloud, want, created, mishaps>>
  BY DEF Settings!ListProjects, Settings!At, Settings!Go, Settings!files, Settings!observed,
     Settings!AfterActivation, Settings!OnLoop
<1>2. /\ r \in Settings!Busy /\ q \in RequestRecord /\ RequestIsSound(q) /\ UnderWay(q)
      /\ q.project \in ProjectKeys
  BY <1>1, AtIsBusy DEF Settings!Pcs
<1>3. /\ pc \in {"activating", "applying", "storing"} /\ (pc = "applying" => q.header)
      /\ (pc = "storing" => ~q.header)
  BY <1>2 DEF RequestRecord
<1> HIDE DEF pc
<1>4. /\ new \in RequestRecord /\ new.pc = pc /\ new.copy = q.copy
      /\ new.kind = q.kind /\ new.project = q.project /\ new.header = q.header
  BY <1>2, <1>3 DEF RequestRecord, Settings!Pcs
<1> HIDE DEF new
<1>5. RequestIsSound(new)
  BY <1>1, <1>2, <1>3, <1>4 DEF RequestIsSound, UnderWay, Changing
<1>6. QED
  BY <1>1, <1>2, <1>3, <1>4, <1>5, GoStep, GlobalStays

LEMMA SetActiveStep ==
    ASSUME SettingsInv, NEW r \in Requests, Settings!SetActive(r) PROVE SettingsInv'
<1> DEFINE q   == req[r]
           pc  == IF q.header THEN "applying" ELSE "storing"
           new == [q EXCEPT !.pc = pc]
<1>1. /\ q.pc = "activating" /\ req' = [req EXCEPT ![r] = new] /\ active' = q.project
      /\ UNCHANGED <<mapping, torn, global, cloud, want, created, mishaps>>
  BY DEF Settings!SetActive, Settings!At, Settings!Go, Settings!observed,
     Settings!AfterActivation, Settings!OnLoop
<1>2. /\ r \in Settings!Busy /\ q \in RequestRecord /\ RequestIsSound(q) /\ UnderWay(q)
      /\ q.project \in ProjectKeys /\ q.project \in Settings!Keys
  BY <1>1, AtIsBusy DEF Settings!Pcs
<1>3. /\ pc \in {"applying", "storing"} /\ (pc = "applying" => q.header)
      /\ (pc = "storing" => ~q.header)
  BY <1>2 DEF RequestRecord
<1> HIDE DEF pc
<1>4. /\ new \in RequestRecord /\ new.pc = pc /\ new.copy = q.copy
      /\ new.kind = q.kind /\ new.project = q.project /\ new.header = q.header
  BY <1>2, <1>3 DEF RequestRecord, Settings!Pcs
<1> HIDE DEF new
<1>5. RequestIsSound(new) /\ q.kind \in Settings!Scoped
  BY <1>1, <1>2, <1>3, <1>4 DEF RequestIsSound, UnderWay, Changing
<1>6. "partial_body" \notin SettingsEvents => OwnServers(mapping') /\ OwnServerAhead(new)
  BY <1>1, <1>3, <1>4 DEF OwnServerAhead, Changing, SettingsInv, OwnStaysOwn
<1>7. InTurnSoFar => ProjectsStand(new, mapping', torn', active', cloud', created')
  BY <1>1, <1>2, <1>3, <1>4, <1>5, RequestAlone DEF ProjectsStand, UnderWay, Changing
<1>8. mishaps = {} => WishesStand(new, mapping', active', cloud', want')
  <2> SUFFICES ASSUME mishaps = {} PROVE WishesStand(new, mapping', active', cloud', want')
    OBVIOUS
  <2>1. q.project \in DOMAIN mapping \cup {active}
    BY <1>2, <1>5, RequestAlone DEF ProjectsStand, InTurnSoFar
  <2>2. QED
    BY <1>1, <1>2, <1>3, <1>4, <2>1, RequestAlone DEF WishesStand, Changing
<1>9. FilesTyped'
  BY <1>1, <1>2, KeysApart DEF SettingsInv, SettingsTyped, FilesTyped
<1>10. QED
  BY <1>1, <1>2, <1>3, <1>4, <1>5, <1>6, <1>7, <1>8, <1>9, RequestStep

\* The middleware is over: the handler goes on.
LEMMA LeaveLoopStep ==
    ASSUME SettingsInv, NEW r \in Requests, req[r].pc \in {"applying", "saving"},
           Settings!LeaveLoop(r), global' \in Settings!Configs,
           UNCHANGED <<mapping, torn, active, cloud, want, created, mishaps>>
    PROVE  SettingsInv'
<1> DEFINE q   == req[r]
           new == [q EXCEPT !.pc = "handling", !.header = FALSE]
<1>1. req' = [req EXCEPT ![r] = new]
  BY DEF Settings!LeaveLoop
<1>2. /\ r \in Settings!Busy /\ q \in RequestRecord /\ RequestIsSound(q) /\ UnderWay(q)
  BY AtIsBusy DEF Settings!Pcs
<1>3. /\ new \in RequestRecord /\ new.pc = "handling" /\ new.copy = q.copy
      /\ new.kind = q.kind /\ new.project = q.project
  BY <1>2 DEF RequestRecord, Settings!Pcs
<1> HIDE DEF new
<1>4. RequestIsSound(new)
  BY <1>2, <1>3 DEF RequestIsSound, UnderWay, Changing
<1>5. QED
  BY <1>1, <1>2, <1>3, <1>4, GoStep

\* The save hook: the server goes into the mapping first.
LEMMA SaveServerStep ==
    ASSUME SettingsInv, NEW r \in Requests, req[r].pc \in {"applying", "handling"},
           req[r].kind \in Settings!Scoped, NEW config \in Settings!Configs,
           Settings!SaveServer(r, config),
           "partial_body" \notin SettingsEvents =>
               config = [address |-> req[r].project, env |-> req[r].project],
           UNCHANGED <<mapping, torn, active, global, cloud, want, created, mishaps>>
    PROVE  SettingsInv'
<1> DEFINE q   == req[r]
           u   == Settings!Update(q.project, "config", config)
           new == [q EXCEPT !.pc = "updating", !.then = "saving", !.config = config, !.todo = <<u>>]
<1>1. req' = [req EXCEPT ![r] = new]
  BY DEF Settings!SaveServer, Settings!ScopeOf
<1>2. /\ r \in Settings!Busy /\ q \in RequestRecord /\ RequestIsSound(q) /\ UnderWay(q)
      /\ q.project \in Settings!Keys
  BY AtIsBusy DEF Settings!Pcs
<1>3. u \in Changes
  BY <1>2 DEF Changes, Settings!Update
<1>4. <<u>> \in Seq(Changes)
  BY <1>3
<1>5. /\ new \in RequestRecord /\ new.pc = "updating" /\ new.copy = q.copy /\ new.then = "saving"
      /\ new.kind = q.kind /\ new.project = q.project /\ new.config = config /\ new.todo = <<u>>
  <2> HIDE DEF u
  <2>1. QED
    BY <1>2, <1>4 DEF RequestRecord, Settings!Pcs
<1> HIDE DEF new
<1>6. RequestIsSound(new)
  BY <1>2, <1>5 DEF RequestIsSound, UnderWay, Changing, PlanIsSound
<1>7. "partial_body" \notin SettingsEvents => OwnServerAhead(new)
  BY <1>5 DEF OwnServerAhead, SettingsInv, OwnStaysOwn
<1>8. InTurnSoFar => ProjectsStand(new, mapping, torn, active, cloud, created)
  BY <1>2, <1>5, RequestAlone DEF ProjectsStand, UnderWay
<1>9. mishaps = {} => WishesStand(new, mapping, active, cloud, want)
  BY <1>2, <1>5, RequestAlone DEF WishesStand
<1>10. QED
  BY <1>1, <1>2, <1>5, <1>6, <1>7, <1>8, <1>9, RequestGoesOn, GlobalStays

LEMMA ApplyRuntimeStep ==
    ASSUME SettingsInv, NEW r \in Requests, Settings!ApplyRuntime(r) PROVE SettingsInv'
<1> DEFINE p == req[r].project
           stored == Settings!EntryOf(Settings!Content, p).config
<1>1. /\ req[r].pc = "applying"
      /\ IF stored = Settings!NoConfig THEN Settings!LeaveLoop(r)
         ELSE Settings!SaveServer(r, Settings!Merge(global, stored))
      /\ UNCHANGED <<mapping, torn, active, global, cloud, want, created, mishaps>>
  BY DEF Settings!ApplyRuntime, Settings!At, Settings!files, Settings!observed
<1>2. p \in Settings!Keys /\ req[r].kind \in Settings!Scoped
  BY <1>1, AtIsBusy DEF Settings!Pcs, RequestIsSound
<1>3. stored \in Settings!Configs
  BY EntryOfType, ContentType DEF Settings!Entries
<1>4. "partial_body" \notin SettingsEvents =>
          stored \in {Settings!NoConfig, [address |-> p, env |-> p]}
  <2>1. Settings!Blank.config = Settings!NoConfig
    BY DEF Settings!Blank
  <2>2. QED
    BY <2>1, ContentType DEF Settings!EntryOf, OwnServers
<1>5. CASE stored = Settings!NoConfig
  BY <1>1, <1>5, LeaveLoopStep, GlobalStays
<1>6. CASE stored # Settings!NoConfig
  <2>1. global \in Settings!Configs
    BY DEF SettingsInv, SettingsTyped, FilesTyped
  <2>2. /\ Settings!Merge(global, stored) \in Settings!Configs
        /\ "partial_body" \notin SettingsEvents =>
               Settings!Merge(global, stored) = [address |-> p, env |-> p]
    BY <1>2, <1>3, <1>4, <1>6, <2>1, MergeType
  <2>3. QED
    BY <1>1, <1>2, <1>6, <2>2, SaveServerStep
<1>7. QED
  BY <1>5, <1>6

LEMMA SaveGlobalStep ==
    ASSUME SettingsInv, NEW r \in Requests, Settings!SaveGlobal(r) PROVE SettingsInv'
<1>1. /\ req[r].pc = "saving" /\ global' = req[r].config
      /\ IF req[r].header THEN Settings!LeaveLoop(r)
         ELSE req' = [req EXCEPT ![r] = Settings!Answered(r)]
      /\ UNCHANGED <<mapping, torn, active, cloud, want, created, mishaps>>
  BY DEF Settings!SaveGlobal, Settings!At, Settings!OnLoop, Settings!Answer, Settings!observed
<1>2. r \in Settings!Busy /\ req[r] \in RequestRecord
  BY <1>1, AtIsBusy DEF Settings!Pcs
<1>3. global' \in Settings!Configs
  BY <1>1, <1>2 DEF RequestRecord
<1>4. CASE req[r].header
  BY <1>1, <1>3, <1>4, LeaveLoopStep
<1>5. CASE ~req[r].header
  BY <1>1, <1>2, <1>3, <1>5, RequestAnswered
<1>6. QED
  BY <1>4, <1>5

LEMMA AnswerPollStep ==
    ASSUME SettingsInv, NEW r \in Requests, Settings!AnswerPoll(r) PROVE SettingsInv'
<1>1. /\ req[r].pc = "handling" /\ req' = [req EXCEPT ![r] = Settings!Answered(r)]
      /\ UNCHANGED <<mapping, torn, active, global, cloud, want, created, mishaps>>
  BY DEF Settings!AnswerPoll, Settings!Handles, Settings!At, Settings!Answer, Settings!files,
     Settings!observed
<1>2. r \in Settings!Busy
  BY <1>1, AtIsBusy DEF Settings!Pcs
<1>3. QED
  BY <1>1, <1>2, RequestAnswered, GlobalStays

LEMMA PutSettingsStep ==
    ASSUME SettingsInv, NEW r \in Requests, Settings!PutSettings(r) PROVE SettingsInv'
<1> DEFINE q   == req[r]
           new == [q EXCEPT !.pc = "listing"]
<1>1. /\ q.pc = "handling" /\ q.kind = "put" /\ req' = [req EXCEPT ![r] = new]
      /\ UNCHANGED <<mapping, torn, active, global, cloud, want, created, mishaps>>
  BY DEF Settings!PutSettings, Settings!Handles, Settings!At, Settings!Go, Settings!files,
     Settings!observed
<1>2. /\ r \in Settings!Busy /\ q \in RequestRecord /\ RequestIsSound(q) /\ UnderWay(q)
  BY <1>1, AtIsBusy DEF Settings!Pcs
<1>3. /\ new \in RequestRecord /\ new.pc = "listing" /\ new.copy = q.copy
      /\ new.kind = q.kind /\ new.project = q.project
  BY <1>2 DEF RequestRecord, Settings!Pcs
<1> HIDE DEF new
<1>4. RequestIsSound(new)
  BY <1>1, <1>2, <1>3 DEF RequestIsSound, UnderWay, Changing, Settings!Scoped
<1>5. QED
  BY <1>1, <1>2, <1>3, <1>4, GoStep, GlobalStays

\* A request that has changes to make begins with them.
LEMMA StartUpdatesStep ==
    ASSUME SettingsInv, NEW r \in Requests, r \in Settings!Busy, NEW todo \in Seq(Changes),
           NEW then \in Settings!Pcs, Settings!StartUpdates(r, todo, then),
           req[r].pc \notin {"open", "unlisting"}, then # "saving",
           UNCHANGED <<mapping, torn, active, global, cloud, want, created, mishaps>>,
           NEW new \in RequestRecord, new.pc = "updating",
           new = [req[r] EXCEPT !.pc = "updating", !.todo = todo, !.then = then],
           PlanIsSound(new),
           InTurnSoFar => ProjectsStand(new, mapping, torn, active, cloud, created),
           mishaps = {} => WishesStand(new, mapping, active, cloud, want)
    PROVE  SettingsInv'
<1>1. req[r] \in RequestRecord /\ RequestIsSound(req[r]) /\ UnderWay(req[r])
  BY DEF SettingsInv, SettingsTyped, Settings!Busy, UnderWay
<1>2. new.copy = req[r].copy /\ new.project = req[r].project /\ new.then = then
  BY <1>1 DEF RequestRecord
<1>3. RequestIsSound(new)
  BY <1>1, <1>2 DEF RequestIsSound, UnderWay, Changing
<1>4. "partial_body" \notin SettingsEvents => OwnServerAhead(new)
  BY <1>2 DEF OwnServerAhead, SettingsInv, OwnStaysOwn
<1>5. req' = [req EXCEPT ![r] = new]
  BY <1>1 DEF Settings!StartUpdates
<1>6. QED
  BY <1>3, <1>4, <1>5, RequestGoesOn, GlobalStays

LEMMA OrDefaultType ==
    ASSUME NEW value \in Settings!Settings
    PROVE  /\ Settings!OrDefault(value) \in Chosen
           /\ value # "unset" => Settings!OrDefault(value) = value
BY DEF Settings!Settings, Settings!OrDefault, Chosen

LEMMA TwoChanges ==
    ASSUME NEW p \in Settings!Keys, NEW v \in Chosen, NEW w \in Chosen
    PROVE  <<Settings!Update(p, "sprint", v), Settings!Update(p, "scope", w)>> \in Seq(Changes)
<1>1. Settings!Update(p, "sprint", v) \in Changes /\ Settings!Update(p, "scope", w) \in Changes
  BY DEF Changes, Settings!Update
<1>2. QED
  BY <1>1

LEMMA OneChange ==
    ASSUME NEW p \in Settings!Keys, NEW k \in Settings!Keys, NEW field \in {"register", "remove"}
    PROVE  <<Settings!Update(p, field, k)>> \in Seq(Changes)
<1>1. Settings!Update(p, field, k) \in Changes
  BY DEF Changes, Settings!Update
<1>2. QED
  BY <1>1

LEMMA StoreSettingsStep ==
    ASSUME SettingsInv, NEW r \in Requests, NEW scopeInBody \in BOOLEAN,
           Settings!StoreSettings(r, scopeInBody)
    PROVE  SettingsInv'
<1> DEFINE q     == req[r]
           scope == IF scopeInBody THEN "mine" ELSE Settings!CurrentScope(q.project)
           todo  == <<Settings!Update(q.project, "sprint", "mine"),
                      Settings!Update(q.project, "scope", scope)>>
           new   == [q EXCEPT !.pc = "updating", !.todo = todo, !.then = "done"]
<1>1. /\ q.pc = "storing" /\ Settings!StartUpdates(r, todo, "done")
      /\ UNCHANGED <<mapping, torn, active, global, cloud, want, created, mishaps>>
  BY DEF Settings!StoreSettings, Settings!At, Settings!files, Settings!observed
<1>2. /\ r \in Settings!Busy /\ q \in RequestRecord /\ RequestIsSound(q) /\ UnderWay(q)
      /\ q.project \in Settings!Keys
  BY <1>1, AtIsBusy DEF Settings!Pcs
<1>3. scope \in Chosen
  <2>1. Settings!EntryOf(Settings!Content, q.project).scope \in Settings!Settings
    BY EntryOfType, ContentType DEF Settings!Entries
  <2>2. QED
    BY <2>1, OrDefaultType DEF Settings!CurrentScope, Chosen
<1>4. todo \in Seq(Changes) /\ "done" \in Settings!Pcs
  BY <1>2, <1>3, TwoChanges DEF Chosen, Settings!Pcs
<1> HIDE DEF scope
<1>5. \E v, w \in Chosen : todo = <<Settings!Update(q.project, "sprint", v),
                                    Settings!Update(q.project, "scope", w)>>
  BY <1>3 DEF Chosen
<1> HIDE DEF todo
<1>6. /\ new \in RequestRecord /\ new.pc = "updating" /\ new.todo = todo /\ new.then = "done"
      /\ new.kind = q.kind /\ new.project = q.project
  BY <1>2, <1>4 DEF RequestRecord, Settings!Pcs
<1>7. q.kind = "put"
  BY <1>1, <1>2 DEF RequestIsSound
<1>8. /\ PlanIsSound(new)
      /\ InTurnSoFar => ProjectsStand(new, mapping, torn, active, cloud, created)
      /\ mishaps = {} => WishesStand(new, mapping, active, cloud, want)
  <2> HIDE DEF new
  <2>1. PlanIsSound(new)
    BY <1>5, <1>6, <1>7 DEF PlanIsSound
  <2>2. InTurnSoFar => ProjectsStand(new, mapping, torn, active, cloud, created)
    BY <1>1, <1>2, <1>6, <1>7, RequestAlone DEF ProjectsStand, UnderWay
  <2>3. mishaps = {} => WishesStand(new, mapping, active, cloud, want)
    BY <1>1, <1>2, <1>6, <1>7, RequestAlone DEF WishesStand
  <2>4. QED
    BY <2>1, <2>2, <2>3
<1>9. QED
  BY <1>1, <1>2, <1>4, <1>6, <1>8, StartUpdatesStep

LEMMA ConnectServerStep ==
    ASSUME SettingsInv, NEW r \in Requests, NEW body \in Settings!Bodies(req[r].project),
           Settings!ConnectServer(r, body)
    PROVE  SettingsInv'
<1> DEFINE p == req[r].project
<1>1. /\ req[r].pc = "handling" /\ req[r].kind = "connect"
      /\ body.env = Nobody => "partial_body" \in SettingsEvents
      /\ Settings!SaveServer(r, Settings!Merge(global, body))
      /\ UNCHANGED <<mapping, torn, active, global, cloud, want, created, mishaps>>
  BY DEF Settings!ConnectServer, Settings!Handles, Settings!At, Settings!Allows,
     Settings!files, Settings!observed
<1>2. p \in Settings!Keys /\ req[r].kind \in Settings!Scoped
  BY <1>1, AtIsBusy DEF Settings!Pcs, Settings!Scoped
<1>3. /\ body \in Settings!Configs
      /\ body.env # Nobody => body = [address |-> p, env |-> p]
  BY <1>2, KeysApart DEF Settings!Bodies, Settings!Configs
<1>4. global \in Settings!Configs
  BY DEF SettingsInv, SettingsTyped, FilesTyped
<1>5. /\ Settings!Merge(global, body) \in Settings!Configs
      /\ "partial_body" \notin SettingsEvents =>
             Settings!Merge(global, body) = [address |-> p, env |-> p]
  BY <1>1, <1>2, <1>3, <1>4, MergeType
<1>6. QED
  BY <1>1, <1>2, <1>5, SaveServerStep

LEMMA ActiveKeyType ==
    ASSUME SettingsInv
    PROVE  Settings!ActiveKey \in Settings!Keys /\ Settings!ActiveKey = KeyOf(active)
BY KeysApart DEF SettingsInv, SettingsTyped, FilesTyped, Settings!ActiveKey, KeyOf

LEMMA StartRegisterStep ==
    ASSUME SettingsInv, NEW r \in Requests, Settings!Register(r) PROVE SettingsInv'
<1> DEFINE q    == req[r]
           todo == <<Settings!Update(q.project, "register", Settings!ActiveKey)>>
           new  == [q EXCEPT !.pc = "updating", !.todo = todo, !.then = "registered"]
<1>1. /\ q.pc = "handling" /\ q.kind = "register"
      /\ Settings!StartUpdates(r, todo, "registered")
      /\ UNCHANGED <<mapping, torn, active, global, cloud, want, created, mishaps>>
  BY DEF Settings!Register, Settings!Handles, Settings!At, Settings!files, Settings!observed
<1>2. /\ r \in Settings!Busy /\ q \in RequestRecord /\ RequestIsSound(q) /\ UnderWay(q)
      /\ q.project \in Settings!Keys
  BY <1>1, AtIsBusy DEF Settings!Pcs
<1>3. todo \in Seq(Changes) /\ "registered" \in Settings!Pcs
  BY <1>2, OneChange, ActiveKeyType DEF Settings!Pcs
<1>4. /\ \E k \in Settings!Keys : todo = <<Settings!Update(q.project, "register", k)>>
      /\ todo = <<Settings!Update(q.project, "register", KeyOf(active))>>
  BY ActiveKeyType
<1> HIDE DEF todo
<1>5. /\ new \in RequestRecord /\ new.pc = "updating" /\ new.todo = todo
      /\ new.then = "registered" /\ new.kind = q.kind /\ new.project = q.project
  BY <1>2, <1>3 DEF RequestRecord, Settings!Pcs
<1>6. /\ PlanIsSound(new)
      /\ InTurnSoFar => ProjectsStand(new, mapping, torn, active, cloud, created)
      /\ mishaps = {} => WishesStand(new, mapping, active, cloud, want)
  <2> HIDE DEF new
  <2>1. PlanIsSound(new)
    BY <1>1, <1>4, <1>5 DEF PlanIsSound
  <2>2. InTurnSoFar => ProjectsStand(new, mapping, torn, active, cloud, created)
    BY <1>1, <1>2, <1>4, <1>5, RequestAlone DEF ProjectsStand, UnderWay, Settings!Scoped
  <2>3. mishaps = {} => WishesStand(new, mapping, active, cloud, want)
    BY <1>1, <1>2, <1>5, RequestAlone DEF WishesStand
  <2>4. QED
    BY <2>1, <2>2, <2>3
<1>7. QED
  BY <1>1, <1>2, <1>3, <1>5, <1>6, StartUpdatesStep

LEMMA ActivateRegisteredStep ==
    ASSUME SettingsInv, NEW r \in Requests, Settings!ActivateRegistered(r) PROVE SettingsInv'
<1> DEFINE q   == req[r]
           new == [q EXCEPT !.pc = "settling"]
<1>1. /\ q.pc = "registered" /\ req' = [req EXCEPT ![r] = new] /\ active' = q.project
      /\ created' = created \cup {q.project}
      /\ UNCHANGED <<mapping, torn, global, cloud, want, mishaps>>
  BY DEF Settings!ActivateRegistered, Settings!At, Settings!Go
<1>2. /\ r \in Settings!Busy /\ q \in RequestRecord /\ RequestIsSound(q) /\ UnderWay(q)
      /\ q.project \in ProjectKeys /\ q.project \in Settings!Keys
  BY <1>1, AtIsBusy DEF Settings!Pcs
<1>3. /\ new \in RequestRecord /\ new.pc = "settling" /\ new.copy = q.copy
      /\ new.kind = q.kind /\ new.project = q.project
  BY <1>2 DEF RequestRecord, Settings!Pcs
<1> HIDE DEF new
<1>4. RequestIsSound(new) /\ q.kind = "register"
  BY <1>1, <1>2, <1>3 DEF RequestIsSound, UnderWay, Changing
<1>5. "partial_body" \notin SettingsEvents => OwnServers(mapping') /\ OwnServerAhead(new)
  BY <1>1, <1>3 DEF OwnServerAhead, Changing, SettingsInv, OwnStaysOwn
<1>6. InTurnSoFar => ProjectsStand(new, mapping', torn', active', cloud', created')
  BY <1>1, <1>2, <1>3, <1>4, RequestAlone, KeysApart
     DEF ProjectsStand, UnderWay, Changing, Settings!Scoped
<1>7. mishaps = {} => WishesStand(new, mapping', active', cloud', want')
  <2> SUFFICES ASSUME mishaps = {} PROVE WishesStand(new, mapping', active', cloud', want')
    OBVIOUS
  <2>1. q.project \in DOMAIN mapping
    BY <1>1, <1>2, RequestAlone DEF ProjectsStand, InTurnSoFar
  <2>2. QED
    BY <1>1, <1>2, <1>3, <2>1, RequestAlone DEF WishesStand, Changing
<1>8. FilesTyped'
  BY <1>1, <1>2, KeysApart DEF SettingsInv, SettingsTyped, FilesTyped
<1>9. QED
  BY <1>1, <1>2, <1>3, <1>4, <1>5, <1>6, <1>7, <1>8, RequestStep

LEMMA SettleRegisteredStep ==
    ASSUME SettingsInv, NEW r \in Requests, Settings!SettleRegistered(r) PROVE SettingsInv'
<1> DEFINE q      == req[r]
           p      == q.project
           sprint == Settings!EffectiveSprint(Settings!ActiveKey)
           scope  == Settings!CurrentScope(p)
           todo   == <<Settings!Update(p, "sprint", sprint), Settings!Update(p, "scope", scope)>>
           new    == [q EXCEPT !.pc = "updating", !.todo = todo, !.then = "done"]
<1>1. /\ q.pc = "settling" /\ Settings!StartUpdates(r, todo, "done")
      /\ UNCHANGED <<mapping, torn, active, global, cloud, want, created, mishaps>>
  BY DEF Settings!SettleRegistered, Settings!At, Settings!files, Settings!observed
<1>2. /\ r \in Settings!Busy /\ q \in RequestRecord /\ RequestIsSound(q) /\ UnderWay(q)
      /\ p \in ProjectKeys /\ p \in Settings!Keys
  BY <1>1, AtIsBusy DEF Settings!Pcs
<1>3. q.kind = "register"
  BY <1>1, <1>2 DEF RequestIsSound
<1>4. sprint \in Chosen /\ scope \in Chosen
  <2>1. \A k : /\ Settings!EntryOf(Settings!Content, k).scope \in Settings!Settings
               /\ Settings!EntryOf(Settings!Content, k).sprint \in Settings!Settings
    BY EntryOfType, ContentType DEF Settings!Entries
  <2>2. QED
    BY <2>1, OrDefaultType DEF Settings!CurrentScope, Settings!EffectiveSprint
<1>5. ASSUME mishaps = {}
      PROVE  want[p]["sprint"] \in {"unset", sprint} /\ want[p]["scope"] \in {"unset", scope}
  <2>1. /\ ~torn /\ p \in DOMAIN mapping /\ p = active
    BY <1>1, <1>2, <1>5, RequestAlone DEF ProjectsStand, InTurnSoFar, SettingsInv,
       SettingsTyped, FilesTyped
  <2>2. mapping \in Maps /\ want[p] \in [{"sprint", "scope"} -> Settings!Settings]
    BY <1>2 DEF SettingsInv, SettingsTyped, FilesTyped
  <2>3. Settings!EntryOf(Settings!Content, p) = mapping[p] /\ Settings!ActiveKey = p
    BY <1>2, <2>1, ContentType, KeysApart DEF Settings!EntryOf, Settings!ActiveKey
  <2>4. \A f \in Fields : want[p][f] # "unset" => mapping[p][f] = want[p][f]
    BY <1>2, <1>5, <2>1, RequestAlone DEF WishesStand
  <2>5. /\ want[p]["sprint"] # "unset" => mapping[p].sprint = want[p]["sprint"]
        /\ want[p]["scope"] # "unset" => mapping[p].scope = want[p]["scope"]
    BY <2>4 DEF Fields
  <2>6. mapping[p].sprint \in Settings!Settings /\ mapping[p].scope \in Settings!Settings
    BY <2>1, <2>2, MapsAre DEF Settings!Entries
  <2>7. /\ sprint = Settings!OrDefault(mapping[p].sprint)
        /\ scope = Settings!OrDefault(mapping[p].scope)
    BY <2>3 DEF Settings!CurrentScope, Settings!EffectiveSprint
  <2>8. QED
    BY <2>5, <2>6, <2>7, OrDefaultType
<1>6. todo \in Seq(Changes) /\ "done" \in Settings!Pcs
  BY <1>2, <1>4, TwoChanges DEF Settings!Pcs
<1>7. \E v, w \in Chosen : todo = <<Settings!Update(p, "sprint", v), Settings!Update(p, "scope", w)>>
  BY <1>4
<1>8. /\ DOMAIN todo = {1, 2}
      /\ todo[1].field = "sprint" /\ todo[1].value = sprint
      /\ todo[2].field = "scope" /\ todo[2].value = scope
  BY DEF Settings!Update
<1> HIDE DEF todo, sprint, scope
<1>9. /\ new \in RequestRecord /\ new.pc = "updating" /\ new.todo = todo /\ new.then = "done"
      /\ new.kind = q.kind /\ new.project = p
  BY <1>2, <1>6 DEF RequestRecord, Settings!Pcs
<1>10. /\ PlanIsSound(new)
       /\ InTurnSoFar => ProjectsStand(new, mapping, torn, active, cloud, created)
       /\ mishaps = {} => WishesStand(new, mapping, active, cloud, want)
  <2> HIDE DEF new
  <2>1. PlanIsSound(new)
    BY <1>3, <1>7, <1>9 DEF PlanIsSound
  <2>2. InTurnSoFar => ProjectsStand(new, mapping, torn, active, cloud, created)
    BY <1>1, <1>2, <1>3, <1>9, RequestAlone DEF ProjectsStand, UnderWay, Settings!Scoped
  <2>3. mishaps = {} => WishesStand(new, mapping, active, cloud, want)
    <3> SUFFICES ASSUME mishaps = {} PROVE WishesStand(new, mapping, active, cloud, want)
      OBVIOUS
    <3>1. \A i \in DOMAIN new.todo :
              want[new.project][new.todo[i].field] \in {"unset", new.todo[i].value}
      BY <1>5, <1>8, <1>9
    <3>2. QED
      BY <1>1, <1>2, <1>9, <3>1, RequestAlone DEF WishesStand
  <2>4. QED
    BY <2>1, <2>2, <2>3
<1>11. QED
  BY <1>1, <1>2, <1>6, <1>9, <1>10, StartUpdatesStep

LEMMA BuildSharePayloadStep ==
    ASSUME SettingsInv, NEW r \in Requests, Settings!BuildSharePayload(r) PROVE SettingsInv'
<1> DEFINE q     == req[r]
           p     == q.project
           entry == Settings!EntryOf(Settings!Content, p)
           new   == [q EXCEPT !.pc = "posting", !.payload = entry]
<1>1. /\ q.pc = "handling" /\ q.kind = "share"
      /\ IF p \in Settings!Listed THEN req' = [req EXCEPT ![r] = new]
         ELSE req' = [req EXCEPT ![r] = Settings!Answered(r)]
      /\ UNCHANGED <<mapping, torn, active, global, cloud, want, created, mishaps>>
  BY DEF Settings!BuildSharePayload, Settings!Handles, Settings!At, Settings!Answer,
     Settings!files, Settings!observed
<1>2. /\ r \in Settings!Busy /\ q \in RequestRecord /\ RequestIsSound(q) /\ UnderWay(q)
      /\ p \in ProjectKeys /\ p \in Settings!Keys
  BY <1>1, AtIsBusy DEF Settings!Pcs
<1>3. CASE p \notin Settings!Listed
  BY <1>1, <1>2, <1>3, RequestAnswered, GlobalStays
<1>4. CASE p \in Settings!Listed
  <2>1. entry \in Settings!Entries
    BY EntryOfType, ContentType
  <2>2. ASSUME InTurnSoFar
        PROVE  entry = Settings!EntryOf(mapping, p) /\ p \in DOMAIN mapping \cup {active}
    <3>1. ~torn
      BY <1>1, <1>2, <2>2, RequestAlone DEF ProjectsStand, SettingsInv, SettingsTyped, FilesTyped
    <3>2. Settings!Content = mapping
      BY <3>1, ContentType
    <3>3. QED
      BY <1>4, <3>2 DEF Settings!Listed
  <2> HIDE DEF entry
  <2>3. /\ new \in RequestRecord /\ new.pc = "posting" /\ new.payload = entry
        /\ new.kind = q.kind /\ new.project = p /\ new.copy = q.copy
    BY <1>2, <2>1 DEF RequestRecord, Settings!Pcs
  <2>4. req' = [req EXCEPT ![r] = new]
    BY <1>1, <1>4
  <2> HIDE DEF new
  <2>5. RequestIsSound(new)
    BY <1>1, <1>2, <2>3 DEF RequestIsSound, UnderWay, Changing
  <2>6. "partial_body" \notin SettingsEvents => OwnServerAhead(new)
    BY <2>3 DEF OwnServerAhead, Changing, SettingsInv, OwnStaysOwn
  <2>7. InTurnSoFar => ProjectsStand(new, mapping, torn, active, cloud, created)
    BY <1>1, <1>2, <2>2, <2>3, RequestAlone DEF ProjectsStand, Changing
  <2>8. mishaps = {} => WishesStand(new, mapping, active, cloud, want)
    BY <1>1, <1>2, <2>2, <2>3, RequestAlone DEF WishesStand, Changing, InTurnSoFar
  <2>9. QED
    BY <1>1, <1>2, <2>3, <2>4, <2>5, <2>6, <2>7, <2>8, RequestGoesOn, GlobalStays
<1>5. QED
  BY <1>3, <1>4

LEMMA PostSharedStep ==
    ASSUME SettingsInv, NEW r \in Requests, Settings!PostShared(r) PROVE SettingsInv'
<1> DEFINE q      == req[r]
           p      == q.project
           posted == [q EXCEPT !.pc = "finalizing"]
<1>1. /\ q.pc = "posting" /\ cloud' = Settings!With(cloud, p, q.payload)
      /\ \/ req' = [req EXCEPT ![r] = posted]
         \/ req' = [req EXCEPT ![r] = Settings!Answered(r)]
      /\ UNCHANGED <<mapping, torn, active, global, want, created, mishaps>>
  BY DEF Settings!PostShared, Settings!At, Settings!Go, Settings!Answer, Settings!observed
<1>2. /\ r \in Settings!Busy /\ q \in RequestRecord /\ RequestIsSound(q) /\ UnderWay(q)
      /\ p \in ProjectKeys /\ p \in Settings!Keys /\ q.payload \in Settings!Entries
  BY <1>1, AtIsBusy DEF Settings!Pcs, RequestRecord
<1>3. /\ cloud' \in Maps /\ DOMAIN cloud' = DOMAIN cloud \cup {p}
      /\ \A k \in DOMAIN cloud \cup {p} : cloud'[k] = IF k = p THEN q.payload ELSE cloud[k]
  <2>1. cloud \in Maps
    BY DEF SettingsInv, SettingsTyped, FilesTyped
  <2>2. PICK map \in Maps, k \in Settings!Keys, e \in Settings!Entries :
            map = cloud /\ k = p /\ e = q.payload
    BY <1>2, <2>1
  <2> DEFINE wider == Settings!With(map, k, e)
  <2>3. /\ wider \in Maps /\ DOMAIN wider = DOMAIN map \cup {k}
        /\ wider[k] = e /\ \A m \in DOMAIN map \ {k} : wider[m] = map[m]
    BY WithType
  <2>4. cloud' = wider
    BY <1>1, <2>2
  <2> HIDE DEF wider
  <2>5. QED
    BY <2>2, <2>3, <2>4
<1>4. /\ posted \in RequestRecord /\ posted.pc = "finalizing"
      /\ posted.kind = q.kind /\ posted.project = p /\ posted.copy = q.copy
  BY <1>2 DEF RequestRecord, Settings!Pcs
<1> HIDE DEF posted
<1>5. PICK new \in RequestRecord :
          /\ req' = [req EXCEPT ![r] = new]
          /\ \/ new = posted
             \/ new.pc = "done" /\ RequestIsSound(new) /\ OwnServerAhead(new)
  BY <1>1, <1>4, AnsweredType
<1>6. new = posted \/ new.pc = "done"
  BY <1>5
<1>7. RequestIsSound(new) /\ q.kind = "share"
  BY <1>1, <1>2, <1>4, <1>5 DEF RequestIsSound, UnderWay, Changing
<1>8. "partial_body" \notin SettingsEvents => OwnServers(mapping') /\ OwnServerAhead(new)
  BY <1>1, <1>4, <1>5 DEF OwnServerAhead, Changing, SettingsInv, OwnStaysOwn
<1>9. InTurnSoFar => ProjectsStand(new, mapping', torn', active', cloud', created')
  BY <1>1, <1>2, <1>3, <1>4, <1>6, <1>7, RequestAlone
     DEF ProjectsStand, UnderWay, Changing, Settings!Scoped
<1>10. mishaps = {} => WishesStand(new, mapping', active', cloud', want')
  <2> SUFFICES ASSUME mishaps = {} PROVE WishesStand(new, mapping', active', cloud', want')
    OBVIOUS
  <2>1. /\ ProjectsStand(q, mapping, torn, active, cloud, created)
        /\ WishesStand(q, mapping, active, cloud, want)
    BY <1>2, RequestAlone DEF InTurnSoFar
  <2>2. p \notin DOMAIN mapping => want[p] = Settings!Unwanted
    BY <1>1, <1>2, <2>1 DEF ProjectsStand, WishesStand
  <2>3. \A f \in Fields : Settings!Unwanted[f] = "unset"
    BY DEF Settings!Unwanted, Fields
  <2>4. p \in DOMAIN mapping => q.payload = mapping[p]
    BY <1>1, <2>1 DEF WishesStand, Settings!EntryOf
  <2>5. \A k \in Settings!Keys, f \in Fields : want[k][f] # "unset" =>
            IF k \in DOMAIN mapping THEN mapping[k][f] = want[k][f]
            ELSE k \in DOMAIN cloud' /\ cloud'[k][f] = want[k][f]
    BY <1>3, <2>1, <2>2, <2>3 DEF WishesStand
  <2>6. p \in DOMAIN mapping => cloud'[p] = mapping[p]
    BY <1>3, <2>4
  <2>7. /\ want[Default] = Settings!Unwanted
        /\ active \in Settings!Keys \ DOMAIN mapping => want[active] = Settings!Unwanted
    BY <1>1, <2>1 DEF WishesStand
  <2>8. new.pc \in {"finalizing", "done"} /\ (new.pc = "finalizing" => new.project = p)
    BY <1>4, <1>6
  <2>9. QED
    BY <1>1, <2>5, <2>6, <2>7, <2>8 DEF WishesStand, Changing
<1>11. FilesTyped'
  BY <1>1, <1>3 DEF SettingsInv, SettingsTyped, FilesTyped
<1>12. new.pc # "idle"
  BY <1>4, <1>6
<1>13. QED
  BY <1>1, <1>2, <1>5, <1>7, <1>8, <1>9, <1>10, <1>11, <1>12, RequestStep

LEMMA RemoveProjectStep ==
    ASSUME SettingsInv, NEW r \in Requests, Settings!RemoveProject(r) PROVE SettingsInv'
<1> DEFINE q    == req[r]
           p    == q.project
           todo == <<Settings!Update(p, "remove", p)>>
           removing == [q EXCEPT !.pc = "updating", !.todo = todo, !.then = "unlisting"]
           leaving  == [q EXCEPT !.pc = "unlisting"]
<1>1. /\ q.pc = "finalizing"
      /\ IF p \in DOMAIN Settings!Content THEN Settings!StartUpdates(r, todo, "unlisting")
         ELSE req' = [req EXCEPT ![r] = leaving]
      /\ UNCHANGED <<mapping, torn, active, global, cloud, want, created, mishaps>>
  BY DEF Settings!RemoveProject, Settings!At, Settings!Go, Settings!files, Settings!observed
<1>2. /\ r \in Settings!Busy /\ q \in RequestRecord /\ RequestIsSound(q) /\ UnderWay(q)
      /\ p \in ProjectKeys /\ p \in Settings!Keys
  BY <1>1, AtIsBusy DEF Settings!Pcs
<1>3. q.kind = "share"
  BY <1>1, <1>2 DEF RequestIsSound
<1>4. CASE p \in DOMAIN Settings!Content
  <2>1. todo \in Seq(Changes) /\ "unlisting" \in Settings!Pcs
    BY <1>2, OneChange DEF Settings!Pcs
  <2>2. todo = <<Settings!Update(p, "remove", p)>>
    OBVIOUS
  <2> HIDE DEF todo
  <2>3. /\ removing \in RequestRecord /\ removing.pc = "updating" /\ removing.todo = todo
        /\ removing.then = "unlisting" /\ removing.kind = q.kind /\ removing.project = p
    BY <1>2, <2>1 DEF RequestRecord, Settings!Pcs
  <2>4. /\ PlanIsSound(removing)
        /\ InTurnSoFar => ProjectsStand(removing, mapping, torn, active, cloud, created)
        /\ mishaps = {} => WishesStand(removing, mapping, active, cloud, want)
    <3> HIDE DEF removing
    <3>1. PlanIsSound(removing)
      BY <1>3, <2>2, <2>3 DEF PlanIsSound
    <3>2. InTurnSoFar => ProjectsStand(removing, mapping, torn, active, cloud, created)
      BY <1>1, <1>2, <1>3, <2>3, RequestAlone DEF ProjectsStand, UnderWay, Settings!Scoped
    <3>3. mishaps = {} => WishesStand(removing, mapping, active, cloud, want)
      BY <1>1, <1>2, <2>3, RequestAlone DEF WishesStand
    <3>4. QED
      BY <3>1, <3>2, <3>3
  <2>5. QED
    BY <1>1, <1>2, <1>4, <2>1, <2>3, <2>4, StartUpdatesStep
<1>5. CASE p \notin DOMAIN Settings!Content
  <2>1. /\ leaving \in RequestRecord /\ leaving.pc = "unlisting"
        /\ leaving.kind = q.kind /\ leaving.project = p /\ leaving.copy = q.copy
    BY <1>2 DEF RequestRecord, Settings!Pcs
  <2>2. req' = [req EXCEPT ![r] = leaving]
    BY <1>1, <1>5
  <2> HIDE DEF leaving
  <2>3. RequestIsSound(leaving)
    BY <1>2, <1>3, <2>1 DEF RequestIsSound, UnderWay, Changing
  <2>4. "partial_body" \notin SettingsEvents => OwnServerAhead(leaving)
    BY <2>1 DEF OwnServerAhead, Changing, SettingsInv, OwnStaysOwn
  <2>5. InTurnSoFar => ProjectsStand(leaving, mapping, torn, active, cloud, created)
    BY <1>1, <1>2, <1>3, <2>1, RequestAlone DEF ProjectsStand, UnderWay, Changing, Settings!Scoped
  <2>6. mishaps = {} => WishesStand(leaving, mapping, active, cloud, want)
    BY <1>1, <1>2, <2>1, RequestAlone DEF WishesStand, Changing
  <2>7. QED
    BY <1>1, <1>2, <2>1, <2>2, <2>3, <2>4, <2>5, <2>6, RequestGoesOn, GlobalStays
<1>6. QED
  BY <1>4, <1>5

LEMMA DeactivateProjectStep ==
    ASSUME SettingsInv, NEW r \in Requests, Settings!Deactivate(r) PROVE SettingsInv'
<1> DEFINE q   == req[r]
           new == [q EXCEPT !.pc = "reactivating"]
<1>1. /\ q.pc = "unlisting"
      /\ IF active = q.project THEN active' = Nobody /\ req' = [req EXCEPT ![r] = new]
         ELSE active' = active /\ req' = [req EXCEPT ![r] = Settings!Answered(r)]
      /\ UNCHANGED <<mapping, torn, global, cloud, want, created, mishaps>>
  BY DEF Settings!Deactivate, Settings!At, Settings!Go, Settings!Answer, Settings!observed
<1>2. /\ r \in Settings!Busy /\ q \in RequestRecord /\ RequestIsSound(q) /\ UnderWay(q)
      /\ q.project \in ProjectKeys /\ q.project \in Settings!Keys
  BY <1>1, AtIsBusy DEF Settings!Pcs
<1>3. CASE active # q.project
  BY <1>1, <1>2, <1>3, RequestAnswered, GlobalStays
<1>4. CASE active = q.project
  <2>1. /\ new \in RequestRecord /\ new.pc = "reactivating"
        /\ new.kind = q.kind /\ new.project = q.project /\ new.copy = q.copy
    BY <1>2 DEF RequestRecord, Settings!Pcs
  <2>2. req' = [req EXCEPT ![r] = new] /\ active' = Nobody
    BY <1>1, <1>4
  <2> HIDE DEF new
  <2>3. RequestIsSound(new) /\ q.kind = "share"
    BY <1>1, <1>2, <2>1 DEF RequestIsSound, UnderWay, Changing
  <2>4. "partial_body" \notin SettingsEvents => OwnServers(mapping') /\ OwnServerAhead(new)
    BY <1>1, <2>1 DEF OwnServerAhead, Changing, SettingsInv, OwnStaysOwn
  <2>5. InTurnSoFar => ProjectsStand(new, mapping', torn', active', cloud', created')
    BY <1>1, <1>2, <1>4, <2>1, <2>2, <2>3, RequestAlone
       DEF ProjectsStand, UnderWay, Changing, Settings!Scoped
  <2>6. mishaps = {} => WishesStand(new, mapping', active', cloud', want')
    BY <1>1, <1>2, <2>1, <2>2, RequestAlone, KeysApart DEF WishesStand, Changing
  <2>7. FilesTyped'
    BY <1>1, <2>2, KeysApart DEF SettingsInv, SettingsTyped, FilesTyped
  <2>8. QED
    BY <1>1, <1>2, <2>1, <2>2, <2>3, <2>4, <2>5, <2>6, <2>7, RequestStep
<1>5. QED
  BY <1>3, <1>4

LEMMA ReactivateStep ==
    ASSUME SettingsInv, NEW r \in Requests, Settings!Reactivate(r) PROVE SettingsInv'
<1> DEFINE q   == req[r]
           new == Settings!Answered(r)
<1>1. /\ q.pc = "reactivating" /\ req' = [req EXCEPT ![r] = new]
      /\ active' = active \/ active' \in Settings!Listed
      /\ UNCHANGED <<mapping, torn, global, cloud, want, created, mishaps>>
  BY DEF Settings!Reactivate, Settings!At, Settings!Answer, Settings!observed
<1>2. r \in Settings!Busy
  BY <1>1, AtIsBusy DEF Settings!Pcs
<1>3. new \in RequestRecord /\ new.pc = "done" /\ RequestIsSound(new) /\ OwnServerAhead(new)
  BY AnsweredType
<1> HIDE DEF new
<1>4. "partial_body" \notin SettingsEvents => OwnServers(mapping') /\ OwnServerAhead(new)
  BY <1>1, <1>3 DEF SettingsInv, OwnStaysOwn
<1>5. ASSUME InTurnSoFar
      PROVE  /\ active = Nobody /\ active' \in DOMAIN mapping \cup {Nobody}
             /\ ProjectsStand(q, mapping, torn, active, cloud, created) /\ ~torn
  <2>1. /\ active = Nobody /\ ~torn
        /\ ProjectsStand(q, mapping, torn, active, cloud, created)
    BY <1>1, <1>2, <1>5, RequestAlone DEF ProjectsStand, SettingsInv, SettingsTyped, FilesTyped
  <2>2. Settings!Listed = DOMAIN mapping
    BY <2>1, ContentType DEF Settings!Listed
  <2>3. QED
    BY <1>1, <2>1, <2>2
<1>6. InTurnSoFar => ProjectsStand(new, mapping', torn', active', cloud', created')
  BY <1>1, <1>3, <1>5 DEF ProjectsStand, UnderWay, Changing
<1>7. mishaps = {} => WishesStand(new, mapping', active', cloud', want')
  <2> SUFFICES ASSUME mishaps = {} PROVE WishesStand(new, mapping', active', cloud', want')
    OBVIOUS
  <2>1. active' \notin Settings!Keys \ DOMAIN mapping
    BY <1>5, KeysApart DEF InTurnSoFar
  <2>2. QED
    BY <1>1, <1>2, <1>3, <2>1, RequestAlone DEF WishesStand, Changing
<1>8. FilesTyped'
  <2>1. Settings!Listed \subseteq Settings!Owners
    BY MapsAre, ContentType, KeysApart
       DEF Settings!Listed, SettingsInv, SettingsTyped, FilesTyped
  <2>2. QED
    BY <1>1, <2>1 DEF SettingsInv, SettingsTyped, FilesTyped
<1>9. QED
  BY <1>1, <1>2, <1>3, <1>4, <1>6, <1>7, <1>8, RequestStep

-----------------------------------------------------------------------------
(* The mapping is written. *)

Changed(map, p, field, value) == Settings!Updated(map, Settings!Update(p, field, value))

LEMMA ChangedField ==
    ASSUME NEW map \in Maps, NEW p \in Settings!Keys, NEW field \in {"sprint", "scope", "config"},
           NEW value
    PROVE  Changed(map, p, field, value) =
               Settings!With(map, p, [Settings!EntryOf(map, p) EXCEPT ![field] = value])
<1> DEFINE wider == Settings!With(map, p, [Settings!EntryOf(map, p) EXCEPT ![field] = value])
           u     == Settings!Update(p, field, value)
<1>1. u.project = p /\ u.field = field /\ u.value = value
  BY DEF Settings!Update
<1>2. u.field # "register" /\ u.field # "remove"
  BY <1>1
<1>3. Settings!SetField(map, u) = wider
  BY <1>1 DEF Settings!SetField
<1> HIDE DEF wider, u
<1>4. Settings!Updated(map, u) = wider
  BY <1>2, <1>3, Zenon DEF Settings!Updated
<1>5. QED
  BY <1>4 DEF Changed, u, wider

\* A mapping as another one, with one setting of one project.
FieldSet(map, m, p, field, value) ==
    /\ DOMAIN m = DOMAIN map \cup {p} /\ \A k \in DOMAIN map \ {p} : m[k] = map[k]
    /\ m[p][field] = value /\ m[p].config = Settings!EntryOf(map, p).config
    /\ \A f \in Fields : f # field => m[p][f] = Settings!EntryOf(map, p)[f]

LEMMA SetFieldType ==
    ASSUME NEW map \in Maps, NEW p \in Settings!Keys, NEW field \in Fields, NEW value \in Chosen
    PROVE  \E m \in Maps :
              m = Changed(map, p, field, value) /\ FieldSet(map, m, p, field, value)
<1> DEFINE old == Settings!EntryOf(map, p)
           new == [old EXCEPT ![field] = value]
           m   == Settings!With(map, p, new)
<1>1. m = Changed(map, p, field, value)
  BY ChangedField DEF Fields
<1>2. old \in Settings!Entries
  BY EntryOfType
<1> HIDE DEF old
<1>3. /\ new \in Settings!Entries /\ new[field] = value /\ new.config = old.config
      /\ \A f \in Fields : f # field => new[f] = old[f]
  BY <1>2 DEF Fields, Chosen, Settings!Entries, Settings!Settings
<1> HIDE DEF new
<1>4. /\ m \in Maps /\ DOMAIN m = DOMAIN map \cup {p}
      /\ m[p] = new /\ \A k \in DOMAIN map \ {p} : m[k] = map[k]
  BY <1>3, WithType
<1> HIDE DEF m
<1>5. QED
  BY <1>1, <1>3, <1>4 DEF old, FieldSet

LEMMA SetServerType ==
    ASSUME NEW map \in Maps, NEW p \in Settings!Keys, NEW value \in Settings!Configs
    PROVE  \E m \in Maps :
              /\ m = Changed(map, p, "config", value)
              /\ DOMAIN m = DOMAIN map \cup {p} /\ \A k \in DOMAIN map \ {p} : m[k] = map[k]
              /\ m[p].config = value
              /\ \A f \in Fields : m[p][f] = Settings!EntryOf(map, p)[f]
<1> DEFINE old == Settings!EntryOf(map, p)
           new == [old EXCEPT !.config = value]
           m   == Settings!With(map, p, new)
<1>1. m = Changed(map, p, "config", value)
  BY ChangedField
<1>2. old \in Settings!Entries
  BY EntryOfType
<1> HIDE DEF old
<1>3. /\ new \in Settings!Entries /\ new.config = value
      /\ \A f \in Fields : new[f] = old[f]
  BY <1>2 DEF Fields, Settings!Entries
<1> HIDE DEF new
<1>4. /\ m \in Maps /\ DOMAIN m = DOMAIN map \cup {p}
      /\ m[p] = new /\ \A k \in DOMAIN map \ {p} : m[k] = map[k]
  BY <1>3, WithType
<1> HIDE DEF m
<1>5. QED
  BY <1>1, <1>3, <1>4 DEF old

LEMMA RegisteredType ==
    ASSUME NEW map \in Maps, NEW p \in Settings!Keys, NEW k \in Settings!Keys
    PROVE  \E m \in Maps : /\ m = Changed(map, p, "register", k)
                           /\ DOMAIN m = DOMAIN map \cup {p, k}
                           /\ \A j \in DOMAIN m : m[j] = Settings!EntryOf(map, j)
<1> DEFINE m == Settings!RegisterIn(map, p, k)
<1>1. m = Changed(map, p, "register", k)
  BY DEF Changed, Settings!Updated, Settings!Update
<1>2. /\ m \in Maps /\ DOMAIN m = DOMAIN map \cup {p, k}
      /\ \A j \in DOMAIN map \cup {p, k} : m[j] = Settings!EntryOf(map, j)
  BY RegisterType
<1> HIDE DEF m
<1>3. QED
  BY <1>1, <1>2

LEMMA RemovedType ==
    ASSUME NEW map \in Maps, NEW p \in Settings!Keys
    PROVE  \E m \in Maps : /\ m = Changed(map, p, "remove", p)
                           /\ DOMAIN m = DOMAIN map \ {p}
                           /\ \A j \in DOMAIN m : m[j] = map[j]
<1> DEFINE m == Settings!Without(map, p)
<1>1. m = Changed(map, p, "remove", p)
  BY DEF Changed, Settings!Updated, Settings!Update
<1>2. /\ m \in Maps /\ DOMAIN m = DOMAIN map \ {p}
      /\ \A j \in DOMAIN map \ {p} : m[j] = map[j]
  BY WithoutType
<1> HIDE DEF m
<1>3. QED
  BY <1>1, <1>2

\* A request writes what it has read with the first of its changes, and goes on as new.
Writes(r, p, map, field, value, rest, new) ==
    /\ p = req[r].project /\ map = req[r].copy /\ torn' = FALSE
    /\ mapping' = Changed(map, p, field, value)
    /\ UNCHANGED <<active, global, cloud, created, mishaps>>
    /\ want' = IF req[r].kind = "put" /\ field # "config" THEN [want EXCEPT ![p][field] = value]
               ELSE IF field = "register" /\ p \notin DOMAIN map
                    THEN [want EXCEPT ![p] = Settings!Unwanted] ELSE want
    /\ req' = [req EXCEPT ![r] = new]
    /\ new.pc = IF rest = <<>> THEN req[r].then ELSE "updating"
    /\ new.copy = Settings!Empty
    /\ new.pc # "done" => /\ new.kind = req[r].kind /\ new.project = p /\ new.todo = rest
                          /\ new.then = req[r].then /\ new.config = req[r].config

\* A request that is about to write.
Open(r, p, map) ==
    /\ req[r].pc = "open" /\ r \in Settings!Busy /\ UnderWay(req[r])
    /\ req[r] \in RequestRecord /\ RequestIsSound(req[r])
    /\ p = req[r].project /\ p \in ProjectKeys /\ p # Default /\ map = req[r].copy
    /\ InTurnSoFar => map = mapping

LEMMA WriteChanges ==
    ASSUME SettingsInv, NEW r \in Requests, Settings!WriteMapping(r),
           NEW p \in Settings!Keys, p = req[r].project,
           NEW field, NEW value, NEW rest \in Seq(Changes),
           Head(req[r].todo) = Settings!Update(p, field, value), Tail(req[r].todo) = rest
    PROVE  \E map \in Maps, new \in RequestRecord :
              Open(r, p, map) /\ Writes(r, p, map, field, value, rest, new)
<1> DEFINE q    == req[r]
           map  == q.copy
           u    == Head(q.todo)
           next == IF rest = <<>> THEN q.then ELSE "updating"
           on   == [q EXCEPT !.pc = next, !.todo = rest, !.copy = Settings!Empty]
<1>1. /\ q.pc = "open" /\ torn' = FALSE /\ mapping' = Settings!Updated(map, u)
      /\ IF next = "done" THEN req' = [req EXCEPT ![r] = Settings!Answered(r)]
         ELSE req' = [req EXCEPT ![r] = on]
      /\ want' = Settings!Wanted(r, u)
      /\ UNCHANGED <<active, global, cloud, created, mishaps>>
  BY DEF Settings!WriteMapping, Settings!At, Settings!Answer
<1>2. /\ r \in Settings!Busy /\ UnderWay(q) /\ q \in RequestRecord /\ RequestIsSound(q)
      /\ p \in ProjectKeys
  BY <1>1, AtIsBusy DEF Settings!Pcs
<1>3. map \in Maps /\ q.then \in Settings!Pcs
  BY <1>2 DEF RequestRecord
<1>4. u.project = p /\ u.field = field /\ u.value = value
  BY DEF Settings!Update
<1>5. want' = IF q.kind = "put" /\ field # "config" THEN [want EXCEPT ![p][field] = value]
              ELSE IF field = "register" /\ p \notin DOMAIN map
                   THEN [want EXCEPT ![p] = Settings!Unwanted] ELSE want
  BY <1>1, <1>4 DEF Settings!Wanted
<1>6. mapping' = Changed(map, p, field, value)
  BY <1>1 DEF Changed
<1>7. InTurnSoFar => map = mapping
  BY <1>1, <1>2, RequestAlone DEF ProjectsStand
<1>8. next \in Settings!Pcs
  BY <1>3 DEF Settings!Pcs
<1> HIDE DEF next
<1>9. /\ on \in RequestRecord /\ on.pc = next /\ on.copy = Settings!Empty
      /\ on.kind = q.kind /\ on.project = p /\ on.todo = rest
      /\ on.then = q.then /\ on.config = q.config
  BY <1>2, <1>8, EmptyType DEF RequestRecord
<1> HIDE DEF on
<1>10. PICK new \in RequestRecord :
           /\ req' = [req EXCEPT ![r] = new] /\ new.pc = next /\ new.copy = Settings!Empty
           /\ new.pc # "done" => /\ new.kind = q.kind /\ new.project = p
                                 /\ new.todo = rest /\ new.then = q.then
                                 /\ new.config = q.config
  <2>1. CASE next = "done"
    BY <1>1, <2>1, AnsweredType
  <2>2. CASE next # "done"
    BY <1>1, <1>9, <2>2
  <2>3. QED
    BY <2>1, <2>2
<1>11. Writes(r, p, map, field, value, rest, new)
  BY <1>1, <1>5, <1>6, <1>10 DEF Writes, next
<1>12. Open(r, p, map)
  BY <1>1, <1>2, <1>7, KeysApart DEF Open
<1> HIDE DEF map
<1>13. QED
  BY <1>3, <1>11, <1>12 DEF map

LEMMA OwnEmpty == OwnServers(Settings!Empty)
BY EmptyType DEF OwnServers

\* A request that has written one of its changes: what is left to show of it.
LEMMA WrittenStep ==
    ASSUME SettingsInv, NEW r \in Requests, NEW p \in Settings!Keys, NEW map \in Maps,
           NEW new \in RequestRecord, NEW field, NEW value, NEW rest, Open(r, p, map),
           Writes(r, p, map, field, value, rest, new), mapping' \in Maps,
           want' \in [Settings!Keys -> [{"sprint", "scope"} -> Settings!Settings]],
           new.pc # "idle", RequestIsSound(new),
           "partial_body" \notin SettingsEvents =>
               OwnServers(mapping') /\ (Changing(new) => new.then # "saving"),
           InTurnSoFar => ProjectsStand(new, mapping', FALSE, active, cloud, created),
           mishaps = {} => WishesStand(new, mapping', active, cloud, want')
    PROVE  SettingsInv'
<1>1. /\ torn' = FALSE /\ UNCHANGED <<active, global, cloud, created, mishaps>>
      /\ req' = [req EXCEPT ![r] = new] /\ new.copy = Settings!Empty /\ r \in Settings!Busy
  BY DEF Writes, Open
<1>2. FilesTyped'
  BY <1>1 DEF SettingsInv, SettingsTyped, FilesTyped
<1>3. "partial_body" \notin SettingsEvents => OwnServers(mapping') /\ OwnServerAhead(new)
  BY <1>1, OwnEmpty DEF OwnServerAhead
<1>4. QED
  BY <1>1, <1>2, <1>3, RequestStep

\* What holds of a request that is about to write, and of the servers of its copy.
LEMMA OpenIsSound ==
    ASSUME SettingsInv, NEW r \in Requests, NEW p \in Settings!Keys, NEW map \in Maps,
           Open(r, p, map)
    PROVE  /\ "partial_body" \notin SettingsEvents => OwnServers(map) /\ OwnServerAhead(req[r])
           /\ InTurnSoFar => ProjectsStand(req[r], map, TRUE, active, cloud, created)
           /\ mishaps = {} => WishesStand(req[r], map, active, cloud, want)
           /\ want \in [Settings!Keys -> [{"sprint", "scope"} -> Settings!Settings]]
<1>1. /\ r \in Settings!Busy /\ req[r].pc = "open" /\ map = req[r].copy
      /\ InTurnSoFar => map = mapping
  BY DEF Open
<1>2. "partial_body" \notin SettingsEvents => OwnServers(map) /\ OwnServerAhead(req[r])
  BY <1>1 DEF SettingsInv, OwnStaysOwn, OwnServerAhead
<1>3. InTurnSoFar => ProjectsStand(req[r], map, TRUE, active, cloud, created)
  BY <1>1, RequestAlone DEF ProjectsStand
<1>4. mishaps = {} => WishesStand(req[r], map, active, cloud, want)
  BY <1>1, RequestAlone DEF InTurnSoFar
<1>5. QED
  BY <1>2, <1>3, <1>4 DEF SettingsInv, SettingsTyped, FilesTyped

LEMMA WriteServerStep ==
    ASSUME SettingsInv, NEW r \in Requests, Settings!WriteMapping(r),
           req[r].pc = "open", req[r].kind \in Settings!Scoped, req[r].then = "saving",
           req[r].todo = <<Settings!Update(req[r].project, "config", req[r].config)>>
    PROVE  SettingsInv'
<1>1. req[r].project \in Settings!Keys /\ req[r].config \in Settings!Configs
  BY AtIsBusy DEF Settings!Pcs, RequestRecord
<1>2. PICK p \in Settings!Keys, value \in Settings!Configs :
          p = req[r].project /\ value = req[r].config
  BY <1>1
<1>3. /\ Head(req[r].todo) = Settings!Update(p, "config", value)
      /\ Tail(req[r].todo) = <<>> /\ <<>> \in Seq(Changes)
  BY <1>2
<1>4. PICK map \in Maps, new \in RequestRecord :
          Open(r, p, map) /\ Writes(r, p, map, "config", value, <<>>, new)
  BY <1>2, <1>3, WriteChanges
<1>5. /\ req[r].kind \in Settings!Scoped /\ new.pc = "saving" /\ new.kind = req[r].kind
      /\ new.project = p /\ p \in ProjectKeys /\ p # Default /\ want' = want
      /\ mapping' = Changed(map, p, "config", value)
  BY <1>4 DEF Open, Writes
<1>6. PICK m \in Maps :
          /\ m = Changed(map, p, "config", value)
          /\ DOMAIN m = DOMAIN map \cup {p} /\ \A k \in DOMAIN map \ {p} : m[k] = map[k]
          /\ m[p].config = value
          /\ \A f \in Fields : m[p][f] = Settings!EntryOf(map, p)[f]
  BY SetServerType
<1>7. mapping' = m
  BY <1>5, <1>6
<1>8. RequestIsSound(new)
  BY <1>5 DEF RequestIsSound, UnderWay, Changing
<1>9. "partial_body" \notin SettingsEvents =>
          OwnServers(mapping') /\ (Changing(new) => new.then # "saving")
  <2> SUFFICES ASSUME "partial_body" \notin SettingsEvents PROVE OwnServers(mapping')
    BY <1>5 DEF Changing
  <2>1. OwnServers(map) /\ value = [address |-> p, env |-> p]
    BY <1>2, <1>4, OpenIsSound DEF OwnServerAhead, Changing
  <2>2. QED
    BY <1>6, <1>7, <2>1 DEF OwnServers
<1>10. ASSUME InTurnSoFar
       PROVE  ProjectsStand(new, mapping', FALSE, active, cloud, created)
              /\ p \in DOMAIN map \cup {active}
  <2>1. ProjectsStand(req[r], map, TRUE, active, cloud, created) /\ UnderWay(req[r])
    BY <1>4, <1>10, OpenIsSound DEF Open
  <2>2. p \in DOMAIN map \cup {active}
    BY <1>2, <1>5, <2>1 DEF ProjectsStand
  <2>3. QED
    BY <1>5, <1>6, <1>7, <2>1, <2>2 DEF ProjectsStand, UnderWay, Changing, Settings!Scoped
<1>11. mishaps = {} => WishesStand(new, mapping', active, cloud, want')
  <2> SUFFICES ASSUME mishaps = {} PROVE WishesStand(new, mapping', active, cloud, want')
    OBVIOUS
  <2>1. WishesStand(req[r], map, active, cloud, want) /\ p \in DOMAIN map \cup {active}
    BY <1>4, <1>10, OpenIsSound DEF InTurnSoFar
  <2>2. p \notin DOMAIN map => want[p] = Settings!Unwanted
    BY <2>1 DEF WishesStand
  <2>3. \A f \in Fields : Settings!Unwanted[f] = "unset" /\ f # "config"
    BY DEF Settings!Unwanted, Fields
  <2>4. \A f \in Fields : want[p][f] # "unset" => m[p][f] = want[p][f]
    BY <1>6, <2>1, <2>2, <2>3 DEF WishesStand, Settings!EntryOf
  <2>5. \A k \in Settings!Keys, f \in Fields : want[k][f] # "unset" =>
            IF k \in DOMAIN m THEN m[k][f] = want[k][f]
            ELSE k \in DOMAIN cloud /\ cloud[k][f] = want[k][f]
    BY <1>6, <2>1, <2>4 DEF WishesStand
  <2>6. QED
    BY <1>5, <1>6, <1>7, <2>1, <2>5 DEF WishesStand, Changing
<1>12. QED
  BY <1>4, <1>5, <1>6, <1>7, <1>8, <1>9, <1>10, <1>11, OpenIsSound, WrittenStep

LEMMA OwnEntry ==
    ASSUME NEW map, OwnServers(map), NEW p
    PROVE  Settings!EntryOf(map, p).config \in {Settings!NoConfig, [address |-> p, env |-> p]}
<1>1. Settings!Blank.config = Settings!NoConfig
  BY DEF Settings!Blank
<1>2. QED
  BY <1>1 DEF OwnServers, Settings!EntryOf

LEMMA NothingWanted == \A f \in Fields : Settings!Unwanted[f] = "unset"
BY DEF Settings!Unwanted, Fields

\* The setting that is written, and what is left: nothing, or the scope.
ToSet(todo, p, field, value, rest) ==
    \/ todo = <<Settings!Update(p, field, value)>> /\ rest = <<>>
    \/ \E w \in Chosen :
          /\ rest = <<Settings!Update(p, "scope", w)>>
          /\ todo = <<Settings!Update(p, field, value), Settings!Update(p, "scope", w)>>

\* A PUT, or a registration that settles: the sprint and then the scope, or the scope.
LEMMA WriteSettingStep ==
    ASSUME SettingsInv, NEW r \in Requests, Settings!WriteMapping(r),
           req[r].pc = "open", req[r].kind \in {"put", "register"}, req[r].then = "done",
           NEW p \in Settings!Keys, p = req[r].project, NEW field \in Fields, NEW value \in Chosen,
           NEW rest \in Seq(Changes),
           ToSet(req[r].todo, p, field, value, rest)
    PROVE  SettingsInv'
<1>1. /\ Head(req[r].todo) = Settings!Update(p, field, value)
      /\ Tail(req[r].todo) = rest
  <2>1. CASE req[r].todo = <<Settings!Update(p, field, value)>> /\ rest = <<>>
    BY <2>1
  <2>2. CASE \E w \in Chosen :
                 /\ rest = <<Settings!Update(p, "scope", w)>>
                 /\ req[r].todo = <<Settings!Update(p, field, value), Settings!Update(p, "scope", w)>>
    BY <2>2
  <2>3. QED
    BY <2>1, <2>2 DEF ToSet
<1>2. PICK map \in Maps, new \in RequestRecord :
          Open(r, p, map) /\ Writes(r, p, map, field, value, rest, new)
  BY <1>1, WriteChanges
<1>3. /\ new.pc \in {"done", "updating"} /\ (new.pc = "done" <=> rest = <<>>)
      /\ new.pc = "updating" => /\ new.kind = req[r].kind /\ new.project = p
                                /\ new.todo = rest /\ new.then = "done"
      /\ p \in ProjectKeys /\ p # Default /\ mapping' = Changed(map, p, field, value)
  BY <1>2 DEF Open, Writes
<1>4. want' = IF req[r].kind = "put" THEN [want EXCEPT ![p][field] = value] ELSE want
  BY <1>2 DEF Writes, Fields
<1>5. PICK m \in Maps : m = Changed(map, p, field, value) /\ FieldSet(map, m, p, field, value)
  BY SetFieldType
<1>6. mapping' = m
  BY <1>3, <1>5
<1>7. RequestIsSound(new)
  <2>1. CASE new.pc = "done"
    BY <2>1 DEF RequestIsSound, UnderWay, Changing
  <2>2. CASE new.pc = "updating"
    <3>1. \E v, w \in Chosen : new.todo = <<Settings!Update(p, "scope", w)>>
      BY <1>3, <2>2 DEF ToSet
    <3>2. PlanIsSound(new)
      BY <1>3, <2>2, <3>1 DEF PlanIsSound
    <3>3. QED
      BY <1>3, <2>2, <3>2 DEF RequestIsSound, Changing
  <2>3. QED
    BY <1>3, <2>1, <2>2
<1>8. "partial_body" \notin SettingsEvents =>
          OwnServers(mapping') /\ (Changing(new) => new.then # "saving")
  <2> SUFFICES ASSUME "partial_body" \notin SettingsEvents PROVE OwnServers(m)
    BY <1>3, <1>6 DEF Changing
  <2>1. OwnServers(map)
    BY <1>2, OpenIsSound
  <2>2. QED
    BY <1>5, <2>1, OwnEntry DEF OwnServers, FieldSet
<1>9. ASSUME InTurnSoFar
      PROVE  /\ ProjectsStand(new, mapping', FALSE, active, cloud, created)
             /\ p \in DOMAIN map \cup {active}
             /\ req[r].kind = "register" => p \in DOMAIN map
  <2>1. ProjectsStand(req[r], map, TRUE, active, cloud, created) /\ UnderWay(req[r])
    BY <1>2, <1>9, OpenIsSound DEF Open
  <2>2. /\ req[r].kind = "put" => p \in DOMAIN map \cup {active}
        /\ req[r].kind = "register" => p \in DOMAIN map
    BY <2>1 DEF ProjectsStand, Changing, Settings!Scoped
  <2>3. ProjectsStand(new, mapping', FALSE, active, cloud, created)
    BY <1>3, <1>5, <1>6, <2>1, <2>2 DEF FieldSet, ProjectsStand, UnderWay, Changing, Settings!Scoped
  <2>4. QED
    BY <2>2, <2>3
<1>10. want \in [Settings!Keys -> [Fields -> Settings!Settings]]
  BY <1>2, OpenIsSound DEF Fields
<1>11. /\ want' \in [Settings!Keys -> [Fields -> Settings!Settings]]
       /\ \A k \in Settings!Keys \ {p} : want'[k] = want[k]
       /\ \A f \in Fields : f # field => want'[p][f] = want[p][f]
       /\ want'[p][field] = IF req[r].kind = "put" THEN value ELSE want[p][field]
  BY <1>4, <1>10 DEF Chosen, Settings!Settings
<1>12. ASSUME mishaps = {} PROVE WishesStand(new, mapping', active, cloud, want')
  <2>1. /\ WishesStand(req[r], map, active, cloud, want)
        /\ p \in DOMAIN map \cup {active} /\ (req[r].kind = "register" => p \in DOMAIN map)
    BY <1>2, <1>9, <1>12, OpenIsSound DEF InTurnSoFar
  <2>2. p \notin DOMAIN map => want[p] = Settings!Unwanted
    BY <2>1 DEF WishesStand
  <2>3. req[r].kind = "register" =>
            \A i \in DOMAIN req[r].todo :
               want[p][req[r].todo[i].field] \in {"unset", req[r].todo[i].value}
    BY <2>1 DEF WishesStand, Changing
  <2>4. req[r].kind = "register" => want[p][field] \in {"unset", value}
    <3>1. 1 \in DOMAIN req[r].todo /\ req[r].todo[1] = Settings!Update(p, field, value)
      BY DEF ToSet
    <3>2. req[r].todo[1].field = field /\ req[r].todo[1].value = value
      BY <3>1 DEF Settings!Update
    <3>3. QED
      BY <2>3, <3>1, <3>2
  <2>5. \A f \in Fields : want'[p][f] # "unset" => m[p][f] = want'[p][f]
    BY <1>5, <1>11, <2>1, <2>2, <2>4, NothingWanted DEF FieldSet, WishesStand, Settings!EntryOf
  <2>6. \A k \in Settings!Keys, f \in Fields : want'[k][f] # "unset" =>
            IF k \in DOMAIN m THEN m[k][f] = want'[k][f]
            ELSE k \in DOMAIN cloud /\ cloud[k][f] = want'[k][f]
    BY <1>5, <1>11, <2>1, <2>5 DEF FieldSet, WishesStand
  <2>7. /\ want'[Default] = Settings!Unwanted
        /\ active \in Settings!Keys \ DOMAIN m => want'[active] = Settings!Unwanted
    BY <1>3, <1>5, <1>11, <2>1, KeysApart DEF FieldSet, WishesStand
  <2>8. new.pc = "updating" /\ new.kind = "register" =>
            \A i \in DOMAIN new.todo : want'[p][new.todo[i].field] \in {"unset", new.todo[i].value}
    <3> SUFFICES ASSUME new.pc = "updating", req[r].kind = "register", NEW i \in DOMAIN rest
                 PROVE  want'[p][rest[i].field] \in {"unset", rest[i].value}
      BY <1>3
    <3>1. PICK w \in Chosen :
              /\ rest = <<Settings!Update(p, "scope", w)>>
              /\ req[r].todo = <<Settings!Update(p, field, value), Settings!Update(p, "scope", w)>>
      BY <1>3 DEF ToSet
    <3>2. /\ i = 1 /\ rest[i] = Settings!Update(p, "scope", w) /\ 2 \in DOMAIN req[r].todo
          /\ req[r].todo[2] = rest[i]
      BY <3>1
    <3>3. want[p][rest[i].field] \in {"unset", rest[i].value}
      BY <2>3, <3>2
    <3>4. want' = want
      BY <1>4
    <3>5. QED
      BY <3>3, <3>4
  <2>9. QED
    BY <1>3, <1>6, <2>6, <2>7, <2>8 DEF WishesStand, Changing
<1>13. QED
  BY <1>2, <1>3, <1>5, <1>6, <1>7, <1>8, <1>9, <1>11, <1>12, WrittenStep DEF Fields

LEMMA WriteRegisteredStep ==
    ASSUME SettingsInv, NEW r \in Requests, Settings!WriteMapping(r),
           req[r].pc = "open", req[r].kind = "register", req[r].then = "registered",
           NEW p \in Settings!Keys, p = req[r].project, NEW k \in Settings!Keys,
           req[r].todo = <<Settings!Update(p, "register", k)>>
    PROVE  SettingsInv'
<1>1. /\ Head(req[r].todo) = Settings!Update(p, "register", k)
      /\ Tail(req[r].todo) = <<>> /\ <<>> \in Seq(Changes)
  OBVIOUS
<1>2. PICK map \in Maps, new \in RequestRecord :
          Open(r, p, map) /\ Writes(r, p, map, "register", k, <<>>, new)
  BY <1>1, WriteChanges
<1>3. /\ new.pc = "registered" /\ new.kind = "register" /\ new.project = p
      /\ p \in ProjectKeys /\ p # Default /\ mapping' = Changed(map, p, "register", k)
      /\ want' = IF p \notin DOMAIN map THEN [want EXCEPT ![p] = Settings!Unwanted] ELSE want
  BY <1>2 DEF Open, Writes
<1>4. PICK m \in Maps : /\ m = Changed(map, p, "register", k)
                        /\ DOMAIN m = DOMAIN map \cup {p, k}
                        /\ \A j \in DOMAIN m : m[j] = Settings!EntryOf(map, j)
  BY RegisteredType
<1>5. mapping' = m
  BY <1>3, <1>4
<1>6. RequestIsSound(new)
  BY <1>3 DEF RequestIsSound, UnderWay, Changing
<1>7. "partial_body" \notin SettingsEvents =>
          OwnServers(mapping') /\ (Changing(new) => new.then # "saving")
  <2> SUFFICES ASSUME "partial_body" \notin SettingsEvents PROVE OwnServers(m)
    BY <1>3, <1>5 DEF Changing
  <2>1. OwnServers(map)
    BY <1>2, OpenIsSound
  <2>2. QED
    BY <1>4, <2>1, OwnEntry DEF OwnServers
<1>8. ASSUME InTurnSoFar
      PROVE  ProjectsStand(new, mapping', FALSE, active, cloud, created) /\ k = KeyOf(active)
  <2>1. ProjectsStand(req[r], map, TRUE, active, cloud, created)
    BY <1>2, <1>8, OpenIsSound
  <2>2. Settings!Update(p, "register", k) = Settings!Update(p, "register", KeyOf(active))
    <3>1. req[r].todo = <<Settings!Update(p, "register", KeyOf(active))>>
      BY <2>1 DEF ProjectsStand, Changing
    <3>2. Head(req[r].todo) = Settings!Update(p, "register", KeyOf(active))
      BY <3>1
    <3>3. QED
      BY <1>1, <3>2
  <2>3. k = KeyOf(active)
    BY <2>2 DEF Settings!Update
  <2>4. active # Nobody => active \in DOMAIN m
    BY <1>4, <2>3 DEF KeyOf
  <2>5. ProjectsStand(new, mapping', FALSE, active, cloud, created)
    BY <1>3, <1>4, <1>5, <2>1, <2>4 DEF ProjectsStand, UnderWay, Changing, Settings!Scoped
  <2>6. QED
    BY <2>3, <2>5
<1>9. want \in [Settings!Keys -> [Fields -> Settings!Settings]]
  BY <1>2, OpenIsSound DEF Fields
<1>10. Settings!Unwanted \in [Fields -> Settings!Settings]
  BY DEF Settings!Unwanted, Fields, Settings!Settings
<1>11. /\ want' \in [Settings!Keys -> [Fields -> Settings!Settings]]
       /\ \A j \in Settings!Keys \ {p} : want'[j] = want[j]
       /\ want'[p] = IF p \notin DOMAIN map THEN Settings!Unwanted ELSE want[p]
  BY <1>3, <1>9, <1>10
<1>12. ASSUME mishaps = {} PROVE WishesStand(new, mapping', active, cloud, want')
  <2>1. WishesStand(req[r], map, active, cloud, want) /\ req[r].pc = "open" /\ k = KeyOf(active)
    BY <1>2, <1>8, <1>12, OpenIsSound DEF InTurnSoFar
  <2>2. \A j \in {p, k} : j \notin DOMAIN map => want'[j] = Settings!Unwanted
    <3>1. want[Default] = Settings!Unwanted
      BY <2>1 DEF WishesStand
    <3>2. k \notin DOMAIN map => want[k] = Settings!Unwanted
      BY <2>1, <3>1 DEF WishesStand, KeyOf
    <3>3. QED
      BY <1>11, <3>2
  <2>3. \A j \in DOMAIN map : want'[j] = want[j] /\ m[j] = map[j] /\ j \in DOMAIN m
    BY <1>4, <1>11, MapsAre DEF Settings!EntryOf
  <2>4. \A j \in Settings!Keys, f \in Fields : want'[j][f] # "unset" =>
            IF j \in DOMAIN m THEN m[j][f] = want'[j][f]
            ELSE j \in DOMAIN cloud /\ cloud[j][f] = want'[j][f]
    BY <1>4, <1>11, <2>1, <2>2, <2>3, NothingWanted DEF WishesStand
  <2>5. /\ want'[Default] = Settings!Unwanted
        /\ active \notin Settings!Keys \ DOMAIN m
    BY <1>3, <1>4, <1>11, <2>1, KeysApart DEF WishesStand, KeyOf
  <2>6. QED
    BY <1>3, <1>5, <2>4, <2>5 DEF WishesStand, Changing
<1>13. QED
  BY <1>2, <1>3, <1>4, <1>5, <1>6, <1>7, <1>8, <1>11, <1>12, WrittenStep DEF Fields

LEMMA WriteRemovedStep ==
    ASSUME SettingsInv, NEW r \in Requests, Settings!WriteMapping(r),
           req[r].pc = "open", req[r].kind = "share", req[r].then = "unlisting",
           NEW p \in Settings!Keys, p = req[r].project,
           req[r].todo = <<Settings!Update(p, "remove", p)>>
    PROVE  SettingsInv'
<1>1. /\ Head(req[r].todo) = Settings!Update(p, "remove", p)
      /\ Tail(req[r].todo) = <<>> /\ <<>> \in Seq(Changes)
  OBVIOUS
<1>2. PICK map \in Maps, new \in RequestRecord :
          Open(r, p, map) /\ Writes(r, p, map, "remove", p, <<>>, new)
  BY <1>1, WriteChanges
<1>3. /\ new.pc = "unlisting" /\ new.kind = "share" /\ new.project = p
      /\ p \in ProjectKeys /\ p # Default /\ mapping' = Changed(map, p, "remove", p)
      /\ want' = want
  BY <1>2 DEF Open, Writes
<1>4. PICK m \in Maps : /\ m = Changed(map, p, "remove", p)
                        /\ DOMAIN m = DOMAIN map \ {p} /\ \A j \in DOMAIN m : m[j] = map[j]
  BY RemovedType
<1>5. mapping' = m
  BY <1>3, <1>4
<1>6. RequestIsSound(new)
  BY <1>3 DEF RequestIsSound, UnderWay, Changing
<1>7. "partial_body" \notin SettingsEvents =>
          OwnServers(mapping') /\ (Changing(new) => new.then # "saving")
  <2> SUFFICES ASSUME "partial_body" \notin SettingsEvents PROVE OwnServers(m)
    BY <1>3, <1>5 DEF Changing
  <2>1. OwnServers(map)
    BY <1>2, OpenIsSound
  <2>2. QED
    BY <1>4, <2>1 DEF OwnServers
<1>8. ASSUME InTurnSoFar
      PROVE  ProjectsStand(new, mapping', FALSE, active, cloud, created) /\ p \in DOMAIN cloud
  <2>1. ProjectsStand(req[r], map, TRUE, active, cloud, created)
    BY <1>2, <1>8, OpenIsSound
  <2>2. p \in DOMAIN cloud
    BY <2>1 DEF ProjectsStand, Changing
  <2>3. ProjectsStand(new, mapping', FALSE, active, cloud, created)
    BY <1>3, <1>4, <1>5, <2>1, <2>2 DEF ProjectsStand, UnderWay, Changing, Settings!Scoped
  <2>4. QED
    BY <2>2, <2>3
<1>9. ASSUME mishaps = {} PROVE WishesStand(new, mapping', active, cloud, want')
  <2>1. WishesStand(req[r], map, active, cloud, want) /\ req[r].pc = "open" /\ p \in DOMAIN cloud
    BY <1>2, <1>8, <1>9, OpenIsSound DEF InTurnSoFar
  <2>2. p \in DOMAIN map => cloud[p] = map[p]
    BY <2>1 DEF WishesStand, Changing
  <2>3. \A j \in Settings!Keys, f \in Fields : want[j][f] # "unset" =>
            IF j \in DOMAIN m THEN m[j][f] = want[j][f]
            ELSE j \in DOMAIN cloud /\ cloud[j][f] = want[j][f]
    BY <1>4, <2>1, <2>2 DEF WishesStand
  <2>4. QED
    BY <1>3, <1>4, <1>5, <2>1, <2>3 DEF WishesStand, Changing
<1>10. QED
  BY <1>2, <1>3, <1>4, <1>5, <1>6, <1>7, <1>8, <1>9, OpenIsSound, WrittenStep

LEMMA WriteMappingStep ==
    ASSUME SettingsInv, NEW r \in Requests, Settings!WriteMapping(r) PROVE SettingsInv'
<1>1. req[r].pc = "open"
  BY DEF Settings!WriteMapping, Settings!At
<1>2. /\ PlanIsSound(req[r]) /\ req[r].project \in Settings!Keys
      /\ req[r].config \in Settings!Configs
  BY <1>1, AtIsBusy DEF Settings!Pcs, RequestIsSound, Changing, RequestRecord
<1>3. PICK p \in Settings!Keys : p = req[r].project
  BY <1>2
<1>4. CASE /\ req[r].kind \in Settings!Scoped /\ req[r].then = "saving"
           /\ req[r].todo = <<Settings!Update(req[r].project, "config", req[r].config)>>
  BY <1>1, <1>4, WriteServerStep
<1>5. CASE /\ req[r].kind \in {"put", "register"} /\ req[r].then = "done"
           /\ \E v, w \in Chosen :
                 \/ req[r].todo = <<Settings!Update(p, "sprint", v), Settings!Update(p, "scope", w)>>
                 \/ req[r].todo = <<Settings!Update(p, "scope", w)>>
  <2>1. PICK v \in Chosen, w \in Chosen :
            \/ req[r].todo = <<Settings!Update(p, "sprint", v), Settings!Update(p, "scope", w)>>
            \/ req[r].todo = <<Settings!Update(p, "scope", w)>>
    BY <1>5
  <2> DEFINE rest == <<Settings!Update(p, "scope", w)>>
             none == <<>>
  <2>2. rest \in Seq(Changes)
    <3>1. Settings!Update(p, "scope", w) \in Changes
      BY DEF Changes, Settings!Update
    <3>2. QED
      BY <3>1
  <2>3. none \in Seq(Changes)
    OBVIOUS
  <2>4. "sprint" \in Fields /\ "scope" \in Fields
    BY DEF Fields
  <2>5. CASE req[r].todo = <<Settings!Update(p, "sprint", v), Settings!Update(p, "scope", w)>>
    <3>1. ToSet(req[r].todo, p, "sprint", v, rest)
      BY <2>5 DEF ToSet
    <3> HIDE DEF rest
    <3>2. QED
      BY <1>1, <1>3, <1>5, <2>2, <2>4, <3>1, WriteSettingStep
  <2>6. CASE req[r].todo = <<Settings!Update(p, "scope", w)>>
    <3>1. ToSet(req[r].todo, p, "scope", w, none)
      BY <2>6 DEF ToSet
    <3> HIDE DEF none
    <3>2. QED
      BY <1>1, <1>3, <1>5, <2>3, <2>4, <3>1, WriteSettingStep
  <2>7. QED
    BY <2>1, <2>5, <2>6
<1>6. CASE /\ req[r].kind = "register" /\ req[r].then = "registered"
           /\ \E k \in Settings!Keys : req[r].todo = <<Settings!Update(p, "register", k)>>
  BY <1>1, <1>3, <1>6, WriteRegisteredStep
<1>7. CASE /\ req[r].kind = "share" /\ req[r].then = "unlisting"
           /\ req[r].todo = <<Settings!Update(p, "remove", p)>>
  BY <1>1, <1>3, <1>7, WriteRemovedStep
<1>8. QED
  BY <1>2, <1>3, <1>4, <1>5, <1>6, <1>7 DEF PlanIsSound

-----------------------------------------------------------------------------
(* Requests come in, the process stops. *)

LEMMA ReceiveStep ==
    ASSUME SettingsInv, NEW r \in Requests, NEW kind \in Kinds, NEW p \in ProjectKeys,
           Settings!Receive(r, kind, p)
    PROVE  SettingsInv'
<1> DEFINE pc     == IF kind \in Settings!Scoped THEN "listing" ELSE "handling"
           narrow == kind \in Settings!Scoped
           base   == Settings!NewRequest
           new    == [base EXCEPT !.pc = pc, !.header = narrow, !.kind = kind, !.project = p]
<1>1. /\ req[r].pc = "idle" /\ req' = [req EXCEPT ![r] = new]
      /\ UNCHANGED <<mapping, torn, active, global, cloud, want, created>>
      /\ mishaps' = mishaps \cup {e \in {"overlap"} : Settings!Busy # {}}
                            \cup {e \in {"unlisted"} : kind \in Settings!Scoped
                                                       /\ p \notin Settings!Listed}
  BY DEF Settings!Receive, Settings!At, Settings!files
<1>2. /\ new \in RequestRecord /\ new.kind = kind /\ new.project = p
      /\ new.pc = IF kind \in Settings!Scoped THEN "listing" ELSE "handling"
      /\ new.header = (kind \in Settings!Scoped) /\ new.copy = Settings!Empty
  <2>1. pc \in Settings!Pcs /\ narrow \in BOOLEAN /\ p \in Settings!Keys
    BY KeysApart DEF Settings!Pcs
  <2>2. base \in RequestRecord /\ base.copy = Settings!Empty
    BY NewRequestType
  <2> HIDE DEF pc, narrow, base
  <2>3. /\ new \in RequestRecord /\ new.kind = kind /\ new.project = p /\ new.pc = pc
        /\ new.header = narrow /\ new.copy = base.copy
    BY <2>1, <2>2 DEF RequestRecord
  <2>4. QED
    BY <2>2, <2>3 DEF pc, narrow
<1> HIDE DEF new
<1>3. \A s \in Requests : req'[s] = IF s = r THEN new ELSE req[s]
  BY <1>1 DEF SettingsInv, SettingsTyped
<1>4. SettingsTyped'
  BY <1>1, <1>2 DEF SettingsInv, SettingsTyped, FilesTyped
<1>5. RequestIsSound(new) /\ OwnServerAhead(new)
  BY <1>2, OwnEmpty DEF RequestIsSound, OwnServerAhead, UnderWay, Changing
<1>6. \A s \in Requests : RequestIsSound(req'[s])
  BY <1>3, <1>5 DEF SettingsInv
<1>7. OwnStaysOwn'
  BY <1>1, <1>3, <1>5 DEF SettingsInv, OwnStaysOwn
<1>8. UnderWay(new)
  BY <1>2 DEF UnderWay
<1>9. Settings!Busy' = Settings!Busy \cup {r}
  BY <1>3, <1>8 DEF Settings!Busy, UnderWay
<1>10. ASSUME InTurnSoFar'
       PROVE  /\ Settings!Busy' = {r} /\ Current' = {new} /\ ~torn
              /\ ProjectsStand(Settings!NewRequest, mapping, torn, active, cloud, created)
              /\ mishaps = {} => WishesStand(Settings!NewRequest, mapping, active, cloud, want)
              /\ kind \in Settings!Scoped => p \in DOMAIN mapping \cup {active}
  <2>1. Settings!Busy = {} /\ InTurnSoFar /\ (kind \in Settings!Scoped => p \in Settings!Listed)
    <3>1. "overlap" \notin mishaps' /\ "unlisted" \notin mishaps'
      BY <1>10 DEF InTurnSoFar
    <3>2. mishaps \subseteq {"half_removed"}
      BY <1>1, <1>10 DEF InTurnSoFar
    <3>3. QED
      BY <1>1, <3>1, <3>2 DEF InTurnSoFar
  <2>2. Current = {Settings!NewRequest}
    BY <2>1 DEF Current
  <2>3. /\ ProjectsStand(Settings!NewRequest, mapping, torn, active, cloud, created)
        /\ mishaps = {} => WishesStand(Settings!NewRequest, mapping, active, cloud, want)
    BY <2>1, <2>2 DEF SettingsInv, InTurnInv
  <2>4. ~torn
    BY <2>3, NewRequestType DEF ProjectsStand, SettingsInv, SettingsTyped, FilesTyped
  <2>5. Settings!Content = mapping
    BY <2>4, ContentType
  <2>6. kind \in Settings!Scoped => p \in DOMAIN mapping \cup {active}
    BY <2>1, <2>5 DEF Settings!Listed
  <2>7. Settings!Busy' = {r}
    BY <1>9, <2>1
  <2>8. Current' = {new}
    <3>1. Current' = {req'[s] : s \in {r}}
      BY <2>7 DEF Current
    <3>2. QED
      BY <1>3, <3>1
  <2>9. QED
    BY <2>3, <2>4, <2>6, <2>7, <2>8
<1>11. InTurnSoFar' => ProjectsStand(new, mapping', torn', active', cloud', created')
  BY <1>1, <1>2, <1>10, NewRequestType DEF ProjectsStand, UnderWay, Changing
<1>12. mishaps' = {} => WishesStand(new, mapping', active', cloud', want')
  <2>1. mishaps' = {} => InTurnSoFar' /\ mishaps = {}
    BY <1>1 DEF InTurnSoFar
  <2>2. QED
    BY <1>1, <1>2, <1>10, <2>1, NewRequestType DEF WishesStand, Changing
<1>13. mishaps' = {} => InTurnSoFar'
  BY DEF InTurnSoFar
<1>14. InTurnInv'
  BY <1>10, <1>11, <1>12, <1>13 DEF InTurnInv
<1>15. QED
  BY <1>4, <1>6, <1>7, <1>14 DEF SettingsInv

LEMMA CrashStep == ASSUME SettingsInv, Settings!Crash PROVE SettingsInv'
<1>1. /\ req' = [s \in Requests |-> IF s \in Settings!Busy THEN Settings!Answered(s) ELSE req[s]]
      /\ UNCHANGED <<mapping, torn, active, global, cloud, want, created>>
      /\ mishaps' = mishaps \cup {e \in {"torn_file"} : torn}
             \cup {e \in {"half_removed"} : \E s \in Requests : Settings!At(s, "unlisting")}
  BY DEF Settings!Crash, Settings!files
<1>2. \A s \in Requests : req'[s] = IF s \in Settings!Busy THEN Settings!Answered(s) ELSE req[s]
  BY <1>1
<1>3. \A s : /\ Settings!Answered(s) \in RequestRecord /\ Settings!Answered(s).pc = "done"
             /\ RequestIsSound(Settings!Answered(s)) /\ OwnServerAhead(Settings!Answered(s))
  BY AnsweredType
<1>4. SettingsTyped'
  BY <1>1, <1>3 DEF SettingsInv, SettingsTyped, FilesTyped
<1>5. \A s \in Requests : RequestIsSound(req'[s])
  BY <1>2, <1>3 DEF SettingsInv
<1>6. OwnStaysOwn'
  BY <1>1, <1>2, <1>3 DEF SettingsInv, OwnStaysOwn
<1>7. Settings!Busy' = {}
  BY <1>2, <1>3 DEF Settings!Busy
<1>8. Current' = {Settings!NewRequest}
  <2>1. Settings!NewRequest' = Settings!NewRequest
    BY DEF Settings!NewRequest, Settings!Empty, Settings!NoConfig, Settings!Blank
  <2>2. QED
    BY <1>7, <2>1 DEF Current
<1>9. mishaps \subseteq mishaps'
  BY <1>1
<1>10. PICK q \in Current : Settings!Busy # {} => \E s \in Settings!Busy : q = req[s]
  BY DEF Current
<1>11. q = Settings!NewRequest \/ \E s \in Requests : s \in Settings!Busy /\ q = req[s]
  BY <1>10 DEF Current, Settings!Busy
<1>12. ASSUME InTurnSoFar'
       PROVE  ProjectsStand(Settings!NewRequest, mapping, torn, active, cloud, created)
  <2>1. ~torn
    <3>1. "torn_file" \notin mishaps'
      BY <1>12 DEF InTurnSoFar
    <3>2. QED
      BY <1>1, <3>1
  <2>2. InTurnSoFar
    BY <1>9, <1>12 DEF InTurnSoFar
  <2>3. ProjectsStand(q, mapping, torn, active, cloud, created)
    BY <2>2 DEF SettingsInv, InTurnInv
  <2>4. QED
    BY <2>1, <2>3, NewRequestType DEF ProjectsStand, UnderWay, Changing
<1>13. ASSUME mishaps' = {} PROVE WishesStand(Settings!NewRequest, mapping, active, cloud, want)
  <2>1. \A s \in Requests : req[s].pc # "unlisting"
    <3>1. "half_removed" \notin mishaps'
      BY <1>13
    <3>2. QED
      BY <1>1, <3>1 DEF Settings!At
  <2>2. mishaps = {}
    BY <1>9, <1>13
  <2>3. WishesStand(q, mapping, active, cloud, want)
    BY <2>2 DEF SettingsInv, InTurnInv
  <2>4. q.pc # "unlisting"
    BY <1>11, <2>1, NewRequestType
  <2>5. QED
    BY <2>3, <2>4, NewRequestType DEF WishesStand, Changing
<1>14. InTurnInv'
  BY <1>1, <1>7, <1>8, <1>12, <1>13 DEF InTurnInv
<1>15. QED
  BY <1>4, <1>5, <1>6, <1>14 DEF SettingsInv

LEMMA SettingsInit == Settings!Init => SettingsInv
<1> SUFFICES ASSUME Settings!Init PROVE SettingsInv
  OBVIOUS
<1>1. /\ active \in ProjectKeys \cup {Nobody} /\ torn = FALSE /\ global = Settings!NoConfig
      /\ cloud = Settings!Empty /\ req = [r \in Requests |-> Settings!NewRequest]
      /\ want = [p \in Settings!Keys |-> Settings!Unwanted] /\ mishaps = {}
      /\ created = DOMAIN mapping \cup ({active} \ {Nobody})
      /\ mapping = Settings!Empty \/ \E k \in {active} \ {Nobody} : mapping = [p \in {k} |-> Settings!Blank]
  BY DEF Settings!Init
<1>2. /\ mapping \in Maps
      /\ DOMAIN mapping = {} \/ (DOMAIN mapping = {active} /\ active # Nobody)
      /\ \A p \in DOMAIN mapping : mapping[p] = Settings!Blank
  <2>1. CASE mapping = Settings!Empty
    BY <2>1, EmptyType
  <2>2. ASSUME NEW k \in {active} \ {Nobody}, mapping = [p \in {k} |-> Settings!Blank]
        PROVE  /\ mapping \in Maps /\ DOMAIN mapping = {active} /\ active # Nobody
               /\ \A p \in DOMAIN mapping : mapping[p] = Settings!Blank
    <3>1. k \in Settings!Keys /\ k = active
      BY <1>1, <2>2, KeysApart
    <3>2. mapping \in [{k} -> Settings!Entries]
      BY <2>2, BlankType
    <3>3. QED
      BY <2>2, <3>1, <3>2 DEF Maps
  <2>3. QED
    BY <1>1, <2>1, <2>2
<1>3. /\ Settings!Unwanted \in [{"sprint", "scope"} -> Settings!Settings]
      /\ Settings!Blank.config = Settings!NoConfig
  BY DEF Settings!Unwanted, Settings!Settings, Settings!Blank
<1>4. SettingsTyped
  BY <1>1, <1>2, <1>3, NewRequestType, EmptyType, BlankType, KeysApart
     DEF SettingsTyped, FilesTyped
<1>5. \A r \in Requests : RequestIsSound(req[r])
  BY <1>1, NewRequestType DEF RequestIsSound, UnderWay, Changing
<1>6. OwnStaysOwn
  BY <1>1, <1>2, <1>3, NewRequestType, OwnEmpty
     DEF OwnStaysOwn, OwnServers, OwnServerAhead, Changing
<1>7. Settings!Busy = {} /\ Current = {Settings!NewRequest}
  BY <1>1, NewRequestType DEF Settings!Busy, Current
<1>8. ProjectsStand(Settings!NewRequest, mapping, torn, active, cloud, created)
  BY <1>1, <1>2, NewRequestType, KeysApart, EmptyType DEF ProjectsStand, UnderWay, Changing
<1>9. WishesStand(Settings!NewRequest, mapping, active, cloud, want)
  BY <1>1, NewRequestType, NothingWanted, KeysApart DEF WishesStand, Changing
<1>10. QED
  BY <1>4, <1>5, <1>6, <1>7, <1>8, <1>9 DEF SettingsInv, InTurnInv

LEMMA SettingsStutters == SettingsInv /\ UNCHANGED Settings!vars => SettingsInv'
<1> SUFFICES ASSUME SettingsInv, UNCHANGED Settings!vars PROVE SettingsInv'
  OBVIOUS
<1>1. UNCHANGED <<mapping, torn, active, global, cloud, req, want, created, mishaps>>
  BY DEF Settings!vars, Settings!files, Settings!observed
<1>2. Settings!Busy' = Settings!Busy
  BY <1>1 DEF Settings!Busy
<1>3. Current' = Current
  BY <1>1, <1>2 DEF Current, Settings!NewRequest, Settings!Empty, Settings!NoConfig, Settings!Blank
<1>4. SettingsTyped'
  BY <1>1 DEF SettingsInv, SettingsTyped, FilesTyped
<1>5. OwnStaysOwn'
  BY <1>1 DEF SettingsInv, OwnStaysOwn
<1>6. InTurnInv'
  BY <1>1, <1>2, <1>3 DEF SettingsInv, InTurnInv, InTurnSoFar
<1>7. QED
  BY <1>1, <1>4, <1>5, <1>6 DEF SettingsInv

LEMMA HandlerStep ==
    ASSUME SettingsInv, NEW r \in Requests, Settings!HandlerStep(r) PROVE SettingsInv'
BY AnswerPollStep, PutSettingsStep, StoreSettingsStep, ConnectServerStep, StartRegisterStep,
   ActivateRegisteredStep, SettleRegisteredStep, BuildSharePayloadStep, PostSharedStep,
   RemoveProjectStep, DeactivateProjectStep, ReactivateStep DEF Settings!HandlerStep

LEMMA SettingsStep == SettingsInv /\ [Settings!Next]_(Settings!vars) => SettingsInv'
BY CrashStep, ReceiveStep, ReadMappingStep, TruncateStep, WriteMappingStep, ListProjectsStep,
   SetActiveStep, ApplyRuntimeStep, SaveGlobalStep, HandlerStep, SettingsStutters
   DEF Settings!Next

\* What the invariant says where no request is under way, or one.
LEMMA SettingsAreSound == SettingsInv => ProjectsAndSettingsStand
<1> SUFFICES ASSUME SettingsInv, ~torn
             PROVE  /\ mishaps \subseteq {"half_removed"} =>
                           \A p \in created : p \in Settings!Listed \cup DOMAIN cloud
                    /\ mishaps = {} => \A p \in Settings!Keys, f \in Fields : want[p][f] # "unset" =>
                           want[p][f] \in {Settings!EntryOf(mapping, p)[f],
                                           Settings!EntryOf(cloud, p)[f]}
  BY DEF ProjectsAndSettingsStand, Settings!NothingIsLost, Settings!ProjectsAreKept,
         Settings!SettingsStand, Fields
<1>1. PICK q \in Current : TRUE
  BY DEF Current
<1>2. Settings!Content = mapping
  BY ContentType
<1>3. ASSUME mishaps \subseteq {"half_removed"}, NEW p \in created
      PROVE  p \in Settings!Listed \cup DOMAIN cloud
  <2>1. ProjectsStand(q, mapping, torn, active, cloud, created)
    BY <1>3 DEF SettingsInv, InTurnInv, InTurnSoFar
  <2>2. QED
    BY <1>2, <1>3, <2>1 DEF ProjectsStand, Settings!Listed
<1>4. ASSUME mishaps = {}, NEW p \in Settings!Keys, NEW f \in Fields, want[p][f] # "unset"
      PROVE  want[p][f] \in {Settings!EntryOf(mapping, p)[f], Settings!EntryOf(cloud, p)[f]}
  <2>1. WishesStand(q, mapping, active, cloud, want)
    BY <1>4 DEF SettingsInv, InTurnInv
  <2>2. QED
    BY <1>4, <2>1 DEF WishesStand, Settings!EntryOf
<1>5. QED
  BY <1>3, <1>4

\* ProjectsAndSettingsStand, for any projects, requests and events: where one request for a
\* listed project follows the other and no crash leaves project_mapping.yaml truncated, a
\* project that was created is local or shared, and the settings a user stored are those of
\* the mapping or of the organization.
THEOREM NothingIsLostInTurn == Settings!Spec => []ProjectsAndSettingsStand
<1>1. Settings!Spec => []SettingsInv
  BY SettingsInit, SettingsStep, PTL DEF Settings!Spec
<1>2. QED
  BY <1>1, SettingsAreSound, PTL

\* ServersStayApart, for any projects, requests and crashes, and however requests overlap:
\* as long as no server is stored with an address only, the server stored for a project has
\* the address and the credentials of that project.
THEOREM StoredServersAreOwn ==
    ASSUME "partial_body" \notin SettingsEvents PROVE Settings!Spec => []ServersStayApart
<1>1. Settings!Spec => []SettingsInv
  BY SettingsInit, SettingsStep, PTL DEF Settings!Spec
<1>2. SettingsInv => ServersStayApart
  BY DEF SettingsInv, OwnStaysOwn, OwnServers, ServersStayApart, Settings!StoredServerIsOwn
<1>3. QED
  BY <1>1, <1>2, PTL

-----------------------------------------------------------------------------
(* The fetch of the issues of a project. *)

(* Sequences that list issues. *)

IsListing(s) ==
    s \in Seq(Search!Issues) /\ \A i, j \in DOMAIN s : s[i] = s[j] => i = j

LEMMA IssuesAreFinite == IsFiniteSet(Search!Issues)
<1>1. IsFiniteSet(1 .. MaxIssues)
  BY PagesAssumption, FS_Interval
<1>2. IsFiniteSet({Search!Requested}) /\ IsFiniteSet({<<1, 1>>})
  BY FS_Singleton
<1>3. IsFiniteSet({Search!Requested} \X (1 .. MaxIssues))
  BY <1>1, <1>2, FS_Product
<1>4. QED
  BY <1>2, <1>3, FS_Union DEF Search!Issues

LEMMA NumbersArePositive == \A x \in Search!Issues : Search!Number(x) \in Nat /\ Search!Number(x) > 0
BY PagesAssumption DEF Search!Issues, Search!Number

LEMMA ToSetIs ==
    ASSUME NEW s \in Seq(Search!Issues)
    PROVE  /\ DOMAIN s = 1 .. Len(s) /\ Len(s) \in Nat
           /\ Search!ToSet(s) \subseteq Search!Issues
           /\ \A i \in DOMAIN s : s[i] \in Search!ToSet(s)
           /\ \A x \in Search!ToSet(s) : \E i \in DOMAIN s : x = s[i]
BY DEF Search!ToSet

LEMMA ListingLength ==
    ASSUME NEW s, IsListing(s)
    PROVE  Len(s) = Cardinality(Search!ToSet(s)) /\ IsFiniteSet(Search!ToSet(s))
<1> DEFINE T == Search!ToSet(s)
           D == 1 .. Len(s)
<1>1. /\ D = DOMAIN s /\ Len(s) \in Nat /\ T \subseteq Search!Issues
      /\ \A i \in DOMAIN s : s[i] \in T
      /\ \A x \in T : \E i \in DOMAIN s : x = s[i]
  BY ToSetIs DEF IsListing
<1>2. IsFiniteSet(D) /\ Cardinality(D) = Len(s)
  <2>1. PICK n \in Nat : n = Len(s)
    BY <1>1
  <2>2. IsFiniteSet(1 .. n) /\ Cardinality(1 .. n) = IF 1 > n THEN 0 ELSE n - 1 + 1
    BY FS_Interval
  <2>3. D = 1 .. n
    BY <2>1
  <2> HIDE DEF D
  <2>4. QED
    BY <2>1, <2>2, <2>3
<1>3. s \in [D -> T] /\ \A i, j \in D : s[i] = s[j] => i = j
  BY <1>1 DEF IsListing
<1> HIDE DEF T, D
<1>4. ExistsBijection(D, T)
  BY <1>1, <1>3 DEF ExistsBijection, Bijection, Injection, Surjection, IsInjective
<1>5. IsFiniteSet(T) /\ Cardinality(T) = Cardinality(D)
  BY <1>2, <1>4, FS_Bijection
<1>6. QED
  BY <1>2, <1>5 DEF T

\* A listing of some of the issues of another one that is as long has all of them.
LEMMA AllAreListed ==
    ASSUME NEW s, NEW t, IsListing(s), IsListing(t),
           Search!ToSet(s) \subseteq Search!ToSet(t), Len(s) >= Len(t)
    PROVE  Search!ToSet(s) = Search!ToSet(t)
<1> DEFINE S == Search!ToSet(s)
           T == Search!ToSet(t)
<1>1. /\ IsFiniteSet(S) /\ IsFiniteSet(T) /\ Cardinality(S) >= Cardinality(T)
      /\ S \in SUBSET T
  BY ListingLength
<1> HIDE DEF S, T
<1>2. Cardinality(S) <= Cardinality(T) /\ (Cardinality(T) = Cardinality(S) => T = S)
  BY <1>1, FS_Subset
<1>3. Cardinality(S) \in Nat /\ Cardinality(T) \in Nat
  BY <1>1, FS_CardinalityType
<1>4. QED
  BY <1>1, <1>2, <1>3 DEF S, T

LEMMA ListingsAre ==
    ASSUME NEW S \in SUBSET Search!Issues, NEW s \in Search!Listings(S)
    PROVE  IsListing(s) /\ Search!ToSet(s) = S
<1>1. PICK n \in 0 .. MaxIssues : s \in [1 .. n -> S]
  BY DEF Search!Listings, Search!SeqOf
<1>2. s \in Seq(Search!Issues) /\ DOMAIN s = 1 .. n
  BY <1>1, PagesAssumption
<1>3. /\ \A x \in S : x \in Search!ToSet(s)
      /\ \A i, j \in DOMAIN s : s[i] = s[j] => i = j
  BY DEF Search!Listings, Search!IsInjective
<1>4. Search!ToSet(s) \subseteq S
  BY <1>1 DEF Search!ToSet
<1>5. QED
  BY <1>2, <1>3, <1>4 DEF IsListing

LEMMA NoIssues ==
    /\ IsListing(<<>>) /\ Search!ToSet(<<>>) = {}
    /\ \A s : IsListing(s) => (s = <<>> <=> Search!ToSet(s) = {}) /\ (s = <<>> <=> Len(s) = 0)
<1>1. IsListing(<<>>) /\ Search!ToSet(<<>>) = {}
  BY DEF IsListing, Search!ToSet
<1>2. ASSUME NEW s, IsListing(s) PROVE (s = <<>> <=> Search!ToSet(s) = {}) /\ (s = <<>> <=> Len(s) = 0)
  BY <1>2 DEF IsListing, Search!ToSet
<1>3. QED
  BY <1>1, <1>2

LEMMA AppendedIs ==
    ASSUME NEW s, NEW t, IsListing(s), IsListing(t), Search!ToSet(s) \cap Search!ToSet(t) = {}
    PROVE  /\ IsListing(s \o t)
           /\ Search!ToSet(s \o t) = Search!ToSet(s) \cup Search!ToSet(t)
           /\ Len(s \o t) = Len(s) + Len(t)
<1> DEFINE u == s \o t
<1>1. /\ s \in Seq(Search!Issues) /\ t \in Seq(Search!Issues)
      /\ \A i, j \in DOMAIN s : s[i] = s[j] => i = j
      /\ \A i, j \in DOMAIN t : t[i] = t[j] => i = j
  BY DEF IsListing
<1>2. /\ u \in Seq(Search!Issues) /\ Len(u) = Len(s) + Len(t)
      /\ \A i \in DOMAIN u : u[i] = IF i <= Len(s) THEN s[i] ELSE t[i - Len(s)]
  BY <1>1
<1>3. \A i \in DOMAIN u : (i \in DOMAIN s /\ i <= Len(s))
                          \/ (i > Len(s) /\ i - Len(s) \in DOMAIN t)
  BY <1>1, <1>2
<1> HIDE DEF u
<1>4. \A i \in DOMAIN s, j \in DOMAIN t : s[i] # t[j]
  BY <1>1, ToSetIs
<1>5. \A i, j \in DOMAIN u : u[i] = u[j] => i = j
  BY <1>1, <1>2, <1>3, <1>4
<1>6. ASSUME NEW x \in Search!ToSet(u) PROVE x \in Search!ToSet(s) \cup Search!ToSet(t)
  <2>1. PICK i \in DOMAIN u : x = u[i]
    BY <1>2, <1>6, ToSetIs
  <2>2. CASE i \in DOMAIN s /\ i <= Len(s)
    <3>1. x = s[i]
      BY <1>2, <2>1, <2>2
    <3>2. QED
      BY <1>1, <2>2, <3>1, ToSetIs
  <2>3. CASE i > Len(s) /\ i - Len(s) \in DOMAIN t
    <3>1. x = t[i - Len(s)]
      BY <1>1, <1>2, <2>1, <2>3
    <3>2. QED
      BY <1>1, <2>3, <3>1, ToSetIs
  <2>4. QED
    BY <1>3, <2>2, <2>3
<1>7. Search!ToSet(s) \cup Search!ToSet(t) \subseteq Search!ToSet(u)
  <2>1. ASSUME NEW i \in DOMAIN s PROVE s[i] \in Search!ToSet(u)
    <3>1. i \in DOMAIN u /\ u[i] = s[i]
      <4>1. DOMAIN u = 1 .. Len(u) /\ DOMAIN s = 1 .. Len(s) /\ Len(t) \in Nat /\ Len(s) \in Nat
        BY <1>1, <1>2, ToSetIs
      <4>2. i <= Len(s) /\ i \in 1 .. (Len(s) + Len(t))
        BY <4>1
      <4>3. QED
        BY <1>2, <4>1, <4>2
    <3>2. QED
      BY <1>2, <3>1, ToSetIs
  <2>2. ASSUME NEW j \in DOMAIN t PROVE t[j] \in Search!ToSet(u)
    <3>1. j + Len(s) \in DOMAIN u /\ u[j + Len(s)] = t[j]
      BY <1>1, <1>2
    <3>2. QED
      BY <1>2, <3>1, ToSetIs
  <2>3. QED
    BY <1>1, <2>1, <2>2, ToSetIs
<1>8. QED
  BY <1>2, <1>5, <1>6, <1>7 DEF u, IsListing

\* A slice of a listing: the issues at its places.
LEMMA SliceIs ==
    ASSUME NEW s, IsListing(s), NEW from \in Nat, NEW n \in Nat
    PROVE  /\ IsListing(Search!Slice(s, from, n))
           /\ Search!ToSet(Search!Slice(s, from, n)) =
                  {s[i] : i \in {k \in DOMAIN s : from < k /\ k <= from + n}}
           /\ Len(Search!Slice(s, from, n)) < n => from + n > Len(s)
<1>1. /\ s \in Seq(Search!Issues) /\ \A i, j \in DOMAIN s : s[i] = s[j] => i = j
      /\ DOMAIN s = 1 .. Len(s) /\ Len(s) \in Nat
  BY ToSetIs DEF IsListing
<1>2. PICK m \in Nat : m = Len(s)
  BY <1>1
<1> DEFINE to == IF from + n < m THEN from + n ELSE m
           u  == SubSeq(s, from + 1, to)
           l  == IF from < to THEN to - from ELSE 0
<1>3. to \in Nat /\ to <= m /\ to <= from + n /\ (to < m => to = from + n)
  OBVIOUS
<1>4. l \in Nat /\ (from + l <= m \/ l = 0)
  OBVIOUS
<1>5. /\ u \in Seq(Search!Issues) /\ Len(u) = l
      /\ \A i \in 1 .. l : u[i] = s[from + i]
  <2> HIDE DEF to
  <2>1. CASE from < to
    BY <1>1, <1>2, <1>3, <2>1
  <2>2. CASE ~(from < to)
    BY <1>1, <1>2, <1>3, <2>2
  <2>3. QED
    BY <2>1, <2>2
<1>6. Search!Slice(s, from, n) = u
  BY <1>2 DEF Search!Slice
<1> HIDE DEF u
<1>7. DOMAIN u = 1 .. l /\ \A i \in 1 .. l : from + i \in 1 .. m
  <2>1. DOMAIN u = 1 .. l
    BY <1>5, ToSetIs
  <2> HIDE DEF to
  <2>2. ASSUME NEW i \in 1 .. l PROVE from + i \in 1 .. m
    BY <1>3
  <2>3. QED
    BY <2>1, <2>2
<1>8. IsListing(u)
  <2> HIDE DEF to
  <2>1. ASSUME NEW i \in 1 .. l, NEW j \in 1 .. l, u[i] = u[j] PROVE i = j
    <3>1. s[from + i] = s[from + j]
      BY <1>5, <2>1
    <3>2. from + i \in DOMAIN s /\ from + j \in DOMAIN s
      BY <1>1, <1>2, <1>7
    <3>3. from + i = from + j
      BY <1>1, <3>1, <3>2
    <3>4. QED
      BY <1>4, <3>3
  <2>2. QED
    BY <1>5, <1>7, <2>1 DEF IsListing
<1>9. \A i \in 1 .. l : from < from + i /\ from + i <= from + n
  BY <1>3
<1>10. ASSUME NEW x \in Search!ToSet(u)
       PROVE  \E k \in DOMAIN s : from < k /\ k <= from + n /\ x = s[k]
  <2>1. PICK i \in DOMAIN u : x = u[i]
    BY <1>5, <1>10, ToSetIs
  <2>2. i \in 1 .. l /\ from + i \in 1 .. m
    BY <1>7
  <2>3. x = s[from + i] /\ from + i \in DOMAIN s
    BY <1>1, <1>2, <1>5, <2>1, <2>2
  <2>4. QED
    BY <1>9, <2>2, <2>3
<1>11. ASSUME NEW k \in DOMAIN s, from < k, k <= from + n PROVE s[k] \in Search!ToSet(u)
  <2>1. k \in 1 .. m
    BY <1>1, <1>2
  <2>2. k - from \in 1 .. l /\ from + (k - from) = k
    BY <1>11, <2>1
  <2>3. u[k - from] = s[k]
    BY <1>5, <2>2
  <2>4. QED
    BY <1>5, <1>7, <2>2, <2>3, ToSetIs
<1>12. l < n => from + n > m
  BY <1>3
<1>13. QED
  BY <1>2, <1>5, <1>6, <1>8, <1>10, <1>11, <1>12

-----------------------------------------------------------------------------
(* A fetch of the issues of a project. *)

FetchRecord ==
    [pc : Search!Pcs, project : Search!Projects, variant : {1, 2}, start : Nat, cursor : Nat,
     issues : Seq(Search!Issues)]

ScanTyped ==
    /\ jira \in [Search!Projects -> Seq(Search!Issues)]
    /\ \A p \in Search!Projects :
           IsListing(jira[p]) /\ \A x \in Search!ToSet(jira[p]) : x[1] = p
    /\ server \in Search!Servers

\* The issues of the project that is asked for, and what a fetch has of them.
Wanted == jira[Search!Requested]
Whole(f)     == Search!ToSet(f.issues) = Search!ToSet(Wanted)
UpTo(n)      == {Wanted[i] : i \in {k \in DOMAIN Wanted : 0 < k /\ k <= n}}
Beginning(f) == /\ f.cursor = 0 /\ Search!ToSet(f.issues) = UpTo(f.start)
                /\ f.start > 0 => ~Search!Simple(server)

FoundOnce(f) == /\ f \in FetchRecord /\ IsListing(f.issues)
                /\ \A x \in Search!ToSet(f.issues) : x[1] = f.project
                /\ f.pc \in {"connecting", "listing"} =>
                       f = [Search!NewFetch EXCEPT !.pc = f.pc]

\* With nothing that disturbs it, a search has the first issues, page by page, or all.
Undisturbed(f) ==
    /\ f.pc = "paging" => /\ Whole(f) \/ Beginning(f)
                          /\ f.variant = 2 => Whole(f)
    /\ f.pc = "done" => Whole(f)

ScanInv ==
    /\ ScanTyped
    /\ FoundOnce(fetch)
    /\ "unlisted" \notin stirs => fetch.project = Search!Requested
    /\ stirs = {} => Undisturbed(fetch)

LEMMA NewFetchIs ==
    ASSUME NEW pc \in Search!Pcs
    PROVE  /\ FoundOnce([Search!NewFetch EXCEPT !.pc = pc])
           /\ [Search!NewFetch EXCEPT !.pc = pc].pc = pc
           /\ [Search!NewFetch EXCEPT !.pc = pc].project = Search!Requested
           /\ [Search!NewFetch EXCEPT !.pc = pc].variant = 1
           /\ [Search!NewFetch EXCEPT !.pc = pc].start = 0
           /\ [Search!NewFetch EXCEPT !.pc = pc].cursor = 0
           /\ [Search!NewFetch EXCEPT !.pc = pc].issues = <<>>
<1> DEFINE f == [Search!NewFetch EXCEPT !.pc = pc]
<1>1. f = [pc |-> pc, project |-> Search!Requested, variant |-> 1, start |-> 0, cursor |-> 0,
           issues |-> <<>>]
  BY DEF Search!NewFetch
<1>2. Search!Requested \in Search!Projects /\ <<>> \in Seq(Search!Issues)
  BY DEF Search!Requested, Search!Projects
<1>3. /\ f.pc = pc /\ f.project = Search!Requested /\ f.variant = 1 /\ f.start = 0
      /\ f.cursor = 0 /\ f.issues = <<>> /\ f \in FetchRecord
  <2> DEFINE none == <<>>
             empty == [pc |-> pc, project |-> Search!Requested, variant |-> 1, start |-> 0,
                       cursor |-> 0, issues |-> none]
  <2>1. none \in Seq(Search!Issues) /\ f = empty /\ f.issues = none
    BY <1>1, <1>2
  <2> HIDE DEF none, f
  <2>2. empty \in FetchRecord
    BY <1>2, <2>1 DEF FetchRecord
  <2>3. QED
    BY <2>1, <2>2 DEF none
<1>4. f = [Search!NewFetch EXCEPT !.pc = f.pc]
  BY <1>3
<1> HIDE DEF f
<1>5. FoundOnce(f)
  BY <1>3, <1>4, NoIssues DEF FoundOnce
<1>6. QED
  BY <1>3, <1>5 DEF f

\* A step that leaves Jira alone: it is enough to look at what the fetch becomes.
LEMMA FetchStep ==
    ASSUME ScanInv, NEW f, fetch' = f, jira' = jira, server' = server,
           FoundOnce(f),
           "unlisted" \notin stirs' => f.project = Search!Requested,
           stirs' = {} => Undisturbed(f)
    PROVE  ScanInv'
<1>1. ScanTyped'
  BY DEF ScanInv, ScanTyped
<1>2. stirs' = {} => Undisturbed(f)'
  BY DEF Undisturbed, Whole, Beginning, UpTo, Wanted, Search!Simple
<1>3. FoundOnce(fetch)'
  BY DEF FoundOnce, Search!NewFetch
<1>4. stirs' = {} => Undisturbed(fetch)'
  BY <1>2 DEF Undisturbed, Whole, Beginning, UpTo, Wanted, Search!Simple
<1>5. QED
  BY <1>1, <1>3, <1>4 DEF ScanInv

LEMMA StartStep == ASSUME ScanInv, Search!Start PROVE ScanInv'
<1>1. fetch' = [Search!NewFetch EXCEPT !.pc = "connecting"] /\ jira' = jira /\ server' = server
  BY DEF Search!Start
<1>2. "connecting" \in Search!Pcs
  BY DEF Search!Pcs
<1> DEFINE f == [Search!NewFetch EXCEPT !.pc = "connecting"]
<1>3. FoundOnce(f) /\ f.pc = "connecting" /\ f.project = Search!Requested
  BY <1>2, NewFetchIs
<1>4. fetch' = f
  BY <1>1
<1> HIDE DEF f
<1>5. QED
  BY <1>1, <1>3, <1>4, FetchStep DEF Undisturbed

LEMMA ServerFailsStep == ASSUME ScanInv, Search!ServerFails PROVE ScanInv'
<1> DEFINE f == [Search!NewFetch EXCEPT !.pc = "rest"]
<1>1. fetch' = f /\ jira' = jira /\ server' = server
  BY DEF Search!ServerFails
<1>2. "rest" \in Search!Pcs
  BY DEF Search!Pcs
<1>3. FoundOnce(f) /\ f.pc = "rest" /\ f.project = Search!Requested
  BY <1>2, NewFetchIs
<1> HIDE DEF f
<1>4. QED
  BY <1>1, <1>3, FetchStep DEF Undisturbed

\* A search that ends early has found nothing twice, and nothing of another project.
LEMMA UnreadablePageStep == ASSUME ScanInv, Search!UnreadablePage PROVE ScanInv'
<1> DEFINE ended == [fetch EXCEPT !.pc = "done", !.issues = fetch.issues]
           again == [fetch EXCEPT !.variant = 2, !.start = 0, !.cursor = 0, !.issues = <<>>]
           rest  == [Search!NewFetch EXCEPT !.pc = "rest"]
<1>1. /\ fetch.pc = "paging" /\ fetch' \in {ended, again, rest}
      /\ jira' = jira /\ server' = server /\ stirs' = stirs \cup {"unreadable_page"}
  BY DEF Search!UnreadablePage, Search!AfterSearch, Search!Note
<1>2. FoundOnce(fetch) /\ ("unlisted" \notin stirs => fetch.project = Search!Requested)
  BY DEF ScanInv
<1>3. FoundOnce(ended) /\ ended.project = fetch.project
  <2>1. ended \in FetchRecord /\ ended.pc = "done" /\ ended.issues = fetch.issues
        /\ ended.project = fetch.project
    BY <1>2 DEF FoundOnce, FetchRecord, Search!Pcs
  <2> HIDE DEF ended
  <2>2. QED
    BY <1>2, <2>1 DEF FoundOnce
<1>4. FoundOnce(again) /\ again.project = fetch.project
  <2> DEFINE none == <<>>
  <2>1. none \in Seq(Search!Issues)
    OBVIOUS
  <2>2. again = [fetch EXCEPT !.variant = 2, !.start = 0, !.cursor = 0, !.issues = none]
    OBVIOUS
  <2> HIDE DEF none, again
  <2>3. again \in FetchRecord /\ again.pc = "paging" /\ again.issues = none
        /\ again.project = fetch.project
    BY <1>1, <1>2, <2>1, <2>2 DEF FoundOnce, FetchRecord
  <2>4. again.issues = <<>>
    BY <2>3 DEF none
  <2>5. QED
    BY <2>3, <2>4, NoIssues DEF FoundOnce
<1>5. FoundOnce(rest) /\ rest.project = Search!Requested
  <2>1. "rest" \in Search!Pcs
    BY DEF Search!Pcs
  <2>2. QED
    BY <2>1, NewFetchIs
<1> HIDE DEF ended, again, rest
<1>6. QED
  BY <1>1, <1>2, <1>3, <1>4, <1>5, FetchStep

LEMMA ConnectStep == ASSUME ScanInv, Search!Connect PROVE ScanInv'
<1> DEFINE f == [Search!NewFetch EXCEPT !.pc = "listing"]
<1>1. /\ fetch.pc = "connecting" /\ fetch' = [fetch EXCEPT !.pc = "listing"]
      /\ jira' = jira /\ server' = server
  BY DEF Search!Connect
<1>2. fetch = [Search!NewFetch EXCEPT !.pc = "connecting"]
  BY <1>1 DEF ScanInv, FoundOnce
<1>3. fetch' = f
  BY <1>1, <1>2 DEF Search!NewFetch
<1>4. "listing" \in Search!Pcs
  BY DEF Search!Pcs
<1>5. FoundOnce(f) /\ f.pc = "listing" /\ f.project = Search!Requested
  BY <1>4, NewFetchIs
<1> HIDE DEF f
<1>6. QED
  BY <1>1, <1>3, <1>5, FetchStep DEF Undisturbed

LEMMA ListJiraProjectsStep ==
    ASSUME ScanInv, NEW listed \in SUBSET Search!Projects, Search!ListProjects(listed)
    PROVE  ScanInv'
<1> DEFINE p == Search!Resolve(listed)
           f == [fetch EXCEPT !.pc = "paging", !.project = p]
<1>1. /\ fetch.pc = "listing" /\ fetch' = f /\ jira' = jira /\ server' = server
      /\ stirs' = stirs \cup {e \in {"unlisted"} : p # Search!Requested}
  BY DEF Search!ListProjects, Search!Note
<1>2. "listing" \in Search!Pcs /\ "paging" \in Search!Pcs
  BY DEF Search!Pcs
<1>3. /\ fetch \in FetchRecord /\ fetch = [Search!NewFetch EXCEPT !.pc = "listing"]
      /\ fetch.start = 0 /\ fetch.cursor = 0 /\ fetch.issues = <<>> /\ fetch.variant = 1
  <2> DEFINE g == [Search!NewFetch EXCEPT !.pc = "listing"]
  <2>1. fetch \in FetchRecord /\ fetch = g
    BY <1>1 DEF ScanInv, FoundOnce
  <2>2. g.start = 0 /\ g.cursor = 0 /\ g.issues = <<>> /\ g.variant = 1
    BY <1>2, NewFetchIs
  <2> HIDE DEF g
  <2>3. fetch.start = 0 /\ fetch.cursor = 0 /\ fetch.issues = <<>> /\ fetch.variant = 1
    BY <2>1, <2>2
  <2>4. QED
    BY <2>1, <2>3 DEF g
<1>4. p \in Search!Projects
  <2>1. CASE listed = {} \/ Search!Requested \in listed
    BY <2>1 DEF Search!Resolve, Search!Requested, Search!Projects
  <2>2. CASE ~(listed = {} \/ Search!Requested \in listed)
    <3>1. listed = {1}
      BY <2>2 DEF Search!Requested, Search!Projects
    <3>2. \E q \in listed : \A r \in listed : q <= r
      BY <3>1
    <3>3. QED
      BY <2>2, <3>2 DEF Search!Resolve
  <2>3. QED
    BY <2>1, <2>2
<1> HIDE DEF p
<1>5. /\ f \in FetchRecord /\ f.pc = "paging" /\ f.project = p /\ f.start = 0 /\ f.cursor = 0
      /\ f.issues = <<>> /\ f.variant = 1
  BY <1>2, <1>3, <1>4 DEF FetchRecord
<1> HIDE DEF f
<1>6. FoundOnce(f)
  BY <1>5, NoIssues DEF FoundOnce
<1>7. "unlisted" \notin stirs' => f.project = Search!Requested
  BY <1>1, <1>5
<1>8. Beginning(f)
  <2>1. UpTo(0) = {}
    BY <1>3, ToSetIs DEF UpTo, Wanted, ScanInv, ScanTyped, Search!Requested, Search!Projects
  <2>2. Search!ToSet(f.issues) = {}
    BY <1>5, NoIssues
  <2>3. UpTo(f.start) = {}
    BY <1>5, <2>1 DEF UpTo
  <2>4. f.cursor = 0 /\ Search!ToSet(f.issues) = UpTo(f.start)
    BY <1>5, <2>2, <2>3
  <2>5. ~(f.start > 0)
    BY <1>5
  <2>6. QED
    BY <2>4, <2>5 DEF Beginning
<1>9. QED
  BY <1>1, <1>5, <1>6, <1>7, <1>8, FetchStep DEF Undisturbed

\* What Keeping and Answers are made of.
LEMMA KeptAre ==
    ASSUME NEW S \in SUBSET Search!Issues, NEW s, NEW t \in Search!Keeping(s, S)
    PROVE  IsListing(t) /\ Search!ToSet(t) = S
<1>1. t \in Search!Listings(S)
  BY DEF Search!Keeping
<1>2. QED
  BY <1>1, ListingsAre

\* An answer: issues of the project, all of them where there is no cursor, and in the first
\* variant of a query in the order of Jira.
LEMMA AnswersAre ==
    ASSUME ScanTyped, NEW p \in Search!Projects, NEW variant, NEW cursor \in Nat,
           NEW answer \in Search!Answers(p, variant, cursor)
    PROVE  /\ IsListing(answer) /\ Search!ToSet(answer) \subseteq Search!ToSet(jira[p])
           /\ cursor = 0 => Search!ToSet(answer) = Search!ToSet(jira[p])
           /\ cursor = 0 /\ variant # 2 => answer = jira[p]
<1> DEFINE all == Search!ToSet(jira[p])
           behind == {x \in all : Search!Number(x) > cursor}
<1>1. IsListing(jira[p]) /\ all \subseteq Search!Issues
  BY ToSetIs DEF ScanTyped, IsListing
<1>2. behind \in SUBSET Search!Issues /\ behind \subseteq all /\ (cursor = 0 => behind = all)
  BY <1>1, NumbersArePositive
<1>3. CASE variant = 2
  <2>1. answer \in Search!Created(behind)
    BY <1>3 DEF Search!Answers
  <2> HIDE DEF behind
  <2>2. answer \in Search!Listings(behind)
    BY <2>1 DEF Search!Created
  <2>3. IsListing(answer) /\ Search!ToSet(answer) = behind
    BY <1>2, <2>2, ListingsAre
  <2>4. QED
    BY <1>2, <1>3, <2>3
<1>4. CASE variant # 2 /\ cursor > 0
  <2>1. answer \in Search!Keeping(jira[p], behind)
    BY <1>4 DEF Search!Answers
  <2> HIDE DEF behind
  <2>2. IsListing(answer) /\ Search!ToSet(answer) = behind
    BY <1>2, <2>1, KeptAre
  <2>3. QED
    BY <1>2, <1>4, <2>2
<1>5. CASE variant # 2 /\ ~(cursor > 0)
  <2>1. answer = jira[p]
    BY <1>5 DEF Search!Answers
  <2>2. QED
    BY <1>1, <2>1
<1>6. QED
  BY <1>3, <1>4, <1>5

LEMMA RestAnswersStep ==
    ASSUME ScanInv, NEW variant, NEW fails \in BOOLEAN, Search!RestAnswers(variant, fails)
    PROVE  ScanInv'
<1> DEFINE pc == IF fails THEN "failed" ELSE "done"
<1>1. PICK answer \in Search!Answers(Search!Requested, variant, 0) :
          fetch' = [Search!NewFetch EXCEPT !.pc = pc,
                       !.issues = IF fails THEN <<>> ELSE Search!Slice(answer, 0, PageSize)]
  BY DEF Search!RestAnswers
<1> DEFINE found == IF fails THEN <<>> ELSE Search!Slice(answer, 0, PageSize)
           f == [Search!NewFetch EXCEPT !.pc = pc, !.issues = found]
<1>2. /\ fetch' = f /\ jira' = jira /\ server' = server
      /\ stirs' = stirs \cup {e \in {"one_page"} : ~fails /\ Len(jira[Search!Requested]) > PageSize}
  BY <1>1 DEF Search!RestAnswers, Search!Note
<1>3. /\ pc \in Search!Pcs /\ pc \in {"failed", "done"} /\ (pc = "done" => ~fails)
      /\ Search!Requested \in Search!Projects /\ PageSize \in Nat /\ ScanTyped
  BY PagesAssumption DEF Search!Pcs, Search!Requested, Search!Projects, ScanInv
<1>4. /\ IsListing(answer) /\ IsListing(Wanted)
      /\ Search!ToSet(answer) = Search!ToSet(Wanted)
  BY <1>3, AnswersAre DEF ScanTyped, Wanted
<1>5. /\ IsListing(found) /\ Search!ToSet(found) \subseteq Search!ToSet(Wanted)
      /\ ~fails /\ Len(answer) <= PageSize => Search!ToSet(found) = Search!ToSet(Wanted)
  <2>1. CASE fails
    BY <2>1, NoIssues
  <2>2. CASE ~fails
    <3> DEFINE slice == Search!Slice(answer, 0, PageSize)
    <3>1. /\ IsListing(slice)
          /\ Search!ToSet(slice) = {answer[i] : i \in {k \in DOMAIN answer : 0 < k /\ k <= 0 + PageSize}}
      BY <1>3, <1>4, SliceIs
    <3>2. /\ DOMAIN answer = 1 .. Len(answer) /\ Len(answer) \in Nat
          /\ \A i \in DOMAIN answer : answer[i] \in Search!ToSet(answer)
          /\ \A x \in Search!ToSet(answer) : \E i \in DOMAIN answer : x = answer[i]
      BY <1>4, ToSetIs DEF IsListing
    <3>3. found = slice
      BY <2>2
    <3> HIDE DEF slice, found
    <3>4. Search!ToSet(slice) \subseteq Search!ToSet(answer)
      BY <3>1, <3>2
    <3>5. Len(answer) <= PageSize => Search!ToSet(answer) \subseteq Search!ToSet(slice)
      BY <1>3, <3>1, <3>2
    <3>6. QED
      BY <1>4, <3>1, <3>3, <3>4, <3>5
  <2>3. QED
    BY <2>1, <2>2
<1>6. Len(answer) = Len(Wanted)
  <2> DEFINE S == Search!ToSet(answer)
             T == Search!ToSet(Wanted)
  <2>1. Len(answer) = Cardinality(S) /\ Len(Wanted) = Cardinality(T) /\ S = T
    BY <1>4, ListingLength
  <2> HIDE DEF S, T
  <2>2. QED
    BY <2>1
<1> HIDE DEF found, pc
<1>7. /\ f \in FetchRecord /\ f.pc = pc /\ f.project = Search!Requested /\ f.issues = found
  <2> DEFINE new == Search!NewFetch
  <2>1. new \in FetchRecord /\ new.project = Search!Requested
    <3>1. "idle" \in Search!Pcs
      BY DEF Search!Pcs
    <3> DEFINE g == [Search!NewFetch EXCEPT !.pc = "idle"]
    <3>2. g \in FetchRecord /\ g.project = Search!Requested
      BY <3>1, NewFetchIs DEF FoundOnce
    <3>3. g = new
      BY DEF Search!NewFetch
    <3> HIDE DEF g, new
    <3>4. QED
      BY <3>2, <3>3
  <2>2. found \in Seq(Search!Issues)
    BY <1>5 DEF IsListing
  <2>3. f = [new EXCEPT !.pc = pc, !.issues = found]
    OBVIOUS
  <2> HIDE DEF f, new
  <2>4. QED
    BY <1>3, <2>1, <2>2, <2>3 DEF FetchRecord
<1> HIDE DEF f
<1>8. FoundOnce(f)
  <2>1. \A x \in Search!ToSet(Wanted) : x[1] = Search!Requested
    BY <1>3 DEF ScanTyped, Wanted
  <2>2. QED
    BY <1>3, <1>5, <1>7, <2>1 DEF FoundOnce
<1>9. stirs' = {} => Undisturbed(f)
  <2>1. ASSUME stirs' = {}, f.pc = "done" PROVE Whole(f)
    <3>1. ~fails /\ ~(Len(Wanted) > PageSize)
      BY <1>2, <1>3, <1>7, <2>1 DEF Wanted
    <3>2. Len(Wanted) \in Nat
      BY <1>4, ToSetIs DEF IsListing
    <3>3. QED
      BY <1>3, <1>5, <1>6, <1>7, <3>1, <3>2 DEF Whole
  <2>2. QED
    BY <1>3, <1>7, <2>1 DEF Undisturbed
<1>10. QED
  BY <1>2, <1>7, <1>8, <1>9, FetchStep

\* One page of a search.

From(f)  == IF server.offset THEN f.start ELSE 0
Stretch(s, from, n) == {s[i] : i \in {k \in DOMAIN s : from < k /\ k <= from + n}}

LEMMA StretchesJoin ==
    ASSUME ScanTyped, NEW from \in Nat, NEW n \in Nat
    PROVE  /\ UpTo(from) \cup Stretch(Wanted, from, n) = UpTo(from + n)
           /\ from >= Len(Wanted) => UpTo(from) = Search!ToSet(Wanted)
           /\ n > 0 /\ Stretch(Wanted, from, n) \subseteq UpTo(from) => from >= Len(Wanted)
<1>1. IsListing(Wanted)
  BY DEF ScanTyped, Wanted, Search!Requested, Search!Projects
<1>2. /\ DOMAIN Wanted = 1 .. Len(Wanted) /\ Len(Wanted) \in Nat
      /\ \A i \in DOMAIN Wanted : Wanted[i] \in Search!ToSet(Wanted)
      /\ \A x \in Search!ToSet(Wanted) : \E i \in DOMAIN Wanted : x = Wanted[i]
      /\ \A i, j \in DOMAIN Wanted : Wanted[i] = Wanted[j] => i = j
  BY <1>1, ToSetIs DEF IsListing
<1>3. UpTo(from) \cup Stretch(Wanted, from, n) = UpTo(from + n)
  <2>1. \A k \in DOMAIN Wanted : 0 < k /\ k <= from + n <=>
            (0 < k /\ k <= from) \/ (from < k /\ k <= from + n)
    BY <1>2
  <2>2. QED
    BY <2>1 DEF UpTo, Stretch
<1>4. from >= Len(Wanted) => UpTo(from) = Search!ToSet(Wanted)
  BY <1>2 DEF UpTo
<1>5. ASSUME n > 0, Stretch(Wanted, from, n) \subseteq UpTo(from), from < Len(Wanted) PROVE FALSE
  <2>1. from + 1 \in DOMAIN Wanted /\ from < from + 1 /\ from + 1 <= from + n
    BY <1>2, <1>5
  <2>2. Wanted[from + 1] \in UpTo(from)
    BY <1>5, <2>1 DEF Stretch
  <2>3. PICK k \in DOMAIN Wanted : k <= from /\ Wanted[k] = Wanted[from + 1]
    BY <2>2 DEF UpTo
  <2>4. QED
    BY <1>2, <2>1, <2>3
<1>6. QED
  BY <1>2, <1>3, <1>4, <1>5

LEMMA PageIs ==
    ASSUME ScanTyped, FoundOnce(fetch),
           NEW answer \in Search!Answers(fetch.project, fetch.variant, fetch.cursor),
           NEW page, page = Search!PageOf(answer, fetch.start),
           NEW added \in Search!Keeping(page, Search!ToSet(page) \ Search!ToSet(fetch.issues))
    PROVE  /\ IsListing(answer) /\ IsListing(page) /\ IsListing(added)
           /\ Search!ToSet(page) = Stretch(answer, From(fetch), server.limit)
           /\ Search!ToSet(page) \subseteq Search!ToSet(jira[fetch.project])
           /\ Len(page) < server.limit => From(fetch) + server.limit > Len(answer)
           /\ Search!ToSet(added) = Search!ToSet(page) \ Search!ToSet(fetch.issues)
           /\ IsListing(fetch.issues \o added)
           /\ Search!ToSet(fetch.issues \o added) = Search!ToSet(fetch.issues) \cup Search!ToSet(page)
           /\ \A x \in Search!ToSet(fetch.issues \o added) : x[1] = fetch.project
<1>1. /\ fetch \in FetchRecord /\ IsListing(fetch.issues)
      /\ \A x \in Search!ToSet(fetch.issues) : x[1] = fetch.project
  BY DEF FoundOnce
<1>2. fetch.project \in Search!Projects /\ fetch.cursor \in Nat /\ fetch.start \in Nat
  BY <1>1 DEF FetchRecord
<1>3. /\ IsListing(answer) /\ Search!ToSet(answer) \subseteq Search!ToSet(jira[fetch.project])
  BY <1>2, AnswersAre
<1>4. From(fetch) \in Nat /\ server.limit \in Nat
  BY <1>2, PagesAssumption DEF From, ScanTyped, Search!Servers
<1> DEFINE from == From(fetch)
           n == server.limit
<1>5. page = Search!Slice(answer, from, n)
  BY DEF From, Search!PageOf
<1> HIDE DEF from, n
<1>6. from \in Nat /\ n \in Nat
  BY <1>4 DEF from, n
<1>7. /\ IsListing(page) /\ Search!ToSet(page) = Stretch(answer, from, n)
      /\ Len(page) < n => from + n > Len(answer)
  BY <1>3, <1>5, <1>6, SliceIs DEF Stretch
<1>8. Search!ToSet(page) \subseteq Search!ToSet(answer)
  <2>1. \A i \in DOMAIN answer : answer[i] \in Search!ToSet(answer)
    BY <1>3, ToSetIs DEF IsListing
  <2>2. QED
    BY <1>7, <2>1 DEF Stretch
<1> DEFINE fresh == Search!ToSet(page) \ Search!ToSet(fetch.issues)
<1>9. fresh \in SUBSET Search!Issues
  BY <1>7, ToSetIs DEF IsListing
<1>10. added \in Search!Keeping(page, fresh)
  OBVIOUS
<1> HIDE DEF fresh
<1>11. IsListing(added) /\ Search!ToSet(added) = fresh
  BY <1>9, <1>10, KeptAre
<1>12. Search!ToSet(fetch.issues) \cap Search!ToSet(added) = {}
  BY <1>11 DEF fresh
<1> DEFINE found == fetch.issues \o added
<1>13. IsListing(found) /\ Search!ToSet(found) = Search!ToSet(fetch.issues) \cup Search!ToSet(added)
  BY <1>1, <1>11, <1>12, AppendedIs
<1> HIDE DEF found
<1>14. Search!ToSet(found) = Search!ToSet(fetch.issues) \cup Search!ToSet(page)
  BY <1>11, <1>13 DEF fresh
<1>15. \A x \in Search!ToSet(jira[fetch.project]) : x[1] = fetch.project
  BY <1>2 DEF ScanTyped
<1>16. \A x \in Search!ToSet(found) : x[1] = fetch.project
  BY <1>1, <1>3, <1>8, <1>14, <1>15
<1>17. QED
  BY <1>3, <1>7, <1>8, <1>11, <1>13, <1>14, <1>16 DEF found, fresh, from, n

IsIgnored(found, added) ==
    fetch.cursor = 0 /\ fetch.start > 0 /\ added = <<>> /\ Len(found) >= PageSize
EndsSearch(page, added, found, total) ==
    page = <<>> \/ (~IsIgnored(found, added) /\ Search!IsLast(page, added, found, total))

\* An undisturbed search has all the issues after its page, or one page more of them and
\* goes on with the next.
LEMMA PageFindsMore ==
    ASSUME ScanInv, stirs = {}, fetch.pc = "paging",
           Search!Simple(server) => ~(Len(jira[fetch.project]) > server.limit),
           NEW answer \in Search!Answers(fetch.project, fetch.variant, fetch.cursor),
           NEW page, page = Search!PageOf(answer, fetch.start),
           NEW added \in Search!Keeping(page, Search!ToSet(page) \ Search!ToSet(fetch.issues)),
           NEW found, found = fetch.issues \o added
    PROVE  \/ Search!ToSet(found) = Search!ToSet(Wanted)
           \/ /\ ~EndsSearch(page, added, found, Len(answer)) /\ fetch.cursor = 0 /\ added # <<>>
              /\ ~Search!Simple(server)
              /\ Search!ToSet(found) = UpTo(fetch.start + PageSize)
<1>1. /\ ScanTyped /\ FoundOnce(fetch) /\ fetch \in FetchRecord
      /\ fetch.project = Search!Requested /\ jira[fetch.project] = Wanted
      /\ Whole(fetch) \/ (Beginning(fetch) /\ fetch.variant # 2)
  BY DEF ScanInv, FoundOnce, Undisturbed, Wanted
<1>2. /\ IsListing(answer) /\ IsListing(page) /\ IsListing(added) /\ IsListing(found)
      /\ Search!ToSet(page) = Stretch(answer, From(fetch), server.limit)
      /\ Search!ToSet(page) \subseteq Search!ToSet(Wanted)
      /\ Len(page) < server.limit => From(fetch) + server.limit > Len(answer)
      /\ Search!ToSet(added) = Search!ToSet(page) \ Search!ToSet(fetch.issues)
      /\ Search!ToSet(found) = Search!ToSet(fetch.issues) \cup Search!ToSet(page)
  BY <1>1, PageIs
<1>3. CASE Whole(fetch)
  BY <1>2, <1>3 DEF Whole
<1>4. CASE ~Whole(fetch)
  <2>1. /\ fetch.cursor = 0 /\ fetch.variant # 2 /\ fetch.start \in Nat
        /\ Search!ToSet(fetch.issues) = UpTo(fetch.start)
        /\ fetch.start > 0 => ~Search!Simple(server)
    BY <1>1, <1>4 DEF Beginning, FetchRecord
  <2>2. answer = Wanted
    <3>1. fetch.project \in Search!Projects /\ fetch.cursor \in Nat
      BY <1>1 DEF FetchRecord
    <3>2. QED
      BY <1>1, <2>1, <3>1, AnswersAre
  <2>3. /\ server.limit \in 1 .. PageSize /\ PageSize \in Nat /\ PageSize > 0
        /\ Len(Wanted) \in Nat /\ Len(page) \in Nat
    <3>1. IsListing(Wanted)
      BY <1>2, <2>2
    <3>2. QED
      BY <1>1, <1>2, <3>1, PagesAssumption, ToSetIs DEF ScanTyped, Search!Servers, IsListing
  <2>4. CASE Search!Simple(server)
    <3>1. fetch.start = 0 /\ From(fetch) = 0 /\ Len(Wanted) <= server.limit
      BY <1>1, <2>1, <2>3, <2>4 DEF From
    <3>2. PICK z \in Nat, n \in Nat : z = 0 /\ n = server.limit /\ z + n = n
      <4>1. 0 \in Nat /\ server.limit \in Nat /\ 0 + server.limit = server.limit
        BY <2>3
      <4>2. QED
        BY <4>1
    <3>3. /\ UpTo(z) \cup Stretch(Wanted, z, n) = UpTo(z + n)
          /\ n >= Len(Wanted) => UpTo(n) = Search!ToSet(Wanted)
      BY <1>1, StretchesJoin
    <3>4. /\ Search!ToSet(fetch.issues) = UpTo(z)
          /\ Search!ToSet(page) = Stretch(Wanted, z, n)
      BY <1>2, <2>1, <2>2, <3>1, <3>2
    <3>5. UpTo(z + n) = UpTo(n)
      BY <3>2
    <3>6. QED
      BY <1>2, <3>1, <3>2, <3>3, <3>4, <3>5
  <2>5. CASE ~Search!Simple(server)
    <3>1. server.limit = PageSize /\ From(fetch) = fetch.start
      BY <2>3, <2>5 DEF Search!Simple, From
    <3> DEFINE from == fetch.start
    <3>2. Search!ToSet(page) = Stretch(Wanted, from, PageSize)
      BY <1>2, <2>2, <3>1
    <3> HIDE DEF from
    <3>3. from \in Nat /\ from + PageSize \in Nat
      BY <2>1, <2>3 DEF from
    <3>4. Search!ToSet(found) = UpTo(from + PageSize)
      <4>1. UpTo(from) \cup Stretch(Wanted, from, PageSize) = UpTo(from + PageSize)
        BY <1>1, <2>3, <3>3, StretchesJoin
      <4>2. QED
        BY <1>2, <2>1, <3>2, <4>1 DEF from
    <3>5. added # <<>>
      <4>1. SUFFICES ASSUME added = <<>> PROVE FALSE
        OBVIOUS
      <4>2. Search!ToSet(page) \subseteq UpTo(from)
        BY <1>2, <2>1, <4>1, NoIssues DEF from
      <4>3. from >= Len(Wanted)
        BY <1>1, <2>3, <3>2, <3>3, <4>2, StretchesJoin
      <4>4. UpTo(from) = Search!ToSet(Wanted)
        BY <1>1, <3>3, <4>3, StretchesJoin
      <4>5. QED
        BY <1>4, <2>1, <4>4 DEF Whole, from
    <3>6. ASSUME Len(page) < PageSize PROVE Search!ToSet(found) = Search!ToSet(Wanted)
      <4>1. from + PageSize >= Len(Wanted)
        BY <1>2, <2>2, <2>3, <3>1, <3>3, <3>6 DEF from
      <4>2. PICK m \in Nat : m = from + PageSize
        BY <3>3
      <4>3. UpTo(m) = Search!ToSet(Wanted)
        BY <1>1, <4>1, <4>2, StretchesJoin
      <4>4. QED
        BY <3>4, <4>2, <4>3
    <3>7. ASSUME Len(found) >= Len(Wanted) PROVE Search!ToSet(found) = Search!ToSet(Wanted)
      <4>1. Search!ToSet(found) \subseteq Search!ToSet(Wanted)
        <5>1. \A i \in DOMAIN Wanted : Wanted[i] \in Search!ToSet(Wanted)
          BY <1>2, <2>2, ToSetIs DEF IsListing
        <5>2. QED
          BY <3>4, <5>1 DEF UpTo
      <4>2. QED
        BY <1>2, <2>2, <3>7, <4>1, AllAreListed
    <3>8. ASSUME EndsSearch(page, added, found, Len(answer))
          PROVE  Search!ToSet(found) = Search!ToSet(Wanted)
      <4>1. CASE page = <<>>
        <5>1. Len(page) < PageSize
          BY <1>2, <2>3, <4>1, NoIssues
        <5>2. QED
          BY <3>6, <5>1
      <4>2. CASE Search!IsLast(page, added, found, Len(answer))
        BY <2>2, <3>5, <3>6, <3>7, <4>2 DEF Search!IsLast
      <4>3. QED
        BY <3>8, <4>1, <4>2 DEF EndsSearch
    <3>9. QED
      BY <2>1, <2>5, <3>4, <3>5, <3>8 DEF from
  <2>6. QED
    BY <2>4, <2>5
<1>5. QED
  BY <1>3, <1>4

\* What a step of the search makes of a fetch, from what it was and what is found now.
LEMMA AddPageStep ==
    ASSUME ScanInv, fetch.pc = "paging", jira' = jira, server' = server,
           stirs' = stirs \cup {e \in {"simple_server"} :
                        Search!Simple(server) /\ Len(jira[fetch.project]) > server.limit},
           NEW answer \in Search!Answers(fetch.project, fetch.variant, fetch.cursor),
           NEW page, page = Search!PageOf(answer, fetch.start),
           NEW added \in Search!Keeping(page, Search!ToSet(page) \ Search!ToSet(fetch.issues)),
           Search!AddPage(page, added, Len(answer))
    PROVE  ScanInv'
<1> DEFINE found == fetch.issues \o added
           behind == Search!Number(found[Len(found)])
           calm == stirs' = {}
<1>1. /\ ScanTyped /\ FoundOnce(fetch) /\ fetch \in FetchRecord
      /\ fetch.project \in Search!Projects /\ fetch.start \in Nat /\ fetch.cursor \in Nat
      /\ fetch.variant \in {1, 2} /\ PageSize \in Nat /\ PageSize > 0
      /\ IsListing(fetch.issues)
      /\ \A x \in Search!ToSet(fetch.issues) : x[1] = fetch.project
      /\ "unlisted" \notin stirs => fetch.project = Search!Requested
  BY PagesAssumption DEF ScanInv, FoundOnce, FetchRecord
<1>2. /\ IsListing(page) /\ IsListing(added) /\ IsListing(found)
      /\ Search!ToSet(added) = Search!ToSet(page) \ Search!ToSet(fetch.issues)
      /\ Search!ToSet(found) = Search!ToSet(fetch.issues) \cup Search!ToSet(page)
      /\ \A x \in Search!ToSet(found) : x[1] = fetch.project
  BY <1>1, PageIs
<1>3. stirs' = {} => stirs = {} /\ (Search!Simple(server) => ~(Len(jira[fetch.project]) > server.limit))
  OBVIOUS
<1>4. calm => \/ Search!ToSet(found) = Search!ToSet(Wanted)
              \/ /\ ~EndsSearch(page, added, found, Len(answer)) /\ fetch.cursor = 0 /\ added # <<>>
                 /\ ~Search!Simple(server)
                 /\ Search!ToSet(found) = UpTo(fetch.start + PageSize)
  <2>1. SUFFICES ASSUME calm
                 PROVE  \/ Search!ToSet(found) = Search!ToSet(Wanted)
                        \/ /\ ~EndsSearch(page, added, found, Len(answer)) /\ fetch.cursor = 0
                           /\ added # <<>> /\ ~Search!Simple(server)
                           /\ Search!ToSet(found) = UpTo(fetch.start + PageSize)
    OBVIOUS
  <2>2. stirs = {} /\ (Search!Simple(server) => ~(Len(jira[fetch.project]) > server.limit))
    BY <1>3, <2>1
  <2>3. PICK g : g = fetch.issues \o added
    OBVIOUS
  <2>4. \/ Search!ToSet(g) = Search!ToSet(Wanted)
        \/ /\ ~EndsSearch(page, added, g, Len(answer)) /\ fetch.cursor = 0 /\ added # <<>>
           /\ ~Search!Simple(server)
           /\ Search!ToSet(g) = UpTo(fetch.start + PageSize)
    BY <2>2, <2>3, PageFindsMore
  <2>5. g = found
    BY <2>3
  <2> HIDE DEF found
  <2>6. QED
    BY <2>4, <2>5
<1>5. \/ EndsSearch(page, added, found, Len(answer)) /\ fetch' = Search!AfterSearch(found)
      \/ /\ ~EndsSearch(page, added, found, Len(answer)) /\ IsIgnored(found, added)
         /\ fetch' = [fetch EXCEPT !.cursor = behind]
      \/ /\ ~EndsSearch(page, added, found, Len(answer)) /\ ~IsIgnored(found, added)
         /\ fetch.cursor > 0 /\ fetch' = [fetch EXCEPT !.issues = found, !.cursor = behind]
      \/ /\ ~EndsSearch(page, added, found, Len(answer)) /\ ~IsIgnored(found, added)
         /\ fetch.cursor = 0
         /\ fetch' = [fetch EXCEPT !.issues = found, !.start = fetch.start + PageSize]
  BY DEF Search!AddPage, EndsSearch, IsIgnored
<1> HIDE DEF found
<1>6. ASSUME found # <<>> PROVE behind \in Nat
  <2>1. /\ found \in Seq(Search!Issues) /\ Len(found) # 0 /\ Len(found) \in Nat
    BY <1>2, <1>6, NoIssues, ToSetIs DEF IsListing
  <2>2. found[Len(found)] \in Search!Issues
    BY <2>1
  <2>3. QED
    BY <2>2, NumbersArePositive
<1>7. /\ found = <<>> <=> Search!ToSet(found) = {}
      /\ found = <<>> <=> Len(found) = 0
      /\ page = <<>> <=> Search!ToSet(page) = {}
      /\ added = <<>> <=> Search!ToSet(added) = {}
  BY <1>2, NoIssues
<1> HIDE DEF behind, calm
<1>8. "unlisted" \notin stirs' => fetch.project = Search!Requested
  BY <1>1
<1>9. found \in Seq(Search!Issues) /\ "done" \in Search!Pcs /\ "rest" \in Search!Pcs
  BY <1>2 DEF IsListing, Search!Pcs
<1>10. CASE EndsSearch(page, added, found, Len(answer)) /\ fetch' = Search!AfterSearch(found)
  <2>1. calm => Search!ToSet(found) = Search!ToSet(Wanted)
    BY <1>4, <1>10
  <2>2. CASE found # <<>>
    <3> DEFINE f == [fetch EXCEPT !.pc = "done", !.issues = found]
    <3>1. fetch' = f
      BY <1>10, <2>2 DEF Search!AfterSearch
    <3>2. f \in FetchRecord /\ f.pc = "done" /\ f.project = fetch.project /\ f.issues = found
      BY <1>1, <1>9 DEF FetchRecord
    <3> HIDE DEF f
    <3>3. FoundOnce(f)
      BY <1>2, <3>2 DEF FoundOnce
    <3>4. calm => Undisturbed(f)
      BY <2>1, <3>2 DEF Undisturbed, Whole
    <3>5. QED
      BY <1>8, <3>1, <3>2, <3>3, <3>4, FetchStep DEF calm
  <2>3. CASE found = <<>> /\ fetch.variant = 1
    <3> DEFINE none == <<>>
               f == [fetch EXCEPT !.variant = 2, !.start = 0, !.cursor = 0, !.issues = none]
    <3>1. fetch' = f
      BY <1>10, <2>3 DEF Search!AfterSearch
    <3>2. none = found /\ none \in Seq(Search!Issues)
      BY <1>9, <2>3
    <3> HIDE DEF none
    <3>3. f \in FetchRecord /\ f.pc = "paging" /\ f.project = fetch.project /\ f.issues = none
      BY <1>1, <3>2 DEF FetchRecord
    <3> HIDE DEF f
    <3>4. FoundOnce(f)
      BY <1>2, <3>2, <3>3 DEF FoundOnce
    <3>5. calm => Undisturbed(f)
      BY <2>1, <3>2, <3>3 DEF Undisturbed, Whole
    <3>6. QED
      BY <1>8, <3>1, <3>3, <3>4, <3>5, FetchStep DEF calm
  <2>4. CASE found = <<>> /\ fetch.variant # 1
    <3> DEFINE f == [Search!NewFetch EXCEPT !.pc = "rest"]
    <3>1. fetch' = f
      BY <1>10, <2>4 DEF Search!AfterSearch
    <3>2. FoundOnce(f) /\ f.pc = "rest" /\ f.project = Search!Requested
      BY <1>9, NewFetchIs
    <3> HIDE DEF f
    <3>3. QED
      BY <3>1, <3>2, FetchStep DEF Undisturbed
  <2>5. QED
    BY <2>2, <2>3, <2>4
<1>11. CASE /\ ~EndsSearch(page, added, found, Len(answer)) /\ IsIgnored(found, added)
            /\ fetch' = [fetch EXCEPT !.cursor = behind]
  <2> DEFINE f == [fetch EXCEPT !.cursor = behind]
  <2>1. fetch' = f
    BY <1>11
  <2>2. added = <<>> /\ found # <<>> /\ Search!ToSet(found) = Search!ToSet(fetch.issues)
    <3>1. added = <<>> /\ Len(found) >= PageSize
      BY <1>11 DEF IsIgnored
    <3>2. found # <<>>
      BY <1>1, <1>7, <3>1
    <3>3. Search!ToSet(page) \subseteq Search!ToSet(fetch.issues)
      BY <1>2, <1>7, <3>1
    <3>4. QED
      BY <1>2, <3>1, <3>2, <3>3
  <2>3. behind \in Nat
    BY <1>6, <2>2
  <2>4. /\ f \in FetchRecord /\ f.pc = "paging" /\ f.project = fetch.project
        /\ f.issues = fetch.issues
    BY <1>1, <2>3 DEF FetchRecord
  <2> HIDE DEF f
  <2>5. FoundOnce(f)
    BY <1>1, <2>4 DEF FoundOnce
  <2>6. calm => Undisturbed(f)
    BY <1>4, <2>2, <2>4 DEF Undisturbed, Whole
  <2>7. QED
    BY <1>8, <2>1, <2>4, <2>5, <2>6, FetchStep DEF calm
<1>12. CASE /\ ~EndsSearch(page, added, found, Len(answer)) /\ ~IsIgnored(found, added)
            /\ fetch.cursor > 0 /\ fetch' = [fetch EXCEPT !.issues = found, !.cursor = behind]
  <2> DEFINE f == [fetch EXCEPT !.issues = found, !.cursor = behind]
  <2>1. fetch' = f /\ fetch.cursor # 0
    BY <1>1, <1>12
  <2>2. found # <<>>
    <3>1. page # <<>>
      BY <1>12 DEF EndsSearch
    <3>2. QED
      BY <1>2, <1>7, <3>1
  <2>3. behind \in Nat
    BY <1>6, <2>2
  <2>4. /\ f \in FetchRecord /\ f.pc = "paging" /\ f.project = fetch.project /\ f.issues = found
    BY <1>1, <1>9, <2>3 DEF FetchRecord
  <2> HIDE DEF f
  <2>5. FoundOnce(f)
    BY <1>2, <2>4 DEF FoundOnce
  <2>6. calm => Undisturbed(f)
    BY <1>4, <2>1, <2>4 DEF Undisturbed, Whole
  <2>7. QED
    BY <1>8, <2>1, <2>4, <2>5, <2>6, FetchStep DEF calm
<1>13. CASE /\ ~EndsSearch(page, added, found, Len(answer)) /\ ~IsIgnored(found, added)
            /\ fetch.cursor = 0
            /\ fetch' = [fetch EXCEPT !.issues = found, !.start = fetch.start + PageSize]
  <2> DEFINE next == fetch.start + PageSize
             f == [fetch EXCEPT !.issues = found, !.start = next]
  <2>1. fetch' = f /\ next \in Nat
    BY <1>1, <1>13
  <2>2. calm => Search!ToSet(found) = Search!ToSet(Wanted)
                \/ (~Search!Simple(server) /\ Search!ToSet(found) = UpTo(next))
    BY <1>4
  <2> HIDE DEF next
  <2>3. /\ f \in FetchRecord /\ f.pc = "paging" /\ f.project = fetch.project /\ f.issues = found
        /\ f.start = next /\ f.cursor = 0 /\ f.variant = fetch.variant
    BY <1>1, <1>9, <1>13, <2>1 DEF FetchRecord
  <2> HIDE DEF f
  <2>4. FoundOnce(f)
    BY <1>2, <2>3 DEF FoundOnce
  <2>5. calm => Whole(f) \/ Beginning(f)
    BY <2>2, <2>3 DEF Whole, Beginning
  <2>6. calm /\ fetch.variant = 2 => Whole(f)
    <3>1. SUFFICES ASSUME calm, fetch.variant = 2 PROVE Whole(f)
      OBVIOUS
    <3>2. Whole(fetch) /\ stirs = {}
      BY <1>3, <3>1 DEF ScanInv, Undisturbed, calm
    <3>3. fetch.project = Search!Requested
      BY <1>1, <3>2
    <3>4. Search!ToSet(page) \subseteq Search!ToSet(Wanted)
      BY <1>1, <3>3, PageIs DEF Wanted
    <3>5. QED
      BY <1>2, <2>3, <3>2, <3>4 DEF Whole
  <2>7. calm => Undisturbed(f)
    BY <2>3, <2>5, <2>6 DEF Undisturbed
  <2>8. QED
    BY <1>8, <2>1, <2>3, <2>4, <2>7, FetchStep DEF calm
<1>14. QED
  BY <1>5, <1>10, <1>11, <1>12, <1>13

LEMMA SearchPageStep == ASSUME ScanInv, Search!SearchPage PROVE ScanInv'
<1>1. /\ fetch.pc = "paging" /\ jira' = jira /\ server' = server
      /\ stirs' = stirs \cup {e \in {"simple_server"} :
                      Search!Simple(server) /\ Len(jira[fetch.project]) > server.limit}
  BY DEF Search!SearchPage, Search!Note
<1>2. PICK answer \in Search!Answers(fetch.project, fetch.variant, fetch.cursor) :
          LET page == Search!PageOf(answer, fetch.start) IN
          \E added \in Search!Keeping(page, Search!ToSet(page) \ Search!ToSet(fetch.issues)) :
              Search!AddPage(page, added, Len(answer))
  BY DEF Search!SearchPage
<1> DEFINE page == Search!PageOf(answer, fetch.start)
<1>3. PICK added \in Search!Keeping(page, Search!ToSet(page) \ Search!ToSet(fetch.issues)) :
          Search!AddPage(page, added, Len(answer))
  BY <1>2
<1> HIDE DEF page
<1>4. page = Search!PageOf(answer, fetch.start)
  BY DEF page
<1>5. QED
  BY <1>1, <1>3, <1>4, AddPageStep

-----------------------------------------------------------------------------
(* Jira, and all steps. *)

LEMMA ChangeStep ==
    ASSUME ScanInv, NEW issue \in Search!Issues, Search!Change(issue) PROVE ScanInv'
<1> DEFINE p == issue[1]
           rest == Search!ToSet(jira[p]) \ {issue}
<1>1. p \in Search!Projects
  BY DEF Search!Issues, Search!Projects, Search!Requested
<1>2. PICK others \in Search!Keeping(jira[p], rest) :
          \/ jira' = [jira EXCEPT ![p] = <<issue>> \o others]
          \/ jira' = [jira EXCEPT ![p] = others]
  BY DEF Search!Change
<1>3. /\ fetch' = fetch /\ server' = server
      /\ stirs' = stirs \cup {e \in {"change"} : fetch.pc # "idle"}
  BY DEF Search!Change, Search!Note
<1>4. /\ jira \in [Search!Projects -> Seq(Search!Issues)] /\ server \in Search!Servers
      /\ \A q \in Search!Projects :
             IsListing(jira[q]) /\ \A x \in Search!ToSet(jira[q]) : x[1] = q
  BY DEF ScanInv, ScanTyped
<1>5. rest \in SUBSET Search!Issues /\ issue \notin rest /\ \A x \in rest : x[1] = p
  BY <1>1, <1>4, ToSetIs
<1> DEFINE q == p
<1>6. issue[1] = q
  OBVIOUS
<1> HIDE DEF rest, p
<1>7. IsListing(others) /\ Search!ToSet(others) = rest
  BY <1>2, <1>5, KeptAre
<1>8. IsListing(<<issue>>) /\ Search!ToSet(<<issue>>) = {issue}
  BY DEF IsListing, Search!ToSet
<1> DEFINE first == <<issue>>
           longer == first \o others
<1>9. IsListing(longer) /\ Search!ToSet(longer) = {issue} \cup rest
  <2>1. IsListing(first) /\ Search!ToSet(first) = {issue}
    BY <1>8
  <2> HIDE DEF first
  <2>2. Search!ToSet(first) \cap Search!ToSet(others) = {}
    BY <1>5, <1>7, <2>1
  <2>3. QED
    BY <1>7, <2>1, <2>2, AppendedIs
<1> HIDE DEF longer
<1>10. \E s \in Seq(Search!Issues) : /\ IsListing(s) /\ \A x \in Search!ToSet(s) : x[1] = p
                                     /\ jira' = [jira EXCEPT ![p] = s]
  <2>1. CASE jira' = [jira EXCEPT ![p] = longer]
    <3>1. \A x \in Search!ToSet(longer) : x[1] = p
      BY <1>5, <1>6, <1>9
    <3>2. QED
      BY <1>9, <2>1, <3>1 DEF IsListing
  <2>2. CASE jira' = [jira EXCEPT ![p] = others]
    BY <1>5, <1>7, <2>2 DEF IsListing
  <2>3. QED
    BY <1>2, <2>1, <2>2 DEF longer
<1>11. PICK s \in Seq(Search!Issues) : /\ IsListing(s) /\ \A x \in Search!ToSet(s) : x[1] = p
                                       /\ jira' = [jira EXCEPT ![p] = s]
  BY <1>10
<1>12. ScanTyped'
  <2>1. jira' \in [Search!Projects -> Seq(Search!Issues)]
    BY <1>1, <1>4, <1>11
  <2>2. ASSUME NEW r \in Search!Projects
        PROVE  IsListing(jira'[r]) /\ \A x \in Search!ToSet(jira'[r]) : x[1] = r
    <3>1. CASE r = p
      <4>1. jira'[r] = s
        BY <1>1, <1>4, <1>11, <3>1
      <4>2. QED
        BY <1>11, <3>1, <4>1
    <3>2. CASE r # p
      <4>1. jira'[r] = jira[r]
        BY <1>1, <1>4, <1>11, <3>2
      <4>2. QED
        BY <1>4, <4>1
    <3>3. QED
      BY <3>1, <3>2
  <2>3. QED
    BY <1>3, <1>4, <2>1, <2>2 DEF ScanTyped
<1>13. FoundOnce(fetch)'
  BY <1>3 DEF ScanInv, FoundOnce, Search!NewFetch
<1>14. "unlisted" \notin stirs' => fetch'.project = Search!Requested
  BY <1>3 DEF ScanInv
<1>15. stirs' = {} => Undisturbed(fetch)'
  <2>1. stirs' = {} => fetch'.pc = "idle"
    BY <1>3
  <2>2. QED
    BY <2>1 DEF Undisturbed
<1>16. QED
  BY <1>12, <1>13, <1>14, <1>15 DEF ScanInv

LEMMA InitScan == Search!Init => ScanInv
<1>1. SUFFICES ASSUME Search!Init PROVE ScanInv
  OBVIOUS
<1>2. jira \in [Search!Projects -> {<<>>}] /\ server \in Search!Servers /\ stirs = {}
      /\ fetch = Search!NewFetch
  BY <1>1 DEF Search!Init
<1>3. ScanTyped
  <2>1. \A p \in Search!Projects : jira[p] = <<>>
    BY <1>2
  <2>2. \A p \in Search!Projects : IsListing(jira[p]) /\ Search!ToSet(jira[p]) = {}
    BY <2>1, NoIssues
  <2> DEFINE none == <<>>
  <2>3. none \in Seq(Search!Issues) /\ jira \in [Search!Projects -> {none}]
    BY <1>2
  <2> HIDE DEF none
  <2>4. jira \in [Search!Projects -> Seq(Search!Issues)]
    BY <2>3
  <2>5. \A p \in Search!Projects : \A x \in Search!ToSet(jira[p]) : x[1] = p
    BY <2>2
  <2>6. QED
    BY <1>2, <2>2, <2>4, <2>5 DEF ScanTyped
<1> DEFINE f == [Search!NewFetch EXCEPT !.pc = "idle"]
<1>4. FoundOnce(f) /\ f.pc = "idle" /\ f.project = Search!Requested
  <2>1. "idle" \in Search!Pcs
    BY DEF Search!Pcs
  <2>2. QED
    BY <2>1, NewFetchIs
<1>5. fetch = f
  BY <1>2 DEF Search!NewFetch
<1> HIDE DEF f
<1>6. QED
  BY <1>2, <1>3, <1>4, <1>5 DEF ScanInv, Undisturbed

LEMMA StepScan == ScanInv /\ [Search!Next]_(Search!vars) => ScanInv'
<1>1. SUFFICES ASSUME ScanInv, [Search!Next]_(Search!vars) PROVE ScanInv'
  OBVIOUS
<1>2. CASE Search!Start
  BY <1>1, <1>2, StartStep
<1>3. CASE Search!ServerFails
  BY <1>1, <1>3, ServerFailsStep
<1>4. CASE Search!Connect
  BY <1>1, <1>4, ConnectStep
<1>5. CASE Search!SearchPage
  BY <1>1, <1>5, SearchPageStep
<1>6. CASE \E listed \in SUBSET Search!Projects : Search!ListProjects(listed)
  BY <1>1, <1>6, ListJiraProjectsStep
<1>7. CASE \E variant \in 1 .. 2, fails \in BOOLEAN : Search!RestAnswers(variant, fails)
  BY <1>1, <1>7, RestAnswersStep
<1>8. CASE \E issue \in Search!Issues : Search!Change(issue)
  BY <1>1, <1>8, ChangeStep
<1>9. CASE UNCHANGED Search!vars
  <2>1. jira' = jira /\ server' = server /\ fetch' = fetch /\ stirs' = stirs
    BY <1>9 DEF Search!vars
  <2>2. /\ FoundOnce(fetch) /\ ("unlisted" \notin stirs => fetch.project = Search!Requested)
        /\ (stirs = {} => Undisturbed(fetch))
    BY <1>1 DEF ScanInv
  <2>3. QED
    BY <1>1, <2>1, <2>2, FetchStep
<1>10. CASE Search!UnreadablePage
  BY <1>1, <1>10, UnreadablePageStep
<1>11. QED
  BY <1>1, <1>2, <1>3, <1>4, <1>5, <1>6, <1>7, <1>8, <1>9, <1>10 DEF Search!Next

LEMMA ScanIsRight == ScanInv => ScanSeesTheProject
<1>1. SUFFICES ASSUME ScanInv PROVE ScanSeesTheProject
  OBVIOUS
<1>2. /\ IsListing(fetch.issues) /\ IsListing(Wanted)
      /\ \A x \in Search!ToSet(fetch.issues) : x[1] = fetch.project
  BY <1>1 DEF ScanInv, ScanTyped, FoundOnce, Wanted, Search!Projects, Search!Requested
<1>3. ASSUME fetch.pc = "done", stirs = {}
      PROVE  /\ Search!ToSet(fetch.issues) = Search!ToSet(Wanted)
             /\ Len(fetch.issues) = Len(Wanted)
  <2> DEFINE S == Search!ToSet(fetch.issues)
             T == Search!ToSet(Wanted)
  <2>1. S = T
    BY <1>1, <1>3 DEF ScanInv, Undisturbed, Whole
  <2>2. Len(fetch.issues) = Cardinality(S) /\ Len(Wanted) = Cardinality(T)
    BY <1>2, ListingLength
  <2> HIDE DEF S, T
  <2>3. Len(fetch.issues) = Len(Wanted)
    BY <2>1, <2>2
  <2>4. QED
    BY <2>1, <2>3 DEF S, T
<1>4. Search!FetchIsComplete
  BY <1>3 DEF Search!FetchIsComplete, Wanted
<1>5. Search!FetchIsSound
  <2>1. Search!IsInjective(fetch.issues)
    BY <1>2 DEF IsListing, Search!IsInjective
  <2>2. "unlisted" \notin stirs => fetch.project = Search!Requested
    BY <1>1 DEF ScanInv
  <2>3. QED
    BY <1>2, <2>1, <2>2 DEF Search!FetchIsSound
<1>6. QED
  BY <1>4, <1>5 DEF ScanSeesTheProject

\* A fetch that is answered has every issue of its project in scope, once and no other, when
\* Jira stands still, lists the project and pages as it is asked to; whatever Jira does, it
\* has no issue twice (fetch_issues_for_readiness, _search_issues).
THEOREM FetchSeesItsProject == Search!Spec => []ScanSeesTheProject
<1>1. Search!Init => ScanInv
  BY InitScan
<1>2. ScanInv /\ [Search!Next]_(Search!vars) => ScanInv'
  BY StepScan
<1>3. ScanInv => ScanSeesTheProject
  BY ScanIsRight
<1>4. QED
  BY <1>1, <1>2, <1>3, PTL DEF Search!Spec
=============================================================================
