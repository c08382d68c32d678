# Verification of the LivingColor delivery plugin

LivingColor takes a Jira ticket from readiness analysis to a merge request. Language
model agents plan, develop and publish; humans decide at *gates*. This directory holds
TLA+ models of the parts of the plugin that decide what runs, when, and after whose
decision, and of what those decisions rely on: the projects, the database, the checkouts,
the sprint, the team. Each model is checked by TLC on small instances; most of what the
runs check is proved with TLAPS for every instance.

Everything is translated from the Python source; `PROJECT.json` maps every definition to
the lines it stands for, every property to a run and to a mutant of the code that
violates it, and every hazard found to the properties that guard it.

    tlc -workers 2 -config chaos.cfg MCDeliveryPipeline.tla
    tlapm DeliveryPipeline_proofs.tla

Sections: 1 inventory, 2 modules, 3 runs, 4 what the models show beyond the runs,
5 proofs, 6 not modelled, 7 plan.

## 1. Inventory

Paths are relative to the repository; `dr/` abbreviates `delivery_runtime/`, `lc/`
`lc_server/`.

| component | state it keeps | operations | talks to | module |
|---|---|---|---|---|
| orchestration engine, `dr/orchestration/engine.py` | rows of `graph_nodes`, `gates`, `work_orders` | `tick`: reconcile, prepare a node, run its agent, persist success or failure | agents, gates, readiness (failure), drafts | `DeliveryPipeline` |
| background ticks and resume, `dr/orchestration/background.py`, `resume.py` | `_tick_execution_lock`, daemon threads | `schedule_orchestrator_tick`, `prepare_work_order_resume` | engine | `DeliveryPipeline` |
| execution graph, `dr/execution_graph/` | `graph_nodes` | default graph, ready nodes, pending gate | engine | `DeliveryPipeline` |
| gates, `dr/gates/` | `gates` | approve, reject, per type | engine, drafts, scope contracts, Jira | `DeliveryPipeline` |
| merge request drafts, `dr/mr_drafts/` | `merge_request_drafts` | create, approve, reject, requeue after a merge conflict | gates, graph, git | `DeliveryPipeline` |
| scope contracts, requeue, `dr/development/requeue.py`, `scope_store.py` | `scope_contracts`, the developer's phase | create a contract, reset development | gates, engine | `DeliveryPipeline` |
| work orders, `dr/work_orders/` | `work_orders` | create from a readiness record | readiness, consumer | `TicketLifecycle` |
| readiness, `dr/readiness/service.py`, `scanner.py` | `readiness_records` with a partial unique index | scan, promote, dismiss, reanalyze | Jira, analysts, work orders, queue | `TicketLifecycle` |
| execution queue and consumer, `dr/pm_inbox/execution_queue.py`, `queue_consumer.py` | `execution_queue_items` | rebuild, start the first ticket, give it back after a failure | readiness, work orders, engine | `TicketLifecycle` |
| daily analysis, `dr/pm_inbox/daily_pipeline.py`, `service.py`, `store.py` | run rows, `_ANALYSIS_LOCK` | reserve, scan, propose comments, complete or fail, give up after 90 minutes | dispatcher, queue, sprint | `DailyAnalysis` |
| analysis dispatcher, `dr/readiness/analysis_dispatcher.py` | result cache, semaphore | up to five analyses with a timeout each | analysts | `DailyAnalysis` |
| comment proposals, `dr/pm_inbox/inbox.py`, `service.py` | proposals | propose, replace, edit, approve, reject | Jira | `DailyAnalysis` |
| automation scheduler, `dr/automation/scheduler.py` | slots already run | due checks, start of the daily run and of the report | daily analysis, sprint | `DailyAnalysis`, `SprintCycle` |
| sprint, `dr/pm_inbox/sprint_*.py`, `lc/integrations/stripe_billing.py` | the `sprint_state` row | select, rebuild, roll over, report, invoice | Stripe, messaging | `SprintCycle` |
| persistence, `dr/persistence/db.py` | the SQLite file, its version, locks | copy of a legacy file, column patches, migrations, ids | everything | `StorageStartup` |
| cloud queue and team, `lc/integrations/cloud_sync.py`, `firestore_store.py`, `cloud_api/routes/` | `pending_cloud_events`, documents of a team | mirror, queue, flush; invite, join, remove, lock, snapshot | cloud API, Firestore | `TeamWorkspace` |
| development workspace, `dr/development/workspace.py`, `git_branch.py`, `scope_enforcement.py` | git checkouts | prepare, confine, roll back, diff, merge check, commit, push | git, agents | `SharedCheckout` |
| guards of the agents, `workspace_confinement.py`, `command_policy.py`, `dr/shadow/guards.py` | guards by task, environment variables | activate, judge a tool call, deactivate | the agents' host | `AgentGuards` |
| project registry and settings, `dr/automation/local_projects.py`, `dr/readiness/project_settings.py` | `project_mapping.yaml`, `delivery.yaml` | register, activate, set, connect, share, remove | cloud API, MCP servers | `ProjectSettings` |
| provisioning of agents, `lc/provisioning/` | manifests and a state file per project | setup, change of the default repository, upgrade at start | projects, GitLab | `Provisioning` |
| Jira search, `jira_dashboard/service.py`, `lc/integrations/jira_readiness.py` | a cached MCP session | list projects, page through issues, fall back to REST | Jira, scanner | `JiraSearch` |
| plan context, skills, chat, PM profile, billing keys, Firebase sessions, tools, UI, scripts | documents, settings | formatting, display, lookup, registration | – | – |

What is hard here:

* **Grain.** Each `with connect()` block holds the process wide `_db_lock`, but one
  request is several such blocks. Approving a code review is four transactions; between
  them no gate is pending and any tick may run. The sprint's memory is patched by reading
  the row in one transaction and writing it back in another. The cloud store uses no
  transaction at all, and the mapping of projects is a file that is read and rewritten
  whole.
* **Ticks.** A scheduled tick takes `_tick_execution_lock`, one lock for all work orders.
  The ticks of a promotion, of the queue consumer and of a merge conflict do not take it.
* **Time.** Resume treats a node as stuck after 90 s; a developer run takes longer. A
  daily run counts as lost after 90 minutes and may still run. A timed out analysis goes
  on in its thread.
* **Staleness.** A scan reads which tickets to leave alone, then waits minutes for
  analysts, then writes. The consumer checks that nothing is in development several
  transactions before it starts something. A publisher pushes what is in the checkout
  days after the review.
* **Failure.** A restart loses threads between any two transactions; the failure of an
  agent reopens a readiness record, which the unique index may refuse; an upgrade of the
  database commits statement by statement; a call to Stripe, Firestore or Jira fails
  after part of the work, or its answer is lost.
* **Process wide state.** Guards, the configured servers and environment variables belong
  to the process, while runs and requests of several tickets and projects share it.

What makes the components correct: approvals precede what they allow; a work order that
waits has something to decide and one that does not wait goes on; one agent at a time
works on a node; decisions are final; the published draft is the approved one, and the
published patch the reviewed one; a ticket has one open record and at most one active work
order, and is delivered once; a verdict is not taken for one of a newer text and a human's
word stands; only delivered work is billed, and once; a queued event arrives; a
database that is in use is complete; a stored setting stays; an agent does what its role
and contract allow.

## 2. Modules

| module | role |
|---|---|
| `DeliveryPipeline` | one work order: graph, ticks, gates, drafts, resume, restarts |
| `MCDeliveryPipeline`, `MCDeliveryModes` | its small instances; the second runs live mode, shadow mode and a delivery without restarts side by side |
| `HumanGatedDelivery` | what the delivery promises, without threads and tables |
| `DeliveryRefinement`, `MCDeliveryRefinement` | the refinement mapping from the pipeline to that promise, and its instances |
| `DeliveryPipeline_proofs` | theorems about the pipeline and the refinement |
| `TicketLifecycle`, `MCTicketLifecycle` | the tickets of a project: records, queue, daily analysis, promotions, work orders |
| `TicketLifecycle_proofs` | theorems about it |
| `DailyAnalysis`, `MCDailyAnalysis` | the runs of the daily analysis, the dispatcher, estimates and proposals |
| `DailyAnalysis_proofs` | theorems about it |
| `SprintCycle`, `MCSprintCycle` | selection, roll over, report and invoice of the sprint |
| `SprintCycle_proofs` | theorems about it |
| `SharedCheckout`, `MCSharedCheckout` | the checkouts in which agents work and from which they publish |
| `SharedCheckout_proofs` | theorems about them |
| `TeamWorkspace`, `MCTeamWorkspace` | a team in the cloud and the queues of its members |
| `TeamWorkspace_proofs` | theorems about it |
| `StorageStartup`, `MCStorageStartup` | how processes bring the database to the current schema |
| `StorageStartup_proofs` | theorems about it |
| `AgentGuards`, `ProjectSettings`, `Provisioning`, `JiraSearch` | what a delivery relies on, four parts that do not share state |
| `Workplace` | the four side by side, and what a delivery expects of each |
| `Workplace_proofs` | theorems about them |
| `MCWorkplace` | their instances, one run |

In the modules with a `setting` the run starts in one of several instances (`INSTANCE
... WITH`) and stays in it. A property that only holds under some discipline says so itself:
its premise is about `incidents`, a variable that collects what went wrong so far (two
requests overlapped, a call failed, the server stopped). It is an observer, no step reads
it, and a run that holds the property has met these incidents as well as their absence.

### DeliveryPipeline

| variable | code |
|---|---|
| `node` | `graph_nodes.status`, one row per node type |
| `devPhase`, `nodeDraft` | `developerPhase` and `draftId` in node payloads, the only payload fields the engine branches on |
| `gate` | rows of `gates`: type, status, the draft in the payload |
| `draft` | `merge_request_drafts.status` |
| `woStatus` | `work_orders.status` |
| `scope` | there is a row in `scope_contracts` |
| `tick` | a thread in `orchestrator.tick`: where it is, whether it holds the tick lock, the node it runs and the payload it read when it started |
| `handler` | an HTTP decision between two of its transactions |
| `published` | drafts with a merge request on the VCS (external) |

One transaction is one step. A tick is: `AcquireTickLock`, `ReconcileMergedQa`, then
`PauseAtGate`, `NothingReady`, `RefuseToPublish` or `StartNode`, and after the agent
`PlanSucceeds`, `DevelopmentSucceeds`, `PublicationSucceeds` or `NodeFails`. A decision
is its first transaction (`ApproveAnalysisPlan`, `ApproveCodeReview`, `RejectPlan`, ...)
and, where the handler goes on, the steps in `HandlerStep`. The two reads with which the
draft service checks a decision are one step, because neither can be made true by another
thread once it is false, and the second only repeats what the first implies for drafts of
one gate.

`Environment` says what may happen around the code:

* `clarification`, `agent_failure`, `merge_conflict`, `mr_rejection`, `crash`: as named;
* `refused_failure`: the failure of an agent cannot be recorded, because the unique index of
  the readiness records refuses to reopen the ticket's (`FailureIsRefused`): the
  transaction rolls back, the tick ends and the node stays `running`;
* `long_run`: an agent run may outlast the 90 s of resume;
* `resume`: resume is called only when no thread moves and no gate waits;
* `impatient_resume`: resume is called at any time. The API accepts it, the UI shows the
  button, and `scripts/cloud-workflow-frt.py` calls resume repeatedly while it polls. The
  resumed tick really may start anywhere between two transactions of a handler, because
  the handler does not hold the tick lock.

In shadow mode nothing is left to publish after a draft is approved: the work order stops
there (`awaiting_next_phase`) and never completes, in the code as in the model.

### TicketLifecycle

`record`, `order` and `queue` are the tables `readiness_records`, `work_orders` and
`execution_queue_items`; `head` is the ticket in position 1. `daily` is the one thread
that holds `_ANALYSIS_LOCK`, with what it read: the excluded tickets while it analyses,
the rows it is about to write, then the consumer's record and order. `scan` is a scan
asked for through the API, which does not take that lock. `promotion` is the requests
between two transactions of `promote`. `OrderFails`, `PublicationFails`, `OrderCompletes`
and `ResumeFailed` are what `DeliveryPipeline` does to its work order seen from the ticket.
An agent that fails gives the ticket back in the same transaction; when the index refuses
that, the transaction rolls back, so `OrderFails` is not enabled.

Scores, estimates and the ranking are data: the verdict on a ticket and the head of the
queue are free choices. `Environment` says whether scans are asked for (`manual_scan`),
whether a work order is resumed though its ticket moved on (`resume_failed`), and whether
requests interfere (`interfere`): a scan, an analysis, a promotion or a resume begins while
another is in progress, or the record of a ticket in delivery is dismissed. An interference
is an incident, and the properties about failures, repeated deliveries and the consumer
are meant where there was none.

### HumanGatedDelivery

Five artifacts are worked on in order; the machine presents each, and only a human moves
the delivery on, by one. A plan or patch may be redone, an approved patch may conflict,
an agent may stop and be retried. `DeliveryRefinement` maps a pipeline to it: whose turn
it is comes from the pending gate and the status of the work order; what is worked on
comes from the type of the gate, from a handler that is making a draft, or from the first
node that is not completed.

### DailyAnalysis

`runs` is `daily_analysis_runs`, where `old` stands for the 90 minutes; `lock` is
`_ANALYSIS_LOCK`; `slot` is the scheduler's memory of the slot it started; `record`,
`latest` and `proposals` are the rows a run leaves. A thread reserves a row
(`PollInbox`, `Request`, `Scheduled`), waits for the lock, fetches, and hands its tickets
to analysts: `TakeTicket`, then `AgentAnswers`, `AgentFails` or `AgentTimesOut`. A
timed out analyst is `stray`: its thread runs on. The outcomes are stored in one
transaction, proposals in another, and `Complete` closes the row. Humans edit
(`EstimateByHand`), decide in two transactions (`ReadProposal`, `WriteDecision`), have the
project scanned (`Scan`: the same steps up to the storing, without a row and without the
lock; `RequestFails` where it fails) or one ticket analysed (`Reanalyze`, one transaction
that reads Jira and the analyst's answer), and Jira changes (`ChangeTicket`). `NewDay`,
`GrowOld` and `GiveUp` are time passing and what follows from it.

The text of a ticket is a version number. Of a record, `of` is the version of the snapshot
it keeps, which is the text of its verdict, and `hash` the version its
`analysis_input_hash` is of; `Reanalyze` writes the first and not the second. Versions only
grow: a text that is changed back to exactly what it was counts as new. A scan or a
`Reanalyze` that meets an analysis is the incident `interference`.

### SprintCycle

`sprint` is the `sprint_state` row. A thread works through a report (`Check`,
`CreateItem` per invoice line, `CreateInvoice`, `Deliver`), each Stripe call a step; the
memory of the sprint is patched as the code does it, by reading the row in one
transaction (`ReadForPatch`) and writing all of it back in another (`WriteInvoiceKey`,
`WriteReportKey`). A roll over (`PrepareReset`, `WriteReset`) and a rebuild
(`PrepareRebuild`, `WriteRebuild`) are read and write too. `pending` and `invoiced` are
bags of Stripe items, since Stripe accepts the same item twice. An item is a set of
tickets; its lines are any that the validator accepts, since an agent proposes them. Days
are numbers; a sprint is due on multiples of `DaysPerWeek`.

### SharedCheckout

`repo` has, per checkout, the branch, the tree, the index and the tips; a tree says for
each of three paths (in the plan, outside it, new) whose changes it holds. A step is the
git commands the code runs for one purpose: `Prepare`, an agent's `WriteFile` and
`RunCommand`, `Finish` (clean up, collect the patch, test, open the review),
`ApproveDraft` with its merge attempt, `Publish` with its commit. `MayCheckout`,
`Carried` and `Merges` are what git does with uncommitted changes and with two histories,
external to the repository. A managed checkout is shared by all work orders, another one
is copied for each.

### TeamWorkspace

`role`, `profile`, `invite`, `lock`, `snapshot` and `log` are documents in Firestore; the
store uses no transaction, so a request reads, then writes one document per step (`Sync`
for the index of organizations in a profile is a read and a write back). `local`, `queue`
and `clock` are the desktop's side: `Change` is a transaction of the engine with its event,
which is posted or queued; `Flush` sends the queue as one batch, the cloud answers which it
accepted, and `MarkFlushed` forgets those. A queue is a set of events, since each carries
the version of its work order and the flush sends them by it. `Bootstrap` and what follows
is what a user signing in triggers. `Founder` made the team.

### StorageStartup

Each DDL statement is a step, since sqlite3 commits them one by one: a script is a
sequence of `Open`, `Create`, `Add` and `Stamp`. A process copies a legacy file
(`CheckLegacy`, `CopyLegacy`), patches columns without a lock, then takes the file lock
and upgrades or makes the schema. `OpenFile` creates an empty database, as sqlite does.
`NextPublicId` and `Commit` are a transaction that hands out an id. `Stop` and `Crash` end
a process; `LockedOut` is a lock timeout. Tables one script makes in a row are one name.

### AgentGuards, ProjectSettings, Provisioning, JiraSearch

These four share no variable. `Workplace` puts them beside each other and states what a
delivery relies on; `MCWorkplace` runs one of them at a time.

`AgentGuards`: two registries under the name of the task, a role per thread, and
`TERMINAL_CWD`. A run registers its guards (`Activate`, `RegisterScope`), has its calls
judged (`CallConfined`, `CallOutOfScope`, `CallCarriedOut`), and takes its guards down
(`ClearScope`, `Deactivate`); its result is judged from what the guards recorded. A call
is one of fifteen kinds. The host that calls the checks is external: the model says what
the checks answer when they are asked.

`ProjectSettings`: `mapping` is `project_mapping.yaml`. Every change reads the whole file
(`ReadMapping`), truncates (`Truncate`) and writes it (`WriteMapping`); a reader in between
finds it empty (`torn`). A request first passes the middleware, which activates its
project, then its handler. A field is unset, a default or what the user chose; a Jira
server is whose address and whose credentials it has. `LIVINGCOLOR_PROJECT_KEY`, which
goes before the active key, is left out: only the subprocess of a chat sets it. So are the
later writes of the same PUT (repository, linked key, branch, provider), which repeat the
read and the write of the whole mapping that `StoreSettings` has.

`Provisioning`: `file` holds a manifest per role and the state file, each absent,
truncated or whole with the version and repository it names and whether a human edited
it. `Setup` writes manifests, then the state; `ChangeRepo` patches them; `StartUpgrade`
renders again what nobody edited. A manifest may also be text that is not YAML (`Break`,
by hand): `yaml.safe_load` then raises what neither `upgrade.py:79` nor
`project_settings.py:376` catches, so the patch or the upgrade ends there (`GiveUp`), and an
upgrade ends before the projects that follow (`MissUpgrade`). Both are the incident
`broken`.

`JiraSearch`: `jira` is the project's issues by last update; `server` is how the Jira
server pages. A fetch connects, lists projects, pages (`SearchPage`), and turns to REST
where that fails or finds nothing. `Answers` is what the JQL of a variant finds behind the
cursor; `AddPage` is the rest of a turn of the loop of `_search_issues`, from the page it
got to where it goes on; `UnreadablePage` is a page without a list of issues (a body that
does not parse, or one that says it failed), which ends the search with what it has. Lists
of issues are the sequences without repetition (`Listings`).

## 3. Runs

Runs that pass, with distinct states and rough times on two workers:

| run | question | states |
|---|---|---|
| `chaos` | With every event of the environment but clarification, two ticks, two concurrent decisions and a database that may hold legacy work orders: approvals come first, a completed work order was delivered | 1.20 M, 98 s |
| `disciplined` | One decision at a time, resume only at rest, no crash, no rejected draft, no refused failure: is the published draft the approved one through rejected plans and code reviews, failures, retries and merge conflicts, are decisions and completions final, does the delivery implement `HumanGatedDelivery` | 90 k, 8 s |
| `restarts` | Live and in shadow mode, restarts between any two transactions: one pending gate, one run per node; in shadow mode nothing is published as long as branches merge. Without restarts (`lasting`: rejected drafts, failures that the database refuses to record, eight gates and three drafts): does the delivery come back to a human, but for the three named ways in which the code leaves it behind | 1.23 M, 2 min |
| `tickets` | One ticket with every overlap (`races`), two with promotions apart from analyses (`apart`): one open record, one active order; apart, failures can be recorded, deliveries happen once, the consumer starts alone | 1.89 M, 2 min |
| `daily` | One ticket, two threads and a human: two runs and two proposals with every incident of the runs (`runs`); one run, and scans and single analyses that meet it anywhere (`asked`). A verdict without an error is not older than the text it would be reused for, one of a newer text does not give way to one of an older where scans keep apart, a human's estimate and decisions stand | 2.10 M, 108 s |
| `sprint` | One thread with every failure (`alone`) or with changing verdicts (`analysed`), two threads that meet anywhere (`meeting`): only delivered work is billed and what is named as reported went out; alone, nothing is billed or reported twice and a manual selection stands | 1.75 M, 141 s |
| `checkout` | Two tickets in turn in a shared checkout (`queue`), one with every failure and a late target (`late`, `copy`) or a diverged one (`drift`): a patch is its ticket's own, what is pushed was reviewed, team branches stay clean | 143 k, 5 s |
| `team` | Two users who go offline, lose answers, crash and flush late: queued events arrive, the snapshot never goes back, the index follows membership, an admin remains | 2.40 M, 104 s |
| `storage` | Two processes, databases of four old versions, a legacy file or none, a crash between any two statements: whoever is initialized works on a complete schema, ids are unique, every process is served | 81 k, 12 s |
| `workplace` | The four parts a delivery relies on, in seven settings: guarded agents, projects and settings that stay, complete manifests (with a broken one in `unparsed`), complete searches | 662 k, 157 s |

*Fairness.* `ComesBackToAHuman` is checked in the setting `lasting` of `MCDeliveryModes`. Weak
fairness on the steps of a tick and on the end of an agent run is what the code gives:
ticks are daemon threads that wait for a lock every holder releases, and agents have a
budget of turns (60, 12 and 16) and timeouts. Handlers run to their end in the server's
thread pool. No fairness is put on humans, on resume or on failures. One thread is fair to
the lock only as far as the lock is: the bound of two ticks hides no starvation, since a
third waiting tick is one that finds a gate or nothing ready when its turn comes.
The formula has three exceptions, ways in which the code itself leaves a work order without
a question; section 4 gives the sequence of each. `DraftIsRejected`: no tick is scheduled
after a rejected draft. `FailureIsUnrecorded`: a refused failure leaves the node `running`
with nobody at work. `GraphIsDone`: a delivery that was resumed past its conflict. The
first two wait for a resume that nobody is asked for, the third has nothing left to run;
everything else comes back by itself.
`EveryProcessIsServed` is checked under `FairSpec` of `StorageStartup`: a process goes on,
and starts anew after it failed, because requests keep coming (the UI polls).

*Bounds.* Four gates are one delivery from plan to closing (`chaos` needs no more, since
its properties are about the order of approvals); seven gates and two drafts let a plan be
redone, a code review be rejected, and a merge conflict start a second round with a second
draft; eight and three, in `lasting`, leave room for a rejected draft and a conflict
besides. Two ticks are the least with an overlap; two handlers the least with two decisions
of one gate. In `tickets` two orders and three records let a ticket be promoted, given
back, scanned again and promoted again, and leave a record for a second ticket, which is
what the consumer and a promotion can disagree about. In `daily` two runs are one given up
for lost and the one that replaces it, two threads the two that run them, and a limit of
one analyst makes a slot contended at once; two versions of the text are an old one and a
new one. In `sprint` two tickets make two invoice lines, of which one may fail, and two
sprints a report of the one before; a sprint and a week have one day there, so that a
sprint is due every day, and the capacity leaves a ticket in the backlog. In `team` two
changes of a work order are what can arrive in the wrong order, two users the one who
removes and the one who is removed. In `storage` old versions 3, 6, 10 and 12 take each
branch of the upgrade. In `workplace` three requests are a setting stored, something that
may lose it, and something that would notice; pages of two and three issues make a second
page. A failure happens once per behaviour where a module says so ("Bound"): nothing is
checked about two failures in one behaviour there. A bound that is reached disables the
step that would exceed it, so these runs say nothing past it; the liveness property of the
pipeline excuses it (`BoundReached`).

*Symmetry* is used only over model values that `Init` and the actions do not tell apart,
and in no run with a liveness property. The requests of `workplace` are such values, each
made once, and are made in one order instead (`InOrder`). `CHECK_DEADLOCK FALSE` is set
where work really ends.

Runs that violate a documented claim, each with the line that states it under "findings"
in `PROJECT.json`:

| run | what happens |
|---|---|
| `unreviewed_publication` | a resumed tick between the approval of a code review and the gate of the draft publishes a draft nobody approved |
| `broken_bootstrap` | a stop after the first table of a new database leaves a file that the next start takes for an old one: it upgrades it, stamps the current version, and works without the other tables |

## 4. What the models show beyond the runs

The properties of the runs hold in the settings of the runs. Outside them these
counterexamples exist; most can be repeated by changing a line of a cfg, and where a
property names an incident in its premise, that incident is one of them.

Delivery:

* `OnePendingGate`, and with it the order of the nodes, with `{"merge_conflict",
  "impatient_resume"}`: the requeue after a merge conflict resets development only
  (`dr/development/requeue.py:16`), so a second tick publishes the old draft while
  development runs again;
* `CompletedIsFinal`, with the environment of `restarts`: after the same
  requeue a restart in the middle of the resolution is enough; the old draft is published,
  the work order completes, and the next resume reopens it;
* `ShadowPublishesNothing`, if branches may conflict: a code review rejected after a merge
  conflict resets the publication node that shadow mode had completed, with the old draft
  attached; a restart before the next draft lets the engine start a publisher, and only the
  tool guards of `dr/shadow/guards.py` (`AgentGuards`) stand;
* a rejected draft: no gate is pending and the publication node is ready, so resume
  publishes it; without a resume the work order stays `running` and asks nobody
  (`ComesBackToAHuman` without `DraftIsRejected`, with `{"mr_rejection"}`);
* a refused failure leaves `running` on the node, the work order and the screen, with no
  thread (`FailureIsUnrecorded`). When it hits the resolution of a merge conflict and
  resume comes at once, the old draft is published first, since its node is still ready;
  the resolution is reset by a later resume, and when it is done no node is left to run:
  the work order is `running`, its graph complete and nothing pending (`GraphIsDone`);
* a resume after 90 s resets the node of a developer that still works;
* `DecisionsAreFinal`, with two handlers and `{"mr_rejection"}`: an approval and a
  rejection of one draft both pass the check and both write (`dr/mr_drafts/service.py:96`);
* `resume` writes a status, `in_progress`, that `work_orders/models.py` does not list.

Tickets and daily analysis:

* `OneActiveOrder`, with `{"resume_failed"}`: a failed work order is resumed after its
  ticket was given back and promoted again (`dr/orchestration/resume.py:44`);
* `FailureCanBeRecorded` without its premise, with `{"interfere"}`: a scan stores what it
  found about a ticket promoted meanwhile (`dr/readiness/scanner.py:87`); the index then
  refuses to record the failure of its work order. A promotion between the consumer's
  check and its creation starts two developments;
* `VerdictsOnlyGetNewer` without its premise: a scan asked for through the API, or the
  analysis of one ticket, takes no lock; the one that read the older text may be the last
  to store, and the verdict of the newer text is lost until the next run
  (`dr/readiness/service.py:73`, `dr/readiness/scanner.py:116`). The older hash is stored
  with it, so the next run does see that the text has changed (`NoOutdatedVerdict`);
* an estimate a human gives during a run is overwritten by the row the run has read before
  (`dr/pm_inbox/daily_pipeline.py:281`), and the second of two decisions on one proposal
  overwrites the first; a run given up after 90 minutes completes over its failure;
* `ReusesUnchanged` of `DailyAnalysis`: "Automatic runs are incremental and reuse cached
  results when the relevant Jira input has not changed"
  (`docs/superpowers/specs/2026-06-16-analyst-async-optimization-design.md:38`), but a
  human's analysis of one changed ticket stores the new verdict and text and keeps the old
  hash (`dr/readiness/service.py:204`): the next run analyses the same text again;
* `AtMostConcurrency` of `DailyAnalysis`: an analyst that timed out frees its slot and
  runs on (`dr/readiness/analysis_dispatcher.py:243`).

Sprint:

* two threads that meet bill and report one sprint twice, a selection made during a report
  is overwritten when the report patches the row, and a forced report goes out again;
* a Stripe call that fails after an item was created leaves the item pending: the retry
  creates it anew and the invoice includes both (`lc/integrations/stripe_billing.py:58`);
* a rebuilt selection leaves out tickets already delivered, so a later report of the
  sprint does not list them.

Checkout:

* `PatchIsOwn` where another ticket's run failed or was blocked before, where the target
  appears late, or with `overlap`: what the other left in the shared tree enters the patch;
* `PublishesWhatWasReviewed` where the integration branch and the merge target conflict
  (`drift`) and an agent leaves stray files besides: one that a blocked resolution of the
  conflict left is missing from the review of a later round, and is committed with it.
  `drift` without stray files does not reach it (run `checkout`).

Team:

* `SentOrQueued`, at the end of `TeamWorkspace`: an event mirrored inside an open
  transaction, or refused by the cloud, is neither sent nor queued
  (`lc/integrations/cloud_sync.py:63`, `dr/events/store.py:31`);
* two removals that overlap leave a team without an admin; a crash between the documents of
  a request leaves a profile that does not agree with the team.

Storage:

* with `copy_race`, two processes copy the legacy file, although it is meant to happen once
  (`dr/persistence/db.py:613`), and the second copy takes back what was committed since.
  The copy is one step in the model: a stop in its middle is left out.

Guards:

* without a contract nothing confines writes; two runs of one task share their names, so the
  end of the first takes the guard of the second, or the refusals of one are blamed on the
  other; a factory that fails leaves the guard registered;
* the phase that resolves merge conflicts lifts the ban on git writes as a whole, `git push`
  included (`command_policy.py`); the prompt says no update of Jira, and in standard mode
  no guard refuses one.

Projects and settings:

* requests that overlap lose settings: every request with a project header rewrites the
  mapping, through the hook that stores the server; a reader may meet a truncated file;
* a project only in `delivery.yaml` is forgotten when another is activated, which a request
  for a project that is not listed brings about (it stores a server for it first); a stop
  between the two files of a removal leaves a name whose next share overwrites the cloud's
  settings;
* the first registration adds the phantom project `BN`; a new project inherits the sprint
  settings of the active one; a body without credentials takes over those of another
  project; a live Jira session is not connected anew when the project changes. Larger
  instances (four requests in turn, 472 k states; all kinds at once, 3.8 M) agree.

Provisioning:

* a setup without `force` after an update of the plugin overwrites edits that the upgrade at
  the start keeps; a stop during a patch or an upgrade leaves an empty manifest that setup
  still takes for ready; a repository changed during a setup leaves manifests that disagree;
  a project removed and registered again finds its old manifests;
* one manifest that is not YAML ends the upgrade of all projects at every start. A project
  that was ready stays so, without the manifests of roles that are new in the bundle
  (`AutomationHolds` without its premise about `broken`, setting `unparsed`); a change of
  the repository reaches only the manifests before it.

Jira:

* a server that caps a page below 200 ends the search after the first page; one that
  ignores `start_at` is paged with `key > last` in an order by update, which skips issues;
  an issue updated during a search is missed; a page that cannot be read ends the search as
  if it were the last, without an error or REST; REST returns one page; a requested project
  that is not listed is replaced by the first one that is, although `jira_readiness.py` has
  an error for it.

## 5. Proofs

A theorem holds for every value of the constants: any number of gates, tickets, threads,
users, processes. The theorems rest at most on the assumptions the modules name for their
constants and on what their statements name: some are about every environment, some about
environments without a given event, and some have the incidents in the premise of the
property. Each such limit is one TLC found a counterexample beyond (section 4).
`PROJECT.json` lists for each theorem the property of a run it states.

### DeliveryPipeline

In every environment, shadow mode, legacy graphs and concurrent decisions included:

| theorem | says |
|---|---|
| `TypeCorrect` | `Spec => []TypeOK` |
| `ApprovalsComeFirst` | `Spec => []HumansDecideFirst`, the inductive invariant |
| `DevelopmentFollowsApproval` | no developer runs, or is ready to, before the plan is approved |
| `PublicationFollowsReview` | no publisher runs without a draft or before a code review is approved |
| `AwaitedGateExists` | a work order that awaits a gate has one pending |
| `CompletedIsDelivered` | a completed work order was approved at each stage and published |

*Why the invariant is needed:* "development is not ready before the plan is approved"
does not survive a step on its own, because a tick makes development ready when the plan
is completed and no gate is pending. So `PlanIsDecided` says a completed plan is approved
or is being asked about, and `PlanComesFirst` spreads the approval to every later node,
run, gate and handler, since each of them can finish late and write back.
`ReviewComesFirst` does the same for drafts, publishers and the question about Jira.
`UncheckedDecisionsAreAboutDrafts` is what keeps approvals from being lost: the draft
service decides a gate without looking at it again, and would take back an approval if
that gate could be anything but a draft's. `StatusMoves` then says that gates and status
change together, which gives the last two theorems.

Where the work order is not a legacy one, one request decides at a time and resume comes at
rest (`OneAtATime`); agents may fail, branches conflict, humans reject, servers restart:

| theorem | says |
|---|---|
| `OneThingAtATime` | `Spec => []SoloInv`, the inductive invariant |
| `OneGateAtATime`, `OneRunAtATime` | one gate is pending, one run works on a node |
| `AwaitedWhilePending` | the work order says it awaits a gate exactly while one is pending |
| `DecidedForGood` | a decided gate stays as it was decided |
| `ShadowStaysDry` | in shadow mode, where branches merge, nothing is published |

`SoloInv` has three parts. `Alone`: a tick at work is the only one, and no handler is
between two transactions; so there is one thread of control. `GateStops`: a pending gate
is one, the status says so, no tick is at work, and a handler that is about to decide
finds its gate pending. `GraphFollows`: the rows, requests and gates are where the work
done so far puts them. None is inductive alone: a second gate would be opened by a second
thread, a second thread scheduled by a second decision, and that development is not run
beside a draft's decision follows from the graph. `ShadowInv` adds that a draft is
attached only with the publication's node closed.

Where no restart, no rejection of a draft and no failure that cannot be recorded comes in
between either (`Undisturbed`):

| theorem | says |
|---|---|
| `UndisturbedRuns` | `Spec => []UndisturbedInv`, the inductive invariant |
| `ApprovedDraftIsPublished` | a publisher runs on the draft a human approved |
| `CompletedForGood` | a completed work order stays completed |
| `DeliveryIsHumanGated` | the pipeline implements `HumanGatedDelivery` |

`NodesAreAttended`: a row that runs has its thread, and a failed one stops the work order;
a restart or a refused failure breaks it, and that is how the counterexamples of section 4
begin. `DraftFollows`: the draft attached to the graph is the one the last gate asked
about, or the one the handler at work makes. `CompletedRests`: after completion no row,
gate, thread or request is left that could go on. The refinement is proved step by step:
the initial states map to the initial state of the promise, each tick, decision, handler
step and resume to one of its actions or to a stutter; it needs all three invariants, since
what is worked on is read off gates, rows and the handler at once.

### TicketLifecycle

| theorem | says |
|---|---|
| `TypeCorrect` | `Spec => []TypeOK` |
| `OneRecordPerTicket` | a ticket has at most one open record, in every environment |
| `OneOrderPerTicket` | a ticket has at most one active work order, if `"resume_failed"` is not in the environment |
| `FailuresAreRecorded` | where nothing interfered, the failure of an active order can be recorded |
| `DeliveriesAreNotRepeated` | where nothing interfered, no order starts for a ticket that has a completed one |
| `ConsumerIsAlone` | where nothing interfered, the consumer creates an order only while no development is active |

Types are not inductive there: the consumer and a promotion keep the id of a record over
several transactions, and a work order made from one that is not there would be ill typed.
`ReferencesExist` adds that what they refer to exists. `OneOpenRecord` is then inductive
because a scan updates the open record of a ticket before it makes a new one and because
the index refuses whatever reopens a closed one; `OneActiveOrder` because creation looks
for an active order in its own transaction, which leaves resume as the only way around it.

The other three need `Calm`, which holds as long as `incidents` is empty: of the records of
a ticket one is live, that is open or in delivery (`OneLiveRecord`); a work order that is
active or completed holds its record (`OrdersHoldRecords`); whoever analyses or starts
something is alone (`OneInProgress`); and what he has read is still so when he writes
(`WhatWasReadStands`): what a scan excluded covers what is in delivery, and the consumer's
look at active developments holds four transactions later. The last part is what the code
relies on without a lock, and what an interference breaks.

### SharedCheckout

| theorem | says |
|---|---|
| `TypeCorrect` | `Spec => []TypeOK` |
| `BranchesStayClean` | no delivery is committed on the integration branch or the target, in every environment |
| `OwnCheckoutIsOwn` | in a checkout of its own a work order's patch is its own, in every environment |
| `ReviewedIsPublished` | there, what is pushed is what was reviewed, without `"drift"` |
| `TurnsAreTheirOwn`, `TurnsPublishTheirReview` | both for any number of work orders in turn in one managed checkout |

"Of its own" is `OwnSpaces`: copied checkouts, or a managed one with one work order. "In
turn" is `InTurns`: managed, and without `agent_failure`, `block`, `late_target`, `overlap`
and `drift`; rejections, confined and empty runs, failed pushes, stray files and refreshed
targets remain.

What an agent leaves is only known branch by branch and path by path, so the proofs begin
with lemmas on what each git operation of the model does to branch, tree, index and tips.
`CheckoutInv` says of every checkout that it is on a branch that exists and that the team's
branches are what the team made them (`Sound`), that the integration branch is only checked
out before a work order has its own (`AtMain`), that everything in an own checkout is its
owner's (`Own`), and that nothing is committed before the publication and the tree stays
what was reviewed (`Kept`). `TurnInv` is about the moment a turn passes: one work order at
most is not idle, and when all are, nothing is left in the checkout, which is on a delivery
branch from the first turn on. What a work order remembers is its own (`KnowsItsOwn`), and
while it is active so is the checkout (`HasItsOwn`). The events `InTurns` leaves out break
this by leaving a changed tree to the next turn, or by moving the base of a patch.

### TeamWorkspace

| theorem | says |
|---|---|
| `FlushedArrives` | what a desktop forgets as flushed is in the team's log, whatever happens |
| `TeamKeepsAnAdmin` | as long as requests do not overlap, the team has an admin |
| `SnapshotsMoveOn` | without overlap and without an event mirrored before its commit, the snapshot never goes back |
| `IndexIsTrue` | without overlap and without a stop half way, profiles agree with memberships between requests |

`FlushInv`: what a request remembers as accepted is in the log already. It holds because
the log only grows and a request takes the answer of the cloud in the step that appends.
`AdminInv`: without overlap one request is under way, and the role it is about to write, or
the member it is about to delete, was checked in a state nobody has changed since.
`VersionsInv`: every event, in a queue or carried by a request, is of a version not past
the last change; one that is mirrored is of the latest, and one that is flushed was found
not to be outdated. `IndexInv`: a profile that does not agree with the team has a request
under way that is about to make it agree (`Unsettled`), whatever role it comes from.

### SprintCycle

| theorem | says |
|---|---|
| `OnlyDeliveredWorkIsBilled` | an invoice item bills completed work, overlaps and crashes included |
| `NamedReportReachedTheChannel` | the row names only reports that were posted, overlaps and crashes included |
| `SelectionIsKept` | without overlap, a manual selection stands until the next reset |
| `ReportGoesOutOnce` | without overlap and crash, a report goes out once unless forced |
| `WorkIsBilledOnce` | without overlap, crash and failure of Stripe, no ticket is on two items |

For the first two the invariant has one part per place a claim can wait in: in a thread (a
snapshot of delivered tickets, invoice lines, a key to be recorded), in the row, at Stripe.
The claims stay true while they wait because what was completed stays so (`OrdersMoveOn`:
work starts once for a ticket) and what was posted stays posted.

For the others a thread that is alone works on the row as it is: what it has read is what
is there (`TurnInv`). A report that went out is recorded or its thread is about to
(`SentInv`). `BillsInv` is about the items of both bags: each bills some work, none the
same; and what is billed is either not in the plan any more, or the row names its invoice,
or its thread is still at work. So a report that is repeated finds its invoice named, and
the plan of the next sprint has nothing that was billed.

### DailyAnalysis

| theorem | says |
|---|---|
| `NoVerdictIsOutdated` | a verdict without an error is not older than the text its hash is of, in every environment |
| `NewerVerdictsStand` | no verdict gives way to one of an older text, as long as no scan or single analysis meets an analysis |
| `EstimatesStand` | a human's estimate given between runs stands until the ticket is analysed anew |
| `DecisionsAreKept` | a decided proposal stays as it was decided, while decisions do not overlap |

The first does not survive a step on its own: a verdict is reached minutes before it is
stored, while the ticket changes, other runs store theirs and a human has the ticket
analysed. `VerdictInv` says of every outcome a thread holds, fresh or reused, that it is at
least as new as the version under whose hash it will be stored; for a reused one that
follows from the row it was read from, which is why the property itself is part of it.
The second is about pairs of threads: without an interference the threads that analyse are
runs, and a run that works has the lock (`LockInv`); so one thread analyses, and what it has
read and found is not older than what is stored (`AloneInv`), because no one else stores
meanwhile and the versions in Jira only grow. `KeptInv` follows
the estimate on the ways a run can bring it back to the row: through the history of
analyses, through the reused verdict of a thread, through the row it has read. `DecisionInv`
says that a human about to decide is alone and finds the proposal pending.

### StorageStartup

| theorem | says |
|---|---|
| `IdsDiffer` | without `"copy_race"`, no two ids handed out are equal |
| `ReadyIsComplete` | without `"copy_race"` and `"crash_in_schema"`, who considers the database ready has every table and column |

Who commits an id has held the write lock since it read the counter (`CommitsNext`), and
the file is copied before anybody is past the copy (`CopyIsFirst`, `CopiesOnce`), so the
counter never goes back. The second is proved with `ReadyInv`, which relates the version
of a file to what a script still has before it: a version promises tables (`Grown`), a
process that patches has every missing column before it, and the script of the one that
holds the lock completes the file from where it is (`Completes`, `WellOrdered`), so it may
stop anywhere and the next starts from a file that keeps the promise. The exception is a
stop between the first two tables, the finding of the run `broken_bootstrap`.

### Workplace

The module of these theorems has four parts with an inductive invariant each. They assume
that no role is called like the state file, no request like the start of the server, no
project like the default key, and that a page has an issue.

| theorem | says |
|---|---|
| `AgentsStayGuarded` | guards: `GuardsHold`, in every environment |
| `AutomationStaysWhole` | provisioning: `AutomationHolds`, for any roles, repositories, requests and events |
| `NothingIsLostInTurn` | settings: `ProjectsAndSettingsStand`, for any projects, requests and events |
| `StoredServersAreOwn` | settings: `ServersStayApart`, unless `"partial_body"` may happen |
| `FetchSeesItsProject` | Jira: `ScanSeesTheProject`, for any page size, number of issues and events |

`AgentsStayGuarded` (`Spec => []GuardsHold`) holds for every set of runs and work orders and
every environment, with the discipline in the premises of its parts. Its invariant adds that
a run at work finds its own guards under its task's name (`HasItsGuards`), which needs that
no two runs of one task overlap, that a refusal is known to the guard the developer is
judged by (`KnowsRefusals`), and that guards and directory belong to somebody at work
(`GuardsAreInUse`, `DirectoryIsInUse`).

`AutomationInv`: a manifest that a setup or an upgrade has left behind is on disk
(`DoneIsOnDisk`), and the state file comes last or was there (`TextsAreWhole`), so that a
ready project is complete whatever meets and wherever the server stops, as long as no broken
manifest ends a patch or an upgrade (`DoneIsOnDisk`, and what `FilesAreSound` says of a
ready project, have that premise).
Without an incident a
file that names another repository, or lacks an edit, is one a thread is about to write
(`RepoIsDue`, `EditsAreHeld`); when nobody works nothing is about to be written.

`SettingsInv`: a request has made a plan of changes to the mapping (`PlanIsSound`) and is
somewhere in it. In turn, its copy is the mapping, the file is truncated exactly while it
writes, and each place of each handler says where its project is: in the mapping, the
active one, or in the cloud (`ProjectsStand`). `WishesStand` adds the values, of which a
registration copies those of the active project, and a share those of its own. `OwnStaysOwn`
is about all requests at once, since each may write back the copy it has read.

`ScanInv`: a search that nothing disturbed has found exactly the first `start` issues of the
list of Jira, or all (`Undisturbed`). A page that is not full, a total that is reached, or
a page that adds nothing then means that all are found; the second is where the number of
found issues has to say which they are (`AllAreListed`, by cardinality). That no issue is
returned twice needs no such condition (`FoundOnce`).

### Only model-checked

* liveness (`ComesBackToAHuman`, `EveryProcessIsServed`): ENABLED and fairness are out of
  the prover's reach;
* what the recursive function `Used` of `SprintCycle` computes, the days that a selection
  by rank fills: that would be induction over data;
* `NothingInShadow` of `restarts`: it chooses the mode in a run, while `ShadowStaysDry` is
  about each mode by itself;
* the two runs that expect a violation, of course.

## 6. Not modelled

* One server process is assumed, as the plugin is deployed (`StorageStartup` is about the
  several that may open the database); `_tick_execution_lock` and `_db_lock` are in memory,
  and two servers would share neither.
* A transaction succeeds or is rolled back as a whole. The retry inside `connect()`, which
  would run a block again after a lost connection, is not modelled.
* Agents, git, Stripe, Jira and the VCS appear as the outcomes the code distinguishes.
* Events, timestamps, stages shown in the UI, texts and estimates steer nothing modelled.
* Legacy blocks of `delivery.yaml` for sprint and scope are left out of `ProjectSettings`;
  the change of the mapping is one step in `Provisioning`.
* Plan context, skills, chat context, the PM profile, agent tools, the UI and the scripts
  are display, lookup or configuration; billing keys and Firebase sessions are calls to
  their services. The reasons are in `PROJECT.json`.

## 7. Plan

1. `DeliveryOfTickets`: `TicketLifecycle` composed with a `DeliveryPipeline` per order, so
   that a failure recorded in one is the failure of the other.
2. `TransactionRetry`: `connect()` and its lock, for the grain the other modules assume.
