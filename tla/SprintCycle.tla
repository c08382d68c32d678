---------------------------- MODULE SprintCycle ----------------------------
(***************************************************************************)
(* The sprint of one project: the selection of tickets kept in the         *)
(* sprint_state row (pm_inbox/sprint_selection.py, sprint_mutations.py),   *)
(* its roll over (sprint_reset.py), and the report that closes it, with    *)
(* the Stripe invoice of the work delivered (sprint_report.py,             *)
(* sprint_invoice.py, lc_server/integrations/stripe_billing.py).           *)
(*                                                                         *)
(* Requests, the inbox, the daily analysis and the scheduler all run in    *)
(* threads of one server, and nothing but SQLite's own transactions keeps  *)
(* them apart: every step below is one transaction or one external call.   *)
(***************************************************************************)
EXTENDS Integers, Sequences, FiniteSets, FiniteSetsExt, SequencesExt, Bags

CONSTANTS
    Tickets,      \* Jira tickets of the project
    Rank,         \* the tickets by priority, urgency and estimate
    Days,         \* Days[t]: the estimate of t, 0 when it has none
    Verdicts,     \* what an analysis may say of a ticket
    Capacity,     \* days of work in a sprint
    Duration,     \* days from one sprint to the next
    DaysPerWeek,  \* 7; smaller in the instances TLC checks
    Threads,      \* threads that serve a request, the inbox or the scheduler
    MaxDay,       \* bound: last day
    MaxNumber,    \* bound: sprints
    MaxItems,     \* bound: invoice items at Stripe
    Environment   \* what may go wrong or be asked for, see SprintEvents

BacklogStatuses == {"ready", "needs_clarification", "not_ready", "analysis_failed"}
SprintEvents == {"stripe_failure", "delivery_failure", "forced_report", "crash"}
Incidents == {"stripe_failure", "delivery_failure", "crash", "overlap"}

ASSUME SprintAssumption ==
    /\ IsFiniteSet(Tickets) /\ Rank \in Seq(Tickets) /\ Range(Rank) = Tickets
    /\ Days \in [Tickets -> Nat] /\ Verdicts \subseteq BacklogStatuses
    /\ Capacity \in Nat /\ Duration \in Nat \ {0} /\ DaysPerWeek \in Nat \ {0}
    /\ MaxDay \in Nat /\ MaxNumber \in Nat /\ MaxItems \in Nat
    /\ Environment \subseteq SprintEvents

VARIABLES
    day,        \* the calendar
    readiness,  \* readiness record of each ticket
    order,      \* work order of each ticket
    sprint,     \* the sprint_state row: recommendation and memory
    slot,       \* a report was scheduled today (_last_sprint_report_run_key)
    pending,    \* Stripe: invoice items no invoice includes yet, a bag of sets of tickets
    invoiced,   \* Stripe: the items some invoice includes, a bag too
    posted,     \* sprint keys whose report reached the messaging channel
    thread,     \* what each thread is doing
    \* Observations; no step of the code reads them.
    chosen,     \* the last manual selection
    incidents   \* what went wrong so far, of Incidents

state     == <<day, readiness, order, sprint, slot, pending, invoiced, posted, thread>>
observers == <<chosen, incidents>>
vars      == <<day, readiness, order, sprint, slot, pending, invoiced, posted, thread,
               chosen, incidents>>
stripe    == <<pending, invoiced>>
project   == <<readiness, order>>

----------------------------------------------------------------------------
(* The plan: how each ticket stands in the sprint's recommendation.        *)

NoDay  == -1
NoKey  == <<0, NoDay>>
Places == {"absent", "selected", "backlog", "unestimated"}

NoPlan    == [t \in Tickets |-> "absent"]
Listed(plan) == {t \in Tickets : plan[t] # "absent"}
DaysOf(S) == MapThenSumSet(LAMBDA t : Days[t], S)

\* Tickets are taken by rank, each of them if it fits in what is left by the
\* used days of those before it.
Fitting(S) ==
    LET takes(t, used) == t \in S /\ used + Days[t] <= Capacity
        Used[i \in 0 .. Len(Rank)] ==
            IF i = 0 THEN 0
            ELSE Used[i - 1] + (IF takes(Rank[i], Used[i - 1]) THEN Days[Rank[i]] ELSE 0)
    IN {Rank[i] : i \in {j \in DOMAIN Rank : takes(Rank[j], Used[j - 1])}}

ReadyEstimated == {t \in Tickets : readiness[t] = "ready" /\ Days[t] > 0}

BuiltPlan ==
    LET fit == Fitting(ReadyEstimated) IN
    [t \in Tickets |->
        CASE t \in fit -> "selected"
          [] readiness[t] = "needs_clarification" -> "unestimated"
          [] readiness[t] = "analysis_failed"
             \/ (readiness[t] \in BacklogStatuses /\ Days[t] > 0 /\ t \notin fit) -> "backlog"
          [] OTHER -> "absent"]

\* In-flight work orders are added, outside the selection.
Merged(plan) ==
    [t \in Tickets |-> IF plan[t] = "absent" /\ order[t] = "active"
                       THEN "backlog" ELSE plan[t]]

\* Everything the customer was or will be billed for.
Items == invoiced (+) pending

SprintKey == <<sprint.number, sprint.end>>

\* Mutant: the guard is lost.
NoGuard(key) == FALSE

Reported(key) == sprint.reportKey = key
Invoiced(key) == sprint.invoiceKey = key

ShouldAutoReset ==
    /\ day % DaysPerWeek = 0
    /\ sprint.start = NoDay \/ day - sprint.start >= Duration

----------------------------------------------------------------------------
(* Threads.                                                                *)

Pcs == {"idle", "check", "items", "invoice", "finish", "compose",
        "save_report", "write_invoice", "write_report", "reset", "write_reset",
        "write_plan"}

Idle == [pc |-> "idle", then |-> "end", force |-> FALSE, key |-> NoKey,
         done |-> {}, lines |-> <<>>,
         plan |-> NoPlan, number |-> 0, today |-> 0]

\* Bound: one call fails, or the server stops once.
MayHappen(e) == e \in Environment /\ incidents \subseteq {"overlap"}

Quiet(p) == \A q \in Threads \ {p} : thread[q].pc = "idle"

Go(p, local) == thread' = [thread EXCEPT ![p] = local]

\* The report is over: roll the sprint over when it was asked for by a reset.
AfterReport(local) == IF local.then = "end" THEN Idle ELSE [local EXCEPT !.pc = "reset"]

\* The invoice, made or not, is behind: the report is composed.
Composing(local) == [local EXCEPT !.pc = "compose", !.done = {}, !.lines = <<>>, !.plan = NoPlan]

Begin(p, local) ==
    /\ thread[p].pc = "idle"
    /\ Go(p, local)
    /\ incidents' = incidents \cup (IF Quiet(p) THEN {} ELSE {"overlap"})

\* Mutant: work in flight counts as delivered.
Started(plan) == {t \in Listed(plan) : order[t] # "none" /\ plan[t] # "unestimated"}

\* What the report finds delivered, and can be billed.
Delivered(plan) == {t \in Listed(plan) : order[t] = "completed" /\ plan[t] # "unestimated"}

Snapshot(then, force) ==
    [Idle EXCEPT !.pc = "check", !.then = then, !.force = force, !.key = SprintKey,
                 !.done = Delivered(sprint.plan), !.today = day]

\* POST /sprint/report.
RequestReport(p, force) ==
    /\ sprint.number > 0
    /\ force => "forced_report" \in Environment
    /\ BagCardinality(Items) < MaxItems
    /\ Begin(p, Snapshot("end", force))
    /\ UNCHANGED <<day, project, sprint, slot, stripe, posted, chosen>>

\* The scheduler's minute loop, on the last day of the sprint.
ScheduledReport(p) ==
    /\ sprint.number > 0 /\ sprint.end = day
    /\ ~Reported(SprintKey)
    /\ ~slot
    /\ slot' = TRUE
    /\ BagCardinality(Items) < MaxItems
    /\ Begin(p, Snapshot("end", FALSE))
    /\ UNCHANGED <<day, project, sprint, stripe, posted, chosen>>

\* Opening the inbox, the daily analysis and a manual edit all roll over a
\* sprint that is due, and publish its report first.
AutoReset(p) ==
    /\ ShouldAutoReset
    /\ sprint.number < MaxNumber /\ BagCardinality(Items) < MaxItems
    /\ Begin(p, IF sprint.number > 0 THEN Snapshot("refill", FALSE)
                ELSE [Idle EXCEPT !.pc = "reset", !.then = "refill", !.today = day])
    /\ UNCHANGED <<day, project, sprint, slot, stripe, posted, chosen>>

\* POST /sprint/reset: a human rolls the sprint over without a report.
ManualReset(p, then) ==
    /\ sprint.number < MaxNumber
    /\ Begin(p, [Idle EXCEPT !.pc = "reset", !.then = then, !.today = day])
    /\ UNCHANGED <<day, project, sprint, slot, stripe, posted, chosen>>

----------------------------------------------------------------------------
(* The invoice.                                                            *)

Amounts == 0 .. DaysOf(Tickets)
Lines   == [keys : SUBSET Tickets, days : Amounts]

\* What the validator accepts of an agent's proposal.
ValidProposal(lines, delivered) ==
    /\ delivered # {} /\ lines # <<>>
    /\ \A i \in DOMAIN lines :
          /\ lines[i].keys # {} /\ lines[i].keys \subseteq delivered
          /\ \A j \in 1 .. i - 1 : lines[i].keys \cap lines[j].keys = {}
          /\ lines[i].days > 0 /\ lines[i].days = DaysOf(lines[i].keys)
    /\ delivered = UNION {lines[i].keys : i \in DOMAIN lines}

Check(p) ==
    LET me == thread[p] IN
    /\ me.pc = "check"
    /\ \/ ~me.force /\ Reported(me.key) /\ Go(p, AfterReport(me))
       \/ /\ me.force \/ ~Reported(me.key)
          /\ \/ /\ Invoiced(me.key) \/ me.done = {}
                /\ Go(p, Composing(me))
             \/ /\ ~Invoiced(me.key)
                /\ \E n \in 1 .. 2 : \E lines \in [1 .. n -> Lines] :
                      /\ ValidProposal(lines, me.done)
                      /\ Go(p, [me EXCEPT !.pc = "items", !.lines = lines])
    /\ UNCHANGED <<day, project, sprint, slot, stripe, posted, observers>>

\* An invalid proposal or a failing call: the report goes out without an invoice.
BillingFails(p) ==
    /\ MayHappen("stripe_failure")
    /\ thread[p].pc \in {"items", "invoice", "finish"}
    /\ Go(p, Composing(thread[p]))
    /\ incidents' = incidents \cup {"stripe_failure"}
    /\ UNCHANGED <<day, project, sprint, slot, stripe, posted, chosen>>

CreateItem(p) ==
    LET me == thread[p] IN
    /\ me.pc = "items"
    /\ pending' = pending (+) SetToBag({me.lines[1].keys})
    /\ Go(p, [me EXCEPT !.lines = Tail(@),
                        !.pc = IF Len(me.lines) = 1 THEN "invoice" ELSE "items"])
    /\ UNCHANGED <<day, project, sprint, slot, invoiced, posted, observers>>

\* The invoice takes every pending item of the customer.
CreateInvoice(p) ==
    /\ thread[p].pc = "invoice"
    /\ invoiced' = invoiced (+) pending
    /\ pending' = EmptyBag
    /\ Go(p, [thread[p] EXCEPT !.pc = "finish"])
    /\ UNCHANGED <<day, project, sprint, slot, posted, observers>>

\* Finalizing the invoice changes nothing here; then, as after the delivery,
\* _patch_sprint_memory reads the row, then writes the recommendation back with
\* the patch, in a second transaction.
ReadForPatch(p, at, next) ==
    /\ thread[p].pc = at
    /\ Go(p, [thread[p] EXCEPT !.pc = next, !.plan = sprint.plan])
    /\ UNCHANGED <<day, project, sprint, slot, stripe, posted, observers>>

WriteInvoiceKey(p) ==
    LET me == thread[p] IN
    /\ me.pc = "write_invoice"
    /\ sprint' = [sprint EXCEPT !.plan = me.plan, !.invoiceKey = me.key]
    /\ Go(p, Composing(me))
    /\ UNCHANGED <<day, project, slot, stripe, posted, observers>>

Deliver(p) ==
    /\ thread[p].pc = "compose"
    /\ posted' = posted \cup {thread[p].key}
    /\ Go(p, [thread[p] EXCEPT !.pc = "save_report"])
    /\ UNCHANGED <<day, project, sprint, slot, stripe, observers>>

\* Mutant: the report is recorded although it was not delivered.
DeliveryAssumed(p) ==
    /\ MayHappen("delivery_failure")
    /\ thread[p].pc = "compose"
    /\ Go(p, [thread[p] EXCEPT !.pc = "save_report"])
    /\ incidents' = incidents \cup {"delivery_failure"}
    /\ UNCHANGED <<day, project, sprint, slot, stripe, posted, chosen>>

DeliveryFails(p) ==
    /\ MayHappen("delivery_failure")
    /\ thread[p].pc = "compose"
    /\ Go(p, AfterReport(thread[p]))
    /\ incidents' = incidents \cup {"delivery_failure"}
    /\ UNCHANGED <<day, project, sprint, slot, stripe, posted, chosen>>

WriteReportKey(p) ==
    LET me == thread[p] IN
    /\ me.pc = "write_report"
    /\ sprint' = [sprint EXCEPT !.plan = me.plan, !.reportKey = me.key]
    /\ Go(p, AfterReport([me EXCEPT !.plan = NoPlan]))
    /\ UNCHANGED <<day, project, slot, stripe, posted, observers>>

----------------------------------------------------------------------------
(* The roll over and the selection.                                        *)

PrepareReset(p) ==
    LET me == thread[p] IN
    /\ me.pc = "reset"
    /\ Go(p, [Idle EXCEPT !.pc = "write_reset", !.then = me.then, !.today = me.today,
                 !.number = sprint.number + 1,
                 !.plan = IF me.then = "refill" THEN Merged(BuiltPlan) ELSE NoPlan])
    /\ UNCHANGED <<day, project, sprint, slot, stripe, posted, observers>>

WriteReset(p) ==
    LET me == thread[p] IN
    /\ me.pc = "write_reset"
    /\ sprint' = [sprint EXCEPT !.plan = me.plan, !.number = me.number, !.manual = FALSE,
                     !.start = me.today, !.end = me.today + Duration - 1]
    /\ chosen' = {}
    /\ Go(p, Idle)
    /\ UNCHANGED <<day, project, slot, stripe, posted, incidents>>

\* Mutant: the rebuild does not look at the manual flag.
RebuildAnyway(p) ==
    /\ ~ShouldAutoReset
    /\ Begin(p, [Idle EXCEPT !.pc = "write_plan", !.plan = Merged(BuiltPlan)])
    /\ UNCHANGED <<day, project, sprint, slot, stripe, posted, chosen>>

\* rebuild_and_persist_selected_sprint, from the daily analysis or the settings.
PrepareRebuild(p) ==
    /\ ~ShouldAutoReset /\ ~sprint.manual
    /\ Begin(p, [Idle EXCEPT !.pc = "write_plan", !.plan = Merged(BuiltPlan)])
    /\ UNCHANGED <<day, project, sprint, slot, stripe, posted, chosen>>

WriteRebuild(p) ==
    /\ thread[p].pc = "write_plan"
    /\ sprint' = [sprint EXCEPT !.plan = thread[p].plan]
    /\ Go(p, Idle)
    /\ UNCHANGED <<day, project, slot, stripe, posted, observers>>

\* A manual selection: the tickets must be ready, estimated, and all fit.
Select(S) ==
    /\ ~ShouldAutoReset
    /\ S \subseteq ReadyEstimated /\ Fitting(S) = S
    /\ sprint' = [sprint EXCEPT !.manual = TRUE,
                     !.plan = [t \in Tickets |-> IF t \in S THEN "selected" ELSE "absent"]]
    /\ chosen' = S
    /\ incidents' = incidents \cup (IF \A q \in Threads : thread[q].pc = "idle" THEN {} ELSE {"overlap"})
    /\ UNCHANGED <<day, project, slot, stripe, posted, thread>>

----------------------------------------------------------------------------
(* Around the sprint.                                                      *)

NextDay ==
    /\ day < MaxDay
    /\ day' = day + 1
    /\ slot' = FALSE
    /\ UNCHANGED <<project, sprint, stripe, posted, thread, observers>>

Analyse(t, verdict) ==
    /\ readiness[t] # "promoted" /\ readiness[t] # verdict
    /\ readiness' = [readiness EXCEPT ![t] = verdict]
    /\ UNCHANGED <<day, order, sprint, slot, stripe, posted, thread, observers>>

Promote(t) ==
    /\ readiness[t] = "ready"
    /\ readiness' = [readiness EXCEPT ![t] = "promoted"]
    /\ order' = [order EXCEPT ![t] = "active"]
    /\ UNCHANGED <<day, sprint, slot, stripe, posted, thread, observers>>

\* The server stops: the threads and the scheduler's memory are lost.
Crash ==
    /\ MayHappen("crash")
    /\ \E p \in Threads : thread[p].pc # "idle"
    /\ thread' = [p \in Threads |-> Idle]
    /\ slot' = FALSE
    /\ incidents' = incidents \cup {"crash"}
    /\ UNCHANGED <<day, project, sprint, stripe, posted, chosen>>

CompleteOrder(t) ==
    /\ order[t] = "active"
    /\ order' = [order EXCEPT ![t] = "completed"]
    /\ UNCHANGED <<day, readiness, sprint, slot, stripe, posted, thread, chosen, incidents>>

----------------------------------------------------------------------------
Init ==
    /\ day = 0
    /\ readiness \in [Tickets -> Verdicts]
    /\ order = [t \in Tickets |-> "none"]
    /\ sprint = [number |-> 0, start |-> NoDay, end |-> NoDay, plan |-> NoPlan,
                 manual |-> FALSE, reportKey |-> NoKey, invoiceKey |-> NoKey]
    /\ slot = FALSE
    /\ pending = EmptyBag /\ invoiced = EmptyBag
    /\ posted = {}
    /\ thread = [p \in Threads |-> Idle]
    /\ chosen = {} /\ incidents = {}

ThreadStep(p) ==
    \/ Check(p) \/ BillingFails(p) \/ CreateItem(p) \/ CreateInvoice(p)
    \/ ReadForPatch(p, "finish", "write_invoice") \/ WriteInvoiceKey(p)
    \/ Deliver(p) \/ DeliveryFails(p)
    \/ ReadForPatch(p, "save_report", "write_report") \/ WriteReportKey(p)
    \/ PrepareReset(p) \/ WriteReset(p) \/ WriteRebuild(p)

Call(p) ==
    \/ \E force \in BOOLEAN : RequestReport(p, force)
    \/ ScheduledReport(p)
    \/ AutoReset(p)
    \/ \E then \in {"refill", "clear"} : ManualReset(p, then)
    \/ PrepareRebuild(p)

Next ==
    \/ \E p \in Threads : ThreadStep(p) \/ Call(p)
    \/ \E S \in SUBSET Tickets : Select(S)
    \/ NextDay
    \/ Crash
    \/ \E t \in Tickets : Promote(t) \/ CompleteOrder(t) \/ \E v \in Verdicts : Analyse(t, v)

Spec == Init /\ [][Next]_vars

----------------------------------------------------------------------------
Keys == (0 .. MaxNumber + Cardinality(Threads)) \X (-1 .. MaxDay + Duration)

\* The values the state may take.
TypeOK ==
    /\ day \in 0 .. MaxDay
    /\ readiness \in [Tickets -> BacklogStatuses \cup {"promoted"}]
    /\ order \in [Tickets -> {"none", "active", "completed"}]
    /\ sprint \in [number : 0 .. MaxNumber + Cardinality(Threads), start : -1 .. MaxDay,
                   end : -1 .. MaxDay + Duration, plan : [Tickets -> Places],
                   manual : BOOLEAN, reportKey : Keys, invoiceKey : Keys]
    /\ slot \in BOOLEAN
    /\ IsABag(pending) /\ IsABag(invoiced)
    /\ BagToSet(Items) \subseteq SUBSET Tickets
    /\ posted \subseteq Keys
    /\ \A p \in Threads : thread[p].pc \in Pcs /\ thread[p].plan \in [Tickets -> Places]
    /\ chosen \subseteq Tickets /\ incidents \subseteq Incidents

\* As long as no Stripe call fails, the server does not stop and no two threads
\* overlap, a ticket is on at most one invoice item, whatever happened to the
\* sprint between its reports: reports retried or forced, sprints rolled over,
\* plans rebuilt.
BilledOnce ==
    incidents \subseteq {"delivery_failure"} =>
        /\ \A s \in BagToSet(Items) : Items[s] = 1
        /\ \A s, u \in BagToSet(Items) : s # u => s \cap u = {}

\* The channel gets the report of a sprint once, unless it is forced: failing
\* calls, missed deliveries and roll overs never make it go out twice.
ReportsOnce ==
    [][\A p \in DOMAIN thread :
          thread[p].pc = "compose" /\ thread'[p].pc = "save_report"
          /\ incidents \subseteq {"stripe_failure", "delivery_failure"} /\ ~thread[p].force =>
              thread[p].key \notin posted]_vars

\* Whatever fails or overlaps, an invoice item only bills completed work.
BillsDeliveredWork ==
    \A t \in UNION BagToSet(Items) : order[t] = "completed"

\* The row says that a sprint was reported only if its report was delivered.
ReportedMeansPosted == sprint.reportKey # NoKey => sprint.reportKey \in posted

\* A manual selection stands until the next reset, all of it and nothing else: the
\* daily rebuild and the patches of the report leave it alone, unless threads overlap.
ManualSelectionStands ==
    "overlap" \notin incidents /\ sprint.manual =>
        sprint.plan = [t \in DOMAIN sprint.plan |-> IF t \in chosen THEN "selected" ELSE "absent"]

=============================================================================
