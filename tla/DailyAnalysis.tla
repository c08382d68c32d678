---------------------------- MODULE DailyAnalysis ----------------------------
(***************************************************************************)
(* The daily analysis of one project: its run rows and the lock that keeps *)
(* analyses apart (pm_inbox/service.py, daily_pipeline.py, store.py), the  *)
(* dispatcher that fans tickets out to analyst agents (analysis_dispatcher *)
(* .py, scanner.py), the estimations and comment proposals it leaves, and  *)
(* the human who decides proposals and corrects estimations meanwhile.     *)
(*                                                                         *)
(* A human may also have the project scanned, or one ticket analysed,      *)
(* without a run row and without the lock of the runs.                     *)
(*                                                                         *)
(* connect() holds one lock for the whole process, so each transaction is  *)
(* one step.  Promotions and dismissals, the execution queue and the       *)
(* sprint a run rebuilds have modules of their own.                        *)
(***************************************************************************)
EXTENDS Integers, Sequences, FiniteSets, SequencesExt

CONSTANTS
    Tickets,      \* Jira tickets in scope
    Threads,      \* threads that run an analysis or a refresh of proposals
    Humans,       \* requests that decide a proposal
    NoThread,
    Answers,      \* what an analyst may answer: <<verdict, estimate>>
    Concurrency,  \* analyses at a time (5)
    MaxVersion,   \* bound: versions of a ticket in Jira
    MaxRuns,      \* bound: run rows
    MaxProposals, \* bound: proposals
    Environment   \* which incidents and requests may happen

Verdicts  == {"ready", "needs_clarification"}
Estimates == {"none", "analyst", "heuristic", "human"}
Incidents == {"crash", "failure", "refresh", "overlap", "interference"}
Requests  == {"agent_failure", "timeout", "force", "scheduled", "scan", "reanalyze", "estimate",
              "decide"}

ASSUME AnalysisAssumption ==
    /\ IsFiniteSet(Tickets) /\ IsFiniteSet(Threads) /\ IsFiniteSet(Humans)
    /\ NoThread \notin Threads
    /\ Answers \subseteq Verdicts \X {"none", "analyst"}
    /\ Concurrency \in Nat \ {0}
    /\ MaxVersion \in Nat /\ MaxRuns \in Nat /\ MaxProposals \in Nat
    /\ Environment \subseteq Incidents \cup Requests

VARIABLES
    jira,       \* version of each ticket in Jira
    record,     \* the open readiness record of each ticket
    latest,     \* latest row of ticket_estimations of each ticket
    runs,       \* daily_analysis_runs
    lock,       \* _ANALYSIS_LOCK
    slot,       \* today's scheduled run was started (_last_daily_run_key)
    thread,     \* what each thread is doing
    stray,      \* tickets whose analysis was given up and still runs
    proposals,  \* jira_comment_proposals, in order of creation
    request,    \* what each deciding request has read
    \* Observations that no step reads.
    kept,       \* tickets a human estimated between two runs, not analysed since
    incidents   \* what went wrong so far

rows      == <<record, latest, runs, proposals>>
observers == <<kept, incidents>>
vars      == <<jira, record, latest, runs, lock, slot, thread, stray, proposals, request,
               kept, incidents>>

----------------------------------------------------------------------------
RunIds    == 1 .. MaxRuns
\* "of" is the version of the snapshot a record keeps, the text its verdict was made of;
\* "hash" the one its analysis_input_hash is of.
NoRecord  == [status |-> "none", of |-> 0, hash |-> 0, error |-> FALSE, days |-> "none"]
Waiting   == [kind |-> "none", status |-> "none", of |-> 0, days |-> "none"]
Idle      == [pc |-> "idle", run |-> 0, force |-> FALSE, todo |-> {}, busy |-> {},
              seen |-> [t \in Tickets |-> 0], got |-> [t \in Tickets |-> Waiting],
              read |-> [t \in Tickets |-> NoRecord]]
NoRequest == [pc |-> "idle", id |-> 0, action |-> "none", body |-> "none"]

Go(p, local) == thread' = [thread EXCEPT ![p] = local]
Allows(e)    == e \in Environment
\* Bound: one run fails, or the server stops once.
Happens(e)   == Allows(e) /\ incidents \subseteq {"overlap", "refresh", "interference"}

----------------------------------------------------------------------------
(* Run rows.                                                               *)

Ended(status) == [status |-> status, old |-> FALSE]

\* fail_stale_daily_runs.
WithoutStale ==
    [r \in RunIds |-> IF runs[r].status = "running" /\ runs[r].old
                      THEN Ended("failed") ELSE runs[r]]

NoRunningRow(table) == \A r \in RunIds : table[r].status # "running"

NextRun == CHOOSE r \in RunIds : runs[r].status = "none"
RoomForARun == \E r \in RunIds : runs[r].status = "none"

\* start_daily_analysis and the head of the pipeline: one transaction, rolled
\* back whole when another run is running.
Reserve ==
    /\ NoRunningRow(WithoutStale)
    /\ runs' = [WithoutStale EXCEPT ![NextRun] = [status |-> "running", old |-> FALSE]]

\* Opening the inbox.
PollInbox ==
    /\ WithoutStale # runs
    /\ runs' = WithoutStale
    /\ UNCHANGED <<jira, record, latest, lock, slot, thread, stray, proposals, request, observers>>

\* Ninety minutes pass.
GrowOld(r) ==
    /\ runs[r].status = "running" /\ ~runs[r].old
    /\ runs' = [runs EXCEPT ![r].old = TRUE]
    /\ UNCHANGED <<jira, record, latest, lock, slot, thread, stray, proposals, request, observers>>

\* POST /pm-inbox/daily-analysis/run: the row is reserved, then a background
\* task waits for the lock.
Request(p, force) ==
    /\ RoomForARun
    /\ force => Allows("force")
    /\ thread[p].pc = "idle"
    /\ Reserve
    /\ Go(p, [Idle EXCEPT !.pc = "lock", !.run = NextRun, !.force = force])
    /\ UNCHANGED <<jira, record, latest, lock, slot, stray, proposals, request, observers>>

\* The scheduler, and the chat tool: the row is created under the lock.
Scheduled(p) ==
    /\ Allows("scheduled") /\ RoomForARun
    /\ thread[p].pc = "idle" /\ ~slot
    /\ slot' = TRUE
    /\ Go(p, [Idle EXCEPT !.pc = "lock"])
    /\ UNCHANGED <<jira, rows, lock, stray, request, observers>>

NewDay ==
    /\ slot /\ RoomForARun
    /\ slot' = FALSE
    /\ UNCHANGED <<jira, rows, lock, thread, stray, request, observers>>

\* POST /readiness/scan: no row, no lock.
Scan(p) ==
    /\ Allows("scan")
    /\ thread[p].pc = "idle"
    /\ Go(p, [Idle EXCEPT !.pc = "fetch"])
    /\ UNCHANGED <<jira, rows, lock, slot, stray, request, observers>>

\* Mutant: nobody waits for the lock.
NobodyWaits == TRUE

LockIsFree == lock = NoThread

AcquireLock(p) ==
    /\ thread[p].pc = "lock" /\ LockIsFree
    /\ lock' = p
    /\ Go(p, [thread[p] EXCEPT !.pc = IF thread[p].run = 0 THEN "reserve" ELSE "fetch"])
    /\ UNCHANGED <<jira, rows, slot, stray, request, observers>>

ReserveLate(p) ==
    /\ thread[p].pc = "reserve" /\ RoomForARun
    /\ Reserve
    /\ Go(p, [thread[p] EXCEPT !.pc = "fetch", !.run = NextRun])
    /\ UNCHANGED <<jira, record, latest, lock, slot, stray, proposals, request, observers>>

\* Another run is running: the analysis of the day is given up.
GiveUp(p) ==
    /\ thread[p].pc = "reserve"
    /\ ~NoRunningRow(WithoutStale) \/ ~RoomForARun
    /\ lock' = NoThread
    /\ Go(p, Idle)
    /\ UNCHANGED <<jira, rows, slot, stray, request, observers>>

\* complete_daily_run writes whatever the row says by now.
End(p, status) ==
    /\ runs' = [runs EXCEPT ![thread[p].run] = Ended(status)]
    /\ lock' = NoThread
    /\ Go(p, Idle)

----------------------------------------------------------------------------
(* The dispatcher.                                                         *)

Analysing(p) == thread[p].pc = "analyse"

\* A scan has no lock that keeps it apart from what is analysed.
Interferes(p) ==
    \E q \in Threads \ {p} : Analysing(q) /\ 0 \in {thread[p].run, thread[q].run}

Interference(happens) == incidents' = incidents \cup (IF happens THEN {"interference"} ELSE {})

Fetch(p) ==
    /\ thread[p].pc = "fetch"
    /\ Interferes(p) => Allows("interference")
    /\ Go(p, [thread[p] EXCEPT !.pc = "analyse", !.seen = jira, !.todo = Tickets])
    /\ Interference(Interferes(p))
    /\ UNCHANGED <<jira, rows, lock, slot, stray, request, kept>>

\* Whatever fails on the way fails the run; what was stored before stays.
PipelineFails(p) ==
    /\ Happens("failure")
    /\ thread[p].pc \in {"fetch", "qualify", "propose", "complete"} /\ thread[p].run # 0
    /\ End(p, "failed")
    /\ incidents' = incidents \cup {"failure"}
    /\ UNCHANGED <<jira, record, latest, slot, stray, proposals, request, kept>>

\* A scan or a refresh that fails has no row that says so.
RequestFails(p) ==
    /\ Happens("failure")
    /\ thread[p].pc \in {"fetch", "qualify", "propose"} /\ thread[p].run = 0
    /\ Go(p, Idle)
    /\ incidents' = incidents \cup {"failure"}
    /\ UNCHANGED <<jira, rows, lock, slot, stray, request, kept>>

\* Mutant: a verdict is reused although the last analysis failed.
AnyRow(t) == record[t].status \notin {"none", "analysis_failed"}

Reusable(t) == record[t].status \notin {"none", "analysis_failed"} /\ ~record[t].error

\* Mutant: the cached analysis forgets the estimate of the row.
WithoutEstimate(t) == [kind |-> "cached", status |-> record[t].status, of |-> record[t].of,
                       days |-> "none"]

Cached(t) == [kind |-> "cached", status |-> record[t].status, of |-> record[t].of,
              days |-> record[t].days]

Hit(p, t) == ~thread[p].force /\ Reusable(t) /\ record[t].hash = thread[p].seen[t]

SlotFree(p) == Cardinality(thread[p].busy) < Concurrency

TakeTicket(p, t) ==
    /\ thread[p].pc = "analyse" /\ t \in thread[p].todo /\ SlotFree(p)
    /\ \/ Hit(p, t) /\ Go(p, [thread[p] EXCEPT !.todo = @ \ {t}, !.got[t] = Cached(t)])
       \/ ~Hit(p, t) /\ Go(p, [thread[p] EXCEPT !.todo = @ \ {t}, !.busy = @ \cup {t}])
    /\ UNCHANGED <<jira, rows, lock, slot, stray, request, observers>>

Receive(p, t, outcome) ==
    /\ thread[p].pc = "analyse" /\ t \in thread[p].busy
    /\ Go(p, [thread[p] EXCEPT !.busy = @ \ {t}, !.got[t] = outcome])

AgentAnswers(p, t) ==
    /\ \E answer \in Answers :
          Receive(p, t, [kind |-> "success", status |-> answer[1], of |-> thread[p].seen[t],
                         days |-> answer[2]])
    /\ UNCHANGED <<jira, rows, lock, slot, stray, request, observers>>

AgentFails(p, t) ==
    /\ Allows("agent_failure")
    /\ Receive(p, t, [Waiting EXCEPT !.kind = "failed"])
    /\ UNCHANGED <<jira, rows, lock, slot, stray, request, observers>>

\* After 180 s the ticket failed; an analyst that runs in a thread goes on.
AgentTimesOut(p, t) ==
    /\ Allows("timeout")
    /\ Receive(p, t, [Waiting EXCEPT !.kind = "failed"])
    /\ stray' = stray \cup {t}
    /\ UNCHANGED <<jira, rows, lock, slot, request, observers>>

StrayEnds(t) ==
    /\ t \in stray
    /\ stray' = stray \ {t}
    /\ UNCHANGED <<jira, rows, lock, slot, thread, request, observers>>

\* persistable_estimated_days.
Persistable(outcome) == IF outcome.status = "needs_clarification" THEN "none" ELSE outcome.days

\* _upsert_record and _record_analysis_failure: a failure leaves the verdict and the
\* snapshot of an existing record as they were, under the hash of the ticket that failed.
Stored(t, outcome, seen) ==
    IF outcome.kind \in {"success", "cached"}
    THEN [status |-> outcome.status, of |-> outcome.of, hash |-> seen, error |-> FALSE,
          days |-> Persistable(outcome)]
    ELSE IF record[t].status = "none"
    THEN [NoRecord EXCEPT !.status = "analysis_failed", !.of = seen, !.hash = seen, !.error = TRUE]
    ELSE [record[t] EXCEPT !.hash = seen, !.error = TRUE]

StoreOutcomes(p) ==
    LET me == thread[p] IN
    /\ me.pc = "analyse" /\ me.todo = {} /\ me.busy = {}
    /\ record' = [t \in Tickets |-> Stored(t, me.got[t], me.seen[t])]
    /\ kept' = {t \in kept : me.got[t].kind # "success"}
    /\ Go(p, IF me.run = 0 THEN Idle ELSE [Idle EXCEPT !.pc = "qualify", !.run = me.run])
    /\ UNCHANGED <<jira, latest, runs, lock, slot, stray, proposals, request, incidents>>

----------------------------------------------------------------------------
(* Estimations and proposals: rows read in one transaction, used in another. *)

Qualify(p) ==
    /\ thread[p].pc = "qualify"
    /\ Go(p, [thread[p] EXCEPT !.pc = "propose", !.read = record])
    /\ UNCHANGED <<jira, rows, lock, slot, stray, request, observers>>

Estimable(t, read) == read[t].status \in {"ready", "not_ready"}

EstimateOf(row) == IF row.days = "none" THEN "heuristic" ELSE row.days

Asking(read) == {t \in Tickets : read[t].status = "needs_clarification"}

\* Mutant: any proposal of the ticket is reused.
Reopened(list, t) == {i \in DOMAIN list : list[i].ticket = t}

PendingOf(list, t) == {i \in DOMAIN list : list[i].ticket = t /\ list[i].status = "pending"}

\* upsert_comment_proposal, for every ticket that asks: the body of its pending
\* proposal is written again, ...
Refreshed(list, asking) ==
    LET reused == {CHOOSE i \in PendingOf(list, t) : TRUE :
                      t \in {u \in asking : PendingOf(list, u) # {}}}
    IN  [i \in DOMAIN list |-> IF i \in reused THEN [list[i] EXCEPT !.body = "template"]
                               ELSE list[i]]

\* ... or a proposal is inserted.
Inserted(list, asking) ==
    LET order == SetToSeq({t \in asking : PendingOf(list, t) = {}})
    IN  [i \in DOMAIN order |-> [ticket |-> order[i], status |-> "pending", body |-> "template"]]

Propose(p) ==
    LET read == thread[p].read IN
    /\ thread[p].pc = "propose"
    /\ proposals' = Refreshed(proposals, Asking(read)) \o Inserted(proposals, Asking(read))
    /\ latest' = [t \in Tickets |-> IF Estimable(t, read) THEN EstimateOf(read[t]) ELSE latest[t]]
    /\ record' = [t \in Tickets |-> IF Estimable(t, read)
                                    THEN [record[t] EXCEPT !.days = EstimateOf(read[t])]
                                    ELSE record[t]]
    /\ Go(p, IF thread[p].run = 0 THEN Idle ELSE [Idle EXCEPT !.pc = "complete", !.run = thread[p].run])
    /\ UNCHANGED <<jira, runs, lock, slot, stray, request, observers>>

Complete(p) ==
    /\ thread[p].pc = "complete"
    /\ End(p, "completed")
    /\ UNCHANGED <<jira, record, latest, slot, stray, proposals, request, observers>>

\* Saving another language refreshes the proposals, outside the lock (bound: once).
RefreshCommunications(p) ==
    /\ Happens("refresh") /\ "refresh" \notin incidents
    /\ thread[p].pc = "idle"
    /\ Go(p, [Idle EXCEPT !.pc = "qualify"])
    /\ incidents' = incidents \cup {"refresh"}
    /\ UNCHANGED <<jira, rows, lock, slot, stray, request, kept>>

----------------------------------------------------------------------------
(* Humans.                                                                 *)

AllIdle == \A p \in Threads : thread[p].pc = "idle"

\* update_ticket_estimation.
EstimateByHand(t) ==
    /\ Allows("estimate")
    /\ record[t].status # "none"
    /\ latest' = [latest EXCEPT ![t] = "human"]
    /\ record' = [record EXCEPT ![t].days = "human"]
    /\ kept' = IF AllIdle THEN kept \cup {t} ELSE kept \ {t}
    /\ UNCHANGED <<jira, runs, lock, slot, thread, stray, proposals, request, incidents>>

\* reanalyze: the ticket is read again, or what is stored of it when Jira does not answer,
\* and the verdict goes into its record in the same transaction; the hash and the error of
\* the record stay.  A runner that gets nothing says analysis_failed, with zero days.
Reanalyze(t) ==
    /\ Allows("reanalyze")
    /\ record[t].status # "none"
    /\ (\E p \in Threads : Analysing(p)) => Allows("interference")
    /\ \E version \in {jira[t], record[t].of}, answer \in Answers \cup {<<"analysis_failed", "analyst">>} :
          LET outcome == [status |-> answer[1], days |-> answer[2]] IN
          record' = [record EXCEPT ![t].status = outcome.status, ![t].of = version,
                                   ![t].days = Persistable(outcome)]
    /\ kept' = kept \ {t}
    /\ Interference(\E p \in Threads : Analysing(p))
    /\ UNCHANGED <<jira, latest, runs, lock, slot, thread, stray, proposals, request>>

\* decide_comment_proposal reads the proposal, and writes in another transaction.
ReadProposal(h, i, action) ==
    LET others == {g \in Humans \ {h} : request[g].pc # "idle"} IN
    /\ Allows("decide")
    /\ request[h].pc = "idle" /\ i \in DOMAIN proposals
    /\ proposals[i].status = "pending"
    /\ Len(proposals) + Cardinality(Tickets) <= MaxProposals
    /\ others # {} => Allows("overlap")
    /\ request' = [request EXCEPT ![h] = [pc |-> "decide", id |-> i, action |-> action,
                                          body |-> proposals[i].body]]
    /\ incidents' = incidents \cup (IF others = {} THEN {} ELSE {"overlap"})
    /\ UNCHANGED <<jira, rows, lock, slot, thread, stray, kept>>

Decided(old, read) ==
    CASE read.action = "approve" -> [old EXCEPT !.status = "approved", !.body = read.body]
      [] read.action = "reject"  -> [old EXCEPT !.status = "rejected"]
      [] OTHER                   -> [old EXCEPT !.status = "pending", !.body = "edited"]

WriteDecision(h) ==
    LET me == request[h] IN
    /\ me.pc = "decide"
    /\ proposals' = [proposals EXCEPT ![me.id] = Decided(@, me)]
    /\ request' = [request EXCEPT ![h] = NoRequest]
    /\ UNCHANGED <<jira, record, latest, runs, lock, slot, thread, stray, observers>>

----------------------------------------------------------------------------
ChangeTicket(t) ==
    /\ jira[t] < MaxVersion
    /\ jira' = [jira EXCEPT ![t] = @ + 1]
    /\ UNCHANGED <<rows, lock, slot, thread, stray, request, observers>>

\* The server stops, and starts again.
Crash ==
    /\ Happens("crash")
    /\ ~AllIdle
    /\ thread' = [p \in Threads |-> Idle]
    /\ request' = [h \in Humans |-> NoRequest]
    /\ lock' = NoThread /\ slot' = FALSE /\ stray' = {}
    /\ incidents' = incidents \cup {"crash"}
    /\ UNCHANGED <<jira, rows, kept>>

Init ==
    /\ jira = [t \in Tickets |-> 0]
    /\ \E known \in SUBSET Tickets :    \* analysed on an earlier day
          /\ record = [t \in Tickets |-> IF t \in known
                          THEN [NoRecord EXCEPT !.status = "ready", !.days = "analyst"]
                          ELSE NoRecord]
          /\ latest = [t \in Tickets |-> IF t \in known THEN "analyst" ELSE "none"]
    /\ runs = [r \in RunIds |-> [status |-> "none", old |-> FALSE]]
    /\ lock = NoThread /\ slot = FALSE
    /\ thread = [p \in Threads |-> Idle]
    /\ stray = {} /\ proposals = <<>>
    /\ request = [h \in Humans |-> NoRequest]
    /\ kept = {} /\ incidents = {}

ThreadStep(p) ==
    \/ AcquireLock(p) \/ ReserveLate(p) \/ GiveUp(p)
    \/ Fetch(p) \/ PipelineFails(p) \/ RequestFails(p)
    \/ \E t \in Tickets : TakeTicket(p, t) \/ AgentAnswers(p, t) \/ AgentFails(p, t)
                          \/ AgentTimesOut(p, t)
    \/ StoreOutcomes(p) \/ Qualify(p) \/ Propose(p) \/ Complete(p)

Next ==
    \/ \E p \in Threads :
          \/ ThreadStep(p)
          \/ \E force \in BOOLEAN : Request(p, force)
          \/ Scheduled(p) \/ Scan(p)
          \/ RefreshCommunications(p)
    \/ PollInbox \/ NewDay \/ Crash
    \/ \E r \in RunIds : GrowOld(r)
    \/ \E t \in Tickets : StrayEnds(t) \/ EstimateByHand(t) \/ Reanalyze(t) \/ ChangeTicket(t)
    \/ \E h \in Humans :
          \/ WriteDecision(h)
          \/ \E i \in 1 .. MaxProposals, action \in {"approve", "reject", "edit"} :
                ReadProposal(h, i, action)

Spec == Init /\ [][Next]_vars

----------------------------------------------------------------------------
Records   == [status : Verdicts \cup {"none", "analysis_failed"}, of : 0 .. MaxVersion,
              hash : 0 .. MaxVersion, error : BOOLEAN, days : Estimates]
Outcomes  == [kind : {"none", "success", "cached", "failed"},
              status : Verdicts \cup {"none", "analysis_failed"}, of : 0 .. MaxVersion,
              days : Estimates]
Pcs       == {"idle", "lock", "reserve", "fetch", "analyse", "qualify", "propose", "complete"}
Locals    == [pc : Pcs, run : 0 .. MaxRuns, force : BOOLEAN, todo : SUBSET Tickets,
              busy : SUBSET Tickets, seen : [Tickets -> 0 .. MaxVersion],
              got : [Tickets -> Outcomes], read : [Tickets -> Records]]

\* The values the state may take.
TypeOK ==
    /\ jira \in [Tickets -> 0 .. MaxVersion]
    /\ record \in [Tickets -> Records]
    /\ latest \in [Tickets -> Estimates]
    /\ runs \in [RunIds -> [status : {"none", "running", "completed", "failed"}, old : BOOLEAN]]
    /\ lock \in Threads \cup {NoThread} /\ slot \in BOOLEAN
    /\ thread \in [Threads -> Locals]
    /\ stray \subseteq Tickets
    /\ proposals \in Seq([ticket : Tickets, status : {"pending", "approved", "rejected"},
                          body : {"template", "edited"}])
    /\ request \in [Humans -> [pc : {"idle", "decide"}, id : 0 .. MaxProposals,
                     action : {"none", "approve", "reject", "edit"},
                     body : {"none", "template", "edited"}]]
    /\ kept \subseteq Tickets /\ incidents \subseteq Incidents

\* A verdict without an error is never older than the text its hash stands for: a failure
\* puts a newer hash over an old verdict, and a later run must not take the two for a hit.
NoOutdatedVerdict ==
    \A t \in Tickets :
        record[t].status # "none" /\ ~record[t].error => record[t].of >= record[t].hash

\* A run that was given up for lost after ninety minutes still works, and so may the next
\* one: what is stored of an older text never replaces the verdict of a newer one, as long
\* as no scan or request for one ticket meets an analysis.
VerdictsOnlyGetNewer ==
    [][incidents' \cap {"interference"} = {} =>
        \A t \in Tickets : record'[t].of >= record[t].of]_vars

\* "Automatic runs are incremental and reuse cached results when the relevant Jira input
\* has not changed" (2026-06-16-analyst-async-optimization-design.md:38): a ticket whose
\* stored verdict was made of the very text a run has fetched is not analysed again.
ReusesUnchanged ==
    \A p \in Threads : Analysing(p) /\ ~thread[p].force /\ "interference" \notin incidents =>
        \A t \in thread[p].todo :
            Reusable(t) /\ record[t].of = thread[p].seen[t] => Hit(p, t)

\* A human's estimate given between two runs stands until the ticket is analysed
\* anew: runs that reuse the verdict or fail, and refreshed proposals, keep it.
ManualEstimateStands == \A t \in kept : latest[t] = "human"

\* A proposal that was approved or rejected stays so, whatever runs, refreshes and
\* restarts do, as long as two decisions do not overlap.
DecisionsStand ==
    [][incidents' \cap {"overlap"} = {} =>
        \A i \in DOMAIN proposals :
            proposals[i].status # "pending" => proposals'[i] = proposals[i]]_vars

\* No more analysts work than the dispatcher allows (test_analysis_dispatcher.py:
\* "assert backend.max_running <= 5").
AtMostConcurrency ==
    \A p \in Threads : Cardinality(thread[p].busy \cup stray) <= Concurrency
=============================================================================
