-------------------------- MODULE TicketLifecycle --------------------------
(***************************************************************************)
(* From a Jira ticket to its work orders: the readiness records a scan     *)
(* keeps, the execution queue a daily analysis rebuilds, the consumer that *)
(* starts the first ticket of the queue, the promotion a human asks for,   *)
(* and what the failure of a work order gives back.                        *)
(*                                                                         *)
(* Grain.  One `with connect()` block is one step.  The daily analysis and *)
(* a promotion are sequences of such steps, and an analysis also waits for *)
(* its agents between the first two.                                       *)
(*                                                                         *)
(* Scores, estimations, proposals' texts and the order in which executable *)
(* tickets are ranked are data: a pending proposal and the head of the     *)
(* queue are free choices.  Record statuses other than ready are "blocked".*)
(***************************************************************************)
EXTENDS Naturals

CONSTANTS
    Tickets,       \* the Jira tickets of one project
    MaxRecords,    \* bound: readiness records
    MaxOrders,     \* bound: work orders
    Promotions,    \* promote requests that may be in progress at a time
    Environment    \* what humans may do in this instance

EnvironmentEvents ==
    { "manual_scan",      \* ask for a readiness scan
      "interfere",        \* begin while another is in progress, dismiss what is in delivery
      "resume_failed" }    \* resume a failed work order although the ticket moved on

ASSUME TicketAssumption ==
    /\ MaxRecords \in Nat
    /\ MaxOrders \in Nat
    /\ Environment \subseteq EnvironmentEvents

RecordIds == 1..MaxRecords
OrderIds  == 1..MaxOrders
None      == 0
NoTicket  == "no ticket"

OpenStatus   == { "ready", "blocked" }
RecordStatus == OpenStatus \cup { "absent", "promoted", "dismissed" }
OrderStatus  == { "absent", "active", "failed", "completed" }
ItemStatus   == { "absent", "executable", "blocked", "in_progress" }

VARIABLES
    record,     \* readiness_records
    order,      \* work_orders
    queue,      \* execution_queue_items, by ticket
    head,       \* the ticket in position 1 of the queue
    daily,      \* the thread that holds _ANALYSIS_LOCK
    scan,       \* a readiness scan asked for through the API
    promotion,  \* the promote requests between two of their transactions
    incidents   \* observed: what humans did of these, scans aside

vars == << record, order, queue, head, daily, scan, promotion, incidents >>

DailyPcs == { "idle", "analysing", "read_records", "replace_queue", "check_active",
              "select", "check_record", "mark", "create", "tick", "undo", "release" }

IdlePromotion == [pc |-> "idle", record |-> None]
IdleScan      == [pc |-> "idle", excluded |-> {}]
NoItem        == [status |-> "absent", record |-> None]
IdleDaily     == [pc |-> "idle", excluded |-> {}, items |-> [x \in Tickets |-> NoItem],
                  record |-> None, order |-> None]

TypeOK ==
    /\ record \in [RecordIds -> [ticket: Tickets \cup {NoTicket}, status: RecordStatus]]
    /\ order \in [OrderIds -> [ticket: Tickets \cup {NoTicket}, record: RecordIds \cup {None},
                               status: OrderStatus]]
    /\ queue \in [Tickets -> [status: ItemStatus, record: RecordIds \cup {None}]]
    /\ head \in Tickets \cup {NoTicket}
    /\ daily \in [pc: DailyPcs, excluded: SUBSET Tickets,
                  items: [Tickets -> [status: ItemStatus, record: RecordIds \cup {None}]],
                  record: RecordIds \cup {None}, order: OrderIds \cup {None}]
    /\ scan \in [pc: {"idle", "analysing"}, excluded: SUBSET Tickets]
    /\ promotion \in [Promotions -> [pc: {"idle", "create", "mark"},
                                     record: RecordIds \cup {None}]]
    /\ incidents \subseteq EnvironmentEvents

-----------------------------------------------------------------------------
(* Reads *)

Open(r) == record[r].status \in OpenStatus

OpenRecordOf(x) == { r \in RecordIds : Open(r) /\ record[r].ticket = x }

ActiveOrderOf(x) == { o \in OrderIds : order[o].status = "active" /\ order[o].ticket = x }

\* get_active_development
AnyActiveDevelopment == \E o \in OrderIds : order[o].status = "active"

\* Mutants of _excluded_jira_keys.
NoKeys         == {}
DeliveringKeys == { x \in Tickets : ActiveOrderOf(x) # {} }

\* _excluded_jira_keys
ExcludedKeys ==
    { x \in Tickets : \/ \E r \in RecordIds : record[r].ticket = x /\ record[r].status = "promoted"
                      \/ ActiveOrderOf(x) # {} }

\* Mutant: the index on readiness_records is not unique.
NothingIsRefused(r) == FALSE

\* The partial unique index on readiness_records refuses to reopen r.
IndexRefuses(r) == OpenRecordOf(record[r].ticket) \ {r} # {}

\* A scan, a promotion, or a daily analysis that has not started its work order.
InProgress ==
    \/ daily.pc \notin {"idle", "tick"}
    \/ scan.pc # "idle"
    \/ \E p \in Promotions : promotion[p].pc # "idle"

Happens(events) ==
    /\ events \subseteq Environment
    /\ incidents' = incidents \cup events

\* What begins while another is in progress.
Begins == Happens({ e \in {"interfere"} : InProgress })

\* The ticket of a failed work order was given back, or delivered by another.
MovedOn(o) ==
    \/ record[order[o].record].status # "promoted"
    \/ \E u \in OrderIds \ {o} : /\ order[u].ticket = order[o].ticket
                                /\ order[u].status \in {"active", "completed"}

-----------------------------------------------------------------------------
(* Writes *)

\* mark_queue_item_in_progress
MarkItem(x, r) ==
    queue' = IF queue[x].status = "absent" THEN queue
             ELSE [queue EXCEPT ![x] = [status |-> "in_progress", record |-> r]]

\* release_queue_item
ReleaseItem(x) ==
    queue' = IF queue[x].status = "absent" THEN queue
             ELSE [queue EXCEPT ![x].status = "executable"]

\* Mutant: no look at the work orders of the ticket.
CreateOrderAnyway(o, r) ==
    /\ order[o].status = "absent"
    /\ order' = [order EXCEPT ![o] = [ticket |-> record[r].ticket, record |-> r,
                                      status |-> "active"]]
    /\ record' = [record EXCEPT ![r].status = "promoted"]

\* create_from_readiness, for a ticket without an active order.
CreateOrder(o, r) ==
    /\ ActiveOrderOf(record[r].ticket) = {}
    /\ order[o].status = "absent"
    /\ order' = [order EXCEPT ![o] = [ticket |-> record[r].ticket, record |-> r,
                                      status |-> "active"]]
    /\ record' = [record EXCEPT ![r].status = "promoted"]

-----------------------------------------------------------------------------
Init ==
    /\ record = [r \in RecordIds |-> [ticket |-> NoTicket, status |-> "absent"]]
    /\ order = [o \in OrderIds |-> [ticket |-> NoTicket, record |-> None, status |-> "absent"]]
    /\ queue = [x \in Tickets |-> NoItem]
    /\ head = NoTicket
    /\ daily = IdleDaily
    /\ scan = IdleScan
    /\ promotion = [p \in Promotions |-> IdlePromotion]
    /\ incidents = {}

-----------------------------------------------------------------------------
(* DailyAnalysisPipeline.run, then try_consume *)

\* scan_project reads the tickets it must leave alone, then waits for agents.
StartAnalysis ==
    /\ daily.pc = "idle"
    /\ Begins
    /\ daily' = [IdleDaily EXCEPT !.pc = "analysing", !.excluded = ExcludedKeys]
    /\ UNCHANGED << record, order, queue, head, scan, promotion >>

\* Jira or the analysts are not reachable: the run fails as a whole.
AnalysisFails ==
    /\ daily.pc = "analysing"
    /\ daily' = IdleDaily
    /\ UNCHANGED << record, order, queue, head, scan, promotion, incidents >>

\* _upsert_record: the open record of the ticket is updated, or a new one made.
Upserts(r, x) == IF OpenRecordOf(x) # {} THEN r \in OpenRecordOf(x)
                 ELSE record[r].status = "absent"

\* Records R now say what was found out about the tickets `of`, and records D
\* fell out of the ticket scope.
StoreRecords(R, of, verdict, D) ==
    /\ \A r \in R : Upserts(r, of[r])
    /\ \A r, k \in R : of[r] = of[k] => r = k
    /\ \A r \in R, k \in RecordIds \ R :
          record[r].status = "absent" /\ record[k].status = "absent" => r < k
    /\ record' = [r \in RecordIds |->
          IF r \in R THEN [ticket |-> of[r], status |-> verdict[r]]
          ELSE IF r \in D THEN [record[r] EXCEPT !.status = "dismissed"]
          ELSE record[r]]

\* The transaction that stores the outcomes of a scan.
StoreOutcomes(excluded) ==
    \E R \in SUBSET RecordIds :
    \E of \in [R -> Tickets \ excluded], verdict \in [R -> OpenStatus],
       D \in SUBSET { r \in RecordIds \ R : Open(r) } :
        StoreRecords(R, of, verdict, D)

StoreAnalysis ==
    /\ daily.pc = "analysing"
    /\ StoreOutcomes(daily.excluded)
    /\ daily' = [IdleDaily EXCEPT !.pc = "read_records"]
    /\ UNCHANGED << order, queue, head, scan, promotion, incidents >>

\* POST /readiness/scan runs scan_project outside of _ANALYSIS_LOCK.
StartScan ==
    /\ "manual_scan" \in Environment
    /\ scan.pc = "idle"
    /\ Begins
    /\ scan' = [pc |-> "analysing", excluded |-> ExcludedKeys]
    /\ UNCHANGED << record, order, queue, head, daily, promotion >>

StoreScan ==
    /\ scan.pc = "analysing"
    /\ StoreOutcomes(scan.excluded)
    /\ scan' = IdleScan
    /\ UNCHANGED << order, queue, head, daily, promotion, incidents >>

\* _rebuild_execution_queue reads every open record.
ReadRecords ==
    /\ daily.pc = "read_records"
    /\ \E items \in [Tickets -> { NoItem } \cup
                       [status: {"executable", "blocked"}, record: RecordIds]] :
        /\ \A x \in Tickets :
              IF OpenRecordOf(x) = {} THEN items[x] = NoItem
              ELSE \E r \in OpenRecordOf(x) :
                    items[x] = [record |-> r,
                                status |-> IF record[r].status = "ready" THEN "executable"
                                           ELSE "blocked"]
        /\ daily' = [daily EXCEPT !.pc = "replace_queue", !.items = items]
    /\ UNCHANGED << record, order, queue, head, scan, promotion, incidents >>

\* replace_execution_queue, executable tickets first.
ReplaceQueue ==
    /\ daily.pc = "replace_queue"
    /\ queue' = daily.items
    /\ LET listed     == { x \in Tickets : daily.items[x] # NoItem }
           executable == { x \in Tickets : daily.items[x].status = "executable" }
       IN  head' \in IF executable # {} THEN executable
                     ELSE IF listed # {} THEN listed ELSE { NoTicket }
    /\ daily' = [IdleDaily EXCEPT !.pc = "check_active"]
    /\ UNCHANGED << record, order, scan, promotion, incidents >>

\* Mutant: the consumer does not look.
CheckNothing ==
    /\ daily.pc = "check_active"
    /\ daily' = [daily EXCEPT !.pc = "select"]
    /\ UNCHANGED << record, order, queue, head, scan, promotion, incidents >>

\* try_consume: nothing starts while a development is active.
CheckActive ==
    /\ daily.pc = "check_active"
    /\ daily' = IF AnyActiveDevelopment THEN IdleDaily ELSE [daily EXCEPT !.pc = "select"]
    /\ UNCHANGED << record, order, queue, head, scan, promotion, incidents >>

\* _select_queue_candidate
SelectCandidate ==
    /\ daily.pc = "select"
    /\ daily' = IF head # NoTicket /\ queue[head].status = "executable"
                THEN [daily EXCEPT !.pc = "check_record", !.record = queue[head].record]
                ELSE IdleDaily
    /\ UNCHANGED << record, order, queue, head, scan, promotion, incidents >>

\* The record must be ready and no comment proposal may wait for a human.
CheckRecord ==
    /\ daily.pc = "check_record"
    /\ \/ /\ record[daily.record].status = "ready"
          /\ daily' = [daily EXCEPT !.pc = "mark"]
       \/ daily' = IdleDaily
    /\ UNCHANGED << record, order, queue, head, scan, promotion, incidents >>

MarkCandidate ==
    /\ daily.pc = "mark"
    /\ MarkItem(record[daily.record].ticket, daily.record)
    /\ daily' = [daily EXCEPT !.pc = "create"]
    /\ UNCHANGED << record, order, head, scan, promotion, incidents >>

\* create_from_readiness raises when the ticket has an active work order.
ConsumerCreates ==
    /\ daily.pc = "create"
    /\ \/ \E o \in OrderIds : /\ CreateOrder(o, daily.record)
                              /\ daily' = [daily EXCEPT !.pc = "tick", !.order = o]
       \/ /\ ActiveOrderOf(record[daily.record].ticket) # {}
          /\ daily' = [daily EXCEPT !.pc = "undo"]
          /\ UNCHANGED << record, order >>
    /\ UNCHANGED << queue, head, scan, promotion, incidents >>

\* The tick returns at a gate or after a failure it recorded, or raises
\* because the failure could not be recorded.
ConsumerTickEnds ==
    /\ daily.pc = "tick"
    /\ \/ daily' = IdleDaily
       \/ /\ order[daily.order].status = "active"
          /\ IndexRefuses(order[daily.order].record)
          /\ daily' = [daily EXCEPT !.pc = "undo"]
    /\ UNCHANGED << record, order, queue, head, scan, promotion, incidents >>

\* handle_development_failure, outside of any transaction of its caller: the
\* work order if there is one, and the record as the consumer read it.
Undo ==
    /\ daily.pc = "undo"
    /\ IF IndexRefuses(daily.record)
       THEN /\ daily' = IdleDaily
            /\ UNCHANGED << record, order >>
       ELSE /\ record' = [record EXCEPT ![daily.record].status = "ready"]
            /\ order' = IF daily.order = None THEN order
                        ELSE [order EXCEPT ![daily.order].status = "failed"]
            /\ daily' = [daily EXCEPT !.pc = "release"]
    /\ UNCHANGED << queue, head, scan, promotion, incidents >>

Release ==
    /\ daily.pc = "release"
    /\ ReleaseItem(record[daily.record].ticket)
    /\ daily' = IdleDaily
    /\ UNCHANGED << record, order, head, scan, promotion, incidents >>

-----------------------------------------------------------------------------
(* ReadinessService: promote, dismiss, reanalyze *)

StartPromotion(p, r) ==
    /\ promotion[p].pc = "idle"
    /\ Begins
    /\ record[r].status = "ready"
    /\ promotion' = [promotion EXCEPT ![p] = [pc |-> "create", record |-> r]]
    /\ UNCHANGED << record, order, queue, head, daily, scan >>

PromotionCreates(p) ==
    /\ promotion[p].pc = "create"
    /\ \/ /\ \E o \in OrderIds : CreateOrder(o, promotion[p].record)
          /\ promotion' = [promotion EXCEPT ![p].pc = "mark"]
       \/ /\ ActiveOrderOf(record[promotion[p].record].ticket) # {}
          /\ promotion' = [promotion EXCEPT ![p] = IdlePromotion]
          /\ UNCHANGED << record, order >>
    /\ UNCHANGED << queue, head, daily, scan, incidents >>

\* _mark_queue_item_in_progress
PromotionMarks(p) ==
    /\ promotion[p].pc = "mark"
    /\ MarkItem(record[promotion[p].record].ticket, promotion[p].record)
    /\ promotion' = [promotion EXCEPT ![p] = IdlePromotion]
    /\ UNCHANGED << record, order, head, daily, scan, incidents >>

\* dismiss asks for nothing but a record.
Dismiss(r) ==
    /\ Open(r) \/ record[r].status = "promoted"
    /\ Happens({ e \in {"interfere"} : record[r].status = "promoted" })
    /\ record' = [record EXCEPT ![r].status = "dismissed"]
    /\ UNCHANGED << order, queue, head, daily, scan, promotion >>

\* reanalyze keeps one transaction open from its check to its update.
Reanalyze(r) ==
    /\ Open(r)
    /\ \E verdict \in OpenStatus : record' = [record EXCEPT ![r].status = verdict]
    /\ UNCHANGED << order, queue, head, daily, scan, promotion, incidents >>

-----------------------------------------------------------------------------
(* What DeliveryPipeline does to its work order, seen from here *)

\* handle_development_failure in the transaction that records the failure of
\* an agent.  When the index refuses, that transaction is rolled back and the
\* work order stays as it is.
OrderFails(o) ==
    /\ order[o].status = "active"
    /\ ~IndexRefuses(order[o].record)
    /\ order' = [order EXCEPT ![o].status = "failed"]
    /\ record' = [record EXCEPT ![order[o].record].status = "ready"]
    /\ ReleaseItem(order[o].ticket)
    /\ UNCHANGED << head, daily, scan, promotion, incidents >>

\* A failed publication does not give the ticket back.
PublicationFails(o) ==
    /\ order[o].status = "active"
    /\ order' = [order EXCEPT ![o].status = "failed"]
    /\ UNCHANGED << record, queue, head, daily, scan, promotion, incidents >>

OrderCompletes(o) ==
    /\ order[o].status = "active"
    /\ order' = [order EXCEPT ![o].status = "completed"]
    /\ UNCHANGED << record, queue, head, daily, scan, promotion, incidents >>

\* prepare_work_order_resume looks at the work order alone.
ResumeFailed(o) ==
    /\ order[o].status = "failed"
    /\ Happens({ e \in {"interfere"} : InProgress } \cup { e \in {"resume_failed"} : MovedOn(o) })
    /\ order' = [order EXCEPT ![o].status = "active"]
    /\ UNCHANGED << record, queue, head, daily, scan, promotion >>

-----------------------------------------------------------------------------
DailyStep ==
    \/ StartAnalysis \/ AnalysisFails \/ StoreAnalysis
    \/ ReadRecords \/ ReplaceQueue
    \/ CheckActive \/ SelectCandidate \/ CheckRecord \/ MarkCandidate
    \/ ConsumerCreates \/ ConsumerTickEnds \/ Undo \/ Release

Next ==
    \/ DailyStep \/ StartScan \/ StoreScan
    \/ \E p \in Promotions : \/ \E r \in RecordIds : StartPromotion(p, r)
                             \/ PromotionCreates(p)
                             \/ PromotionMarks(p)
    \/ \E r \in RecordIds : Dismiss(r) \/ Reanalyze(r)
    \/ \E o \in OrderIds : OrderFails(o) \/ PublicationFails(o) \/ OrderCompletes(o)
                           \/ ResumeFailed(o)

Spec == Init /\ [][Next]_vars

-----------------------------------------------------------------------------
(* Properties that hold under any interleaving *)

\* A ticket never has two open readiness records, whatever scans, failures
\* and dismissals do at the same time.
OneOpenRecord ==
    \A r, k \in RecordIds :
        Open(r) /\ Open(k) /\ record[r].ticket = record[k].ticket => r = k

\* A ticket never has two active work orders.
OneActiveOrder ==
    \A o, u \in OrderIds :
        /\ order[o].status = "active" /\ order[u].status = "active"
        /\ order[o].ticket = order[u].ticket
        => o = u

-----------------------------------------------------------------------------
(* Properties of a project where a promotion, a resume or a scan waits for  *)
(* another to end, and nobody dismisses what is in delivery: incidents = {} *)

\* What was delivered is not delivered again.
DeliveredOnce ==
    [][\A o \in OrderIds :
          incidents' = {} /\ order[o].status # "active" /\ order'[o].status = "active" =>
              \A u \in OrderIds :
                  order[u].ticket = order'[o].ticket => order[u].status # "completed"]_vars

\* The consumer starts a work order only when no development is active.
ConsumerStartsAlone ==
    [][incidents' = {} /\ daily.pc = "create" /\ daily'.pc = "tick" =>
          ~AnyActiveDevelopment]_vars

\* While a ticket is being delivered its failure can be recorded: no open
\* record of the ticket keeps the promoted one from being reopened.
FailureCanBeRecorded ==
    incidents = {} =>
        \A o \in OrderIds : order[o].status = "active" => ~IndexRefuses(order[o].record)
=============================================================================
