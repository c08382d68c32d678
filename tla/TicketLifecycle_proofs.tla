----------------------- MODULE TicketLifecycle_proofs -----------------------
(* Theorems about TicketLifecycle, for every value of its constants. *)
EXTENDS TicketLifecycle, TLAPS

\* What a row or a thread refers to exists: the tables have no foreign keys, so
\* this is up to the order in which the code reads and writes.
ReferencesExist ==
    /\ \A o \in OrderIds : order[o].status # "absent" => order[o].record \in RecordIds
    /\ \A x \in Tickets : queue[x].status # "absent" => queue[x].record \in RecordIds
    /\ \A x \in Tickets : daily.items[x].status # "absent" => daily.items[x].record \in RecordIds
    /\ daily.pc \in {"check_record", "mark", "create", "tick", "undo", "release"}
          => daily.record \in RecordIds
    /\ daily.order # None => order[daily.order].status # "absent"
    /\ \A p \in Promotions : promotion[p].pc # "idle" => promotion[p].record \in RecordIds

Inv == TypeOK /\ ReferencesExist

RecordTable == [RecordIds -> [ticket: Tickets \cup {NoTicket}, status: RecordStatus]]
OrderTable  == [OrderIds -> [ticket: Tickets \cup {NoTicket}, record: RecordIds \cup {None},
                             status: OrderStatus]]

-----------------------------------------------------------------------------
(* What the writes of the model do to the tables *)

\* Creating a work order adds one that refers to the record it closes.
LEMMA CreateOrderEffect ==
    ASSUME Inv, NEW o \in OrderIds, NEW r \in RecordIds, CreateOrder(o, r)
    PROVE  /\ record' \in RecordTable
           /\ order' \in OrderTable
           /\ \A u \in OrderIds : order'[u].status # "absent" => order'[u].record \in RecordIds
           /\ \A k \in RecordIds : record'[k].ticket = record[k].ticket
           /\ \A k \in RecordIds : Open(k)' => Open(k)
           /\ \A u \in OrderIds \ {o} : order'[u] = order[u]
           /\ order'[o].status = "active"
           /\ order'[o].ticket = record[r].ticket /\ ActiveOrderOf(record[r].ticket) = {}
  BY DEF Inv, RecordTable, OrderTable, TypeOK, ReferencesExist, CreateOrder, Open, RecordStatus, OpenStatus, OrderStatus

\* A change of status keeps the tables typed and every reference in place.
LEMMA StatusEffect ==
    ASSUME Inv
    PROVE  /\ \A r \in RecordIds, status \in RecordStatus :
                 record' = [record EXCEPT ![r].status = status] => record' \in RecordTable
           /\ \A o \in OrderIds, status \in OrderStatus :
                 order' = [order EXCEPT ![o].status = status] =>
                    /\ order' \in OrderTable
                    /\ \A u \in OrderIds : order'[u].record = order[u].record
                    /\ order'[o].status = status
                    /\ \A u \in OrderIds \ {o} : order'[u] = order[u]
<1>1. ASSUME NEW r \in RecordIds, NEW status \in RecordStatus,
             record' = [record EXCEPT ![r].status = status]
      PROVE  record' \in RecordTable
  <2>1. record \in RecordTable
    BY DEF Inv, TypeOK, RecordTable
  <2> QED
    BY <1>1, <2>1 DEF RecordTable
<1>2. ASSUME NEW o \in OrderIds, NEW status \in OrderStatus,
             order' = [order EXCEPT ![o].status = status]
      PROVE  /\ order' \in OrderTable
             /\ \A u \in OrderIds : order'[u].record = order[u].record
             /\ order'[o].status = status
             /\ \A u \in OrderIds \ {o} : order'[u] = order[u]
  <2>1. order \in OrderTable
    BY DEF Inv, TypeOK, OrderTable
  <2> QED
    BY <1>2, <2>1 DEF OrderTable
<1> QED
  BY <1>1, <1>2

\* A queue item that is marked or released is still one, and refers to a record.
LEMMA QueueEffect ==
    ASSUME Inv, NEW x
    PROVE  /\ \A r \in RecordIds : MarkItem(x, r) =>
                 /\ queue' \in [Tickets -> [status: ItemStatus, record: RecordIds \cup {None}]]
                 /\ \A y \in Tickets : queue'[y].status # "absent" => queue'[y].record \in RecordIds
           /\ ReleaseItem(x) =>
                 /\ queue' \in [Tickets -> [status: ItemStatus, record: RecordIds \cup {None}]]
                 /\ \A y \in Tickets : queue'[y].status # "absent" => queue'[y].record \in RecordIds
<1>1. ASSUME NEW r \in RecordIds, MarkItem(x, r)
      PROVE  /\ queue' \in [Tickets -> [status: ItemStatus, record: RecordIds \cup {None}]]
             /\ \A y \in Tickets : queue'[y].status # "absent" => queue'[y].record \in RecordIds
  BY <1>1 DEF Inv, TypeOK, ReferencesExist, MarkItem, ItemStatus
<1>2. ASSUME ReleaseItem(x)
      PROVE  /\ queue' \in [Tickets -> [status: ItemStatus, record: RecordIds \cup {None}]]
             /\ \A y \in Tickets : queue'[y].status # "absent" => queue'[y].record \in RecordIds
  <2>1. CASE queue[x].status = "absent"
    BY <1>2, <2>1 DEF Inv, TypeOK, ReferencesExist, ReleaseItem
  <2>2. CASE queue[x].status # "absent"
    <3>1. queue' = [y \in Tickets |-> IF y = x THEN [queue[x] EXCEPT !.status = "executable"]
                                      ELSE queue[y]]
      BY <1>2, <2>2 DEF Inv, TypeOK, ReleaseItem
    <3>2. \A y \in Tickets : queue[y] \in [status: ItemStatus, record: RecordIds \cup {None}]
      BY DEF Inv, TypeOK
    <3>3. \A y \in Tickets : y = x => queue'[y] = [status |-> "executable", record |-> queue[y].record]
      BY <3>1, <3>2
    <3>4. \A y \in Tickets : y # x => queue'[y] = queue[y]
      BY <3>1
    <3> QED
      BY <2>2, <3>1, <3>2, <3>3, <3>4 DEF Inv, ReferencesExist, ItemStatus
  <2> QED
    BY <2>1, <2>2
<1> QED
  BY <1>1, <1>2

\* Storing the outcomes of a scan keeps the records typed, and leaves a ticket
\* with one open record: an open record is updated before a new one is made.
LEMMA StoreOutcomesEffect ==
    ASSUME Inv, NEW excluded, StoreOutcomes(excluded)
    PROVE  /\ record' \in RecordTable
           /\ OneOpenRecord => OneOpenRecord'
<1>1. PICK R \in SUBSET RecordIds :
          \E of \in [R -> Tickets \ excluded], verdict \in [R -> OpenStatus],
             D \in SUBSET { r \in RecordIds \ R : Open(r) } :
              StoreRecords(R, of, verdict, D)
  BY Zenon DEF StoreOutcomes
<1>2. PICK of \in [R -> Tickets \ excluded], verdict \in [R -> OpenStatus],
           D \in SUBSET { r \in RecordIds \ R : Open(r) } :
              StoreRecords(R, of, verdict, D)
  BY <1>1, Zenon
<1>3. record' \in RecordTable
  BY <1>2 DEF Inv, RecordTable, TypeOK, StoreRecords, RecordStatus, OpenStatus
<1>4. ASSUME OneOpenRecord PROVE OneOpenRecord'
  <2>1. /\ \A r \in R : record'[r].ticket = of[r]
        /\ \A k \in RecordIds \ R : Open(k)' => Open(k) /\ record'[k] = record[k]
    BY <1>2 DEF Inv, TypeOK, StoreRecords, Open, OpenStatus
  <2>2. ASSUME NEW r \in R, NEW k \in RecordIds \ R, Open(k), record[k].ticket = of[r]
        PROVE  FALSE
    <3>1. k \in OpenRecordOf(of[r])
      BY <2>2 DEF OpenRecordOf
    <3>2. r \in OpenRecordOf(of[r])
      BY <1>2, <3>1 DEF StoreRecords, Upserts
    <3> QED
      BY <1>4, <3>1, <3>2 DEF OneOpenRecord, OpenRecordOf
  <2>3. \A r, k \in R : of[r] = of[k] => r = k
    BY <1>2 DEF StoreRecords
  <2> QED
    BY <1>4, <2>1, <2>2, <2>3 DEF OneOpenRecord
<1> QED
  BY <1>3, <1>4

\* What happens is something that may.
LEMMA IncidentType ==
    ASSUME Inv, NEW events, Happens(events)
    PROVE  incidents' \subseteq EnvironmentEvents
  BY TicketAssumption DEF Inv, TypeOK, Happens

-----------------------------------------------------------------------------
(* Type correctness *)

\* The empty tables are well typed and refer to nothing.
LEMMA InitTypes == Init => Inv
  BY DEF Init, Inv, TypeOK, ReferencesExist, NoItem, IdleDaily, IdleScan, IdlePromotion,
         RecordStatus, OpenStatus, OrderStatus, ItemStatus, DailyPcs

\* Every step of the daily analysis and of the consumer keeps the tables and
\* what the thread has read well typed, and refers to what exists.
LEMMA DailyStepTypes ==
    ASSUME Inv, DailyStep
    PROVE  Inv'
<1> USE DEF Inv, DailyPcs
<1>0. IdleDaily \in [pc: DailyPcs, excluded: SUBSET Tickets,
                     items: [Tickets -> [status: ItemStatus, record: RecordIds \cup {None}]],
                     record: RecordIds \cup {None}, order: OrderIds \cup {None}]
  BY DEF IdleDaily, NoItem, ItemStatus
<1>1. CASE StartAnalysis
  <2>1. ExcludedKeys \in SUBSET Tickets
    BY DEF ExcludedKeys
  <2> QED
    BY <1>0, <1>1, <2>1, IncidentType DEF StartAnalysis, Begins, TypeOK, ReferencesExist, IdleDaily, NoItem
<1>2. CASE AnalysisFails
  BY <1>0, <1>2 DEF AnalysisFails, TypeOK, ReferencesExist, IdleDaily, NoItem
<1>3. CASE StoreAnalysis
  BY <1>0, <1>3, StoreOutcomesEffect DEF RecordTable, StoreAnalysis, TypeOK, ReferencesExist, IdleDaily, NoItem
<1>4. CASE ReadRecords
  <2>1. PICK items \in [Tickets -> { NoItem } \cup [status: {"executable", "blocked"}, record: RecordIds]] :
            daily' = [daily EXCEPT !.pc = "replace_queue", !.items = items]
    BY <1>4 DEF ReadRecords
  <2>2. /\ items \in [Tickets -> [status: ItemStatus, record: RecordIds \cup {None}]]
        /\ \A x \in Tickets : items[x].status # "absent" => items[x].record \in RecordIds
    BY DEF NoItem, ItemStatus
  <2> QED
    BY <1>4, <2>1, <2>2 DEF ReadRecords, TypeOK, ReferencesExist
<1>5. CASE ReplaceQueue
  <2>1. head' \in Tickets \cup {NoTicket}
    BY <1>5 DEF ReplaceQueue
  <2> QED
    BY <1>0, <1>5, <2>1 DEF ReplaceQueue, TypeOK, ReferencesExist, IdleDaily, NoItem
<1>6. CASE CheckActive
  BY <1>0, <1>6 DEF CheckActive, TypeOK, ReferencesExist, IdleDaily, NoItem
<1>7. CASE SelectCandidate
  BY <1>0, <1>7 DEF SelectCandidate, TypeOK, ReferencesExist, IdleDaily, NoItem
<1>8. CASE CheckRecord
  BY <1>0, <1>8 DEF CheckRecord, TypeOK, ReferencesExist, IdleDaily, NoItem
<1>9. CASE MarkCandidate
  BY <1>9, QueueEffect DEF MarkCandidate, TypeOK, ReferencesExist
<1>10. CASE ConsumerCreates
  <2>1. ASSUME NEW o \in OrderIds, CreateOrder(o, daily.record),
               daily' = [daily EXCEPT !.pc = "tick", !.order = o]
        PROVE  Inv'
    <3>1. daily.record \in RecordIds
      BY <1>10 DEF ConsumerCreates, ReferencesExist
    <3> QED
      BY <1>10, <2>1, <3>1, CreateOrderEffect DEF RecordTable, OrderTable, ConsumerCreates, TypeOK, ReferencesExist
  <2>2. CASE daily' = [daily EXCEPT !.pc = "undo"] /\ UNCHANGED << record, order >>
    BY <1>10, <2>2 DEF ConsumerCreates, TypeOK, ReferencesExist
  <2> QED
    BY <1>10, <2>1, <2>2 DEF ConsumerCreates
<1>11. CASE ConsumerTickEnds
  BY <1>0, <1>11 DEF ConsumerTickEnds, TypeOK, ReferencesExist, IdleDaily, NoItem
<1>12. CASE Undo
  <2>1. CASE UNCHANGED << record, order >> /\ daily' = IdleDaily
    BY <1>0, <1>12, <2>1 DEF Undo, TypeOK, ReferencesExist, IdleDaily, NoItem
  <2>2. CASE /\ record' = [record EXCEPT ![daily.record].status = "ready"]
             /\ order' = IF daily.order = None THEN order
                         ELSE [order EXCEPT ![daily.order].status = "failed"]
             /\ daily' = [daily EXCEPT !.pc = "release"]
    <3>1. record' \in RecordTable
      BY <1>12, <2>2, StatusEffect DEF Undo, ReferencesExist, RecordStatus, OpenStatus
    <3>2. order' \in OrderTable
      BY <2>2, StatusEffect DEF OrderTable, TypeOK, OrderStatus
    <3>3. /\ \A o \in OrderIds : order'[o].status # "absent" => order'[o].record \in RecordIds
          /\ daily.order # None => order'[daily.order].status # "absent"
      <4>1. daily.order # None => daily.order \in OrderIds /\ order[daily.order].status # "absent"
        BY DEF TypeOK, ReferencesExist
      <4> QED
        BY <2>2, <4>1, StatusEffect DEF ReferencesExist, OrderStatus
    <3> QED
      BY <1>12, <2>2, <3>1, <3>2, <3>3 DEF Undo, RecordTable, OrderTable, TypeOK, ReferencesExist
  <2> QED
    BY <1>12, <2>1, <2>2 DEF Undo
<1>13. CASE Release
  BY <1>0, <1>13, QueueEffect DEF Release, TypeOK, ReferencesExist, IdleDaily, NoItem
<1> QED
  BY <1>1, <1>2, <1>3, <1>4, <1>5, <1>6, <1>7, <1>8, <1>9, <1>10, <1>11, <1>12, <1>13 DEF DailyStep

\* So does every other step.
LEMMA NextTypes == Inv /\ [Next]_vars => Inv'
<1> SUFFICES ASSUME Inv, [Next]_vars PROVE Inv'
  OBVIOUS
<1> USE DEF Inv
<1>1. CASE UNCHANGED vars
  BY <1>1 DEF vars, TypeOK, ReferencesExist
<1>2. CASE StartScan
  <2>1. ExcludedKeys \in SUBSET Tickets
    BY DEF ExcludedKeys
  <2> QED
    BY <1>2, <2>1, IncidentType DEF StartScan, Begins, TypeOK, ReferencesExist
<1>3. CASE StoreScan
  BY <1>3, StoreOutcomesEffect DEF RecordTable, StoreScan, IdleScan, TypeOK, ReferencesExist
<1>4. ASSUME NEW p \in Promotions, NEW r \in RecordIds, StartPromotion(p, r) PROVE Inv'
  BY <1>4, IncidentType DEF StartPromotion, Begins, TypeOK, ReferencesExist
<1>5. ASSUME NEW p \in Promotions, PromotionCreates(p) PROVE Inv'
  <2>1. promotion[p].record \in RecordIds
    BY <1>5 DEF PromotionCreates, ReferencesExist
  <2>2. ASSUME NEW o \in OrderIds, CreateOrder(o, promotion[p].record),
               promotion' = [promotion EXCEPT ![p].pc = "mark"]
        PROVE  Inv'
    BY <1>5, <2>1, <2>2, CreateOrderEffect
       DEF PromotionCreates, RecordTable, OrderTable, TypeOK, ReferencesExist
  <2>3. CASE promotion' = [promotion EXCEPT ![p] = IdlePromotion] /\ UNCHANGED << record, order >>
    BY <1>5, <2>3 DEF PromotionCreates, IdlePromotion, TypeOK, ReferencesExist
  <2> QED
    BY <1>5, <2>2, <2>3 DEF PromotionCreates
<1>6. ASSUME NEW p \in Promotions, PromotionMarks(p) PROVE Inv'
  <2>1. promotion[p].record \in RecordIds
    BY <1>6 DEF PromotionMarks, ReferencesExist
  <2>2. /\ queue' \in [Tickets -> [status: ItemStatus, record: RecordIds \cup {None}]]
        /\ \A x \in Tickets : queue'[x].status # "absent" => queue'[x].record \in RecordIds
    BY <1>6, <2>1, QueueEffect DEF PromotionMarks
  <2> QED
    BY <1>6, <2>2 DEF PromotionMarks, IdlePromotion, TypeOK, ReferencesExist
<1>7. ASSUME NEW r \in RecordIds, Dismiss(r) \/ Reanalyze(r) PROVE Inv'
  <2>1. record' \in RecordTable
    BY <1>7, StatusEffect DEF Dismiss, Reanalyze, RecordStatus
  <2> QED
    BY <1>7, <2>1, IncidentType DEF Dismiss, Reanalyze, RecordTable, TypeOK, ReferencesExist
<1>8. ASSUME NEW o \in OrderIds, OrderFails(o) PROVE Inv'
  <2>1. record' \in RecordTable
    BY <1>8, StatusEffect DEF OrderFails, ReferencesExist, RecordStatus, OpenStatus
  <2>2. /\ order' \in OrderTable
        /\ \A u \in OrderIds : order'[u].status # "absent" => order'[u].record \in RecordIds
    BY <1>8 DEF OrderFails, OrderTable, TypeOK, ReferencesExist, OrderStatus
  <2>3. /\ queue' \in [Tickets -> [status: ItemStatus, record: RecordIds \cup {None}]]
        /\ \A x \in Tickets : queue'[x].status # "absent" => queue'[x].record \in RecordIds
    BY <1>8, QueueEffect DEF OrderFails
  <2> QED
    BY <1>8, <2>1, <2>2, <2>3 DEF OrderFails, RecordTable, OrderTable, TypeOK, ReferencesExist
<1>9. ASSUME NEW o \in OrderIds, PublicationFails(o) \/ OrderCompletes(o) \/ ResumeFailed(o)
      PROVE  Inv'
  <2>1. ASSUME NEW status \in {"failed", "completed", "active"},
               order[o].status # "absent", order' = [order EXCEPT ![o].status = status]
        PROVE  /\ order' \in OrderTable
               /\ \A u \in OrderIds : order'[u].status # "absent" => order'[u].record \in RecordIds
               /\ daily.order # None => order'[daily.order].status # "absent"
    <3>1. status \in OrderStatus
      BY DEF OrderStatus
    <3> QED
      BY <2>1, <3>1, StatusEffect DEF ReferencesExist, TypeOK
  <2>2. /\ order' \in OrderTable
        /\ \A u \in OrderIds : order'[u].status # "absent" => order'[u].record \in RecordIds
        /\ daily.order # None => order'[daily.order].status # "absent"
    BY <1>9, <2>1 DEF PublicationFails, OrderCompletes, ResumeFailed
  <2> QED
    BY <1>9, <2>2, IncidentType
       DEF PublicationFails, OrderCompletes, ResumeFailed, OrderTable, TypeOK, ReferencesExist
<1> QED
  BY <1>1, <1>2, <1>3, <1>4, <1>5, <1>6, <1>7, <1>8, <1>9, DailyStepTypes DEF Next

\* Tables, threads and requests keep the values they may hold, and what a
\* thread refers to in its later transactions exists.
THEOREM TypeCorrect == Spec => []TypeOK
<1>1. Inv => TypeOK
  BY DEF Inv
<1> QED
  BY <1>1, InitTypes, NextTypes, PTL DEF Spec

-----------------------------------------------------------------------------
(* One open record *)

\* No step gives a ticket a second open record: a scan updates the open record
\* of a ticket, and what reopens a closed one is refused by the index.
LEMMA NextOneOpenRecord == Inv /\ OneOpenRecord /\ [Next]_vars => OneOpenRecord'
<1> SUFFICES ASSUME Inv, OneOpenRecord, [Next]_vars PROVE OneOpenRecord'
  OBVIOUS
<1>1. CASE UNCHANGED record
  BY <1>1 DEF OneOpenRecord, Open
<1>2. CASE \E excluded \in SUBSET Tickets : StoreOutcomes(excluded)
  BY <1>2, StoreOutcomesEffect
<1>3. ASSUME NEW o \in OrderIds, NEW r \in RecordIds, CreateOrder(o, r) PROVE OneOpenRecord'
  BY <1>3, CreateOrderEffect DEF OneOpenRecord
<1>4. ASSUME NEW r \in RecordIds, ~IndexRefuses(r),
             record' = [record EXCEPT ![r].status = "ready"]
      PROVE  OneOpenRecord'
  <2>1. \A k \in RecordIds \ {r} : record'[k] = record[k]
    BY <1>4 DEF Inv, TypeOK
  <2>2. record'[r].ticket = record[r].ticket
    BY <1>4 DEF Inv, TypeOK
  <2>3. \A k \in RecordIds \ {r} : Open(k) => record[k].ticket # record[r].ticket
    BY <1>4 DEF IndexRefuses, OpenRecordOf
  <2> QED
    BY <2>1, <2>2, <2>3 DEF OneOpenRecord, Open
<1>5. ASSUME NEW r \in RecordIds, Dismiss(r) \/ Reanalyze(r) PROVE OneOpenRecord'
  BY <1>5 DEF Dismiss, Reanalyze, Inv, TypeOK, OneOpenRecord, Open, OpenStatus
<1>6. CASE DailyStep
  <2>1. CASE StoreAnalysis
    BY <1>2, <2>1 DEF StoreAnalysis, Inv, TypeOK
  <2>2. CASE ConsumerCreates
    BY <1>1, <1>3, <2>2 DEF ConsumerCreates, Inv, ReferencesExist
  <2>3. CASE Undo
    BY <1>1, <1>4, <2>3 DEF Undo, Inv, ReferencesExist
  <2> QED
    BY <1>1, <1>6, <2>1, <2>2, <2>3
       DEF DailyStep, StartAnalysis, AnalysisFails, ReadRecords, ReplaceQueue, CheckActive,
           SelectCandidate, CheckRecord, MarkCandidate, ConsumerTickEnds, Release
<1>7. CASE StoreScan
  BY <1>2, <1>7 DEF StoreScan, Inv, TypeOK
<1>8. ASSUME NEW p \in Promotions, PromotionCreates(p) PROVE OneOpenRecord'
  BY <1>1, <1>3, <1>8 DEF PromotionCreates, Inv, ReferencesExist
<1>9. ASSUME NEW o \in OrderIds, OrderFails(o) PROVE OneOpenRecord'
  BY <1>4, <1>9 DEF OrderFails, Inv, ReferencesExist
<1> QED
  BY <1>1, <1>5, <1>6, <1>7, <1>8, <1>9
     DEF Next, vars, StartScan, StartPromotion, PromotionMarks, PublicationFails, OrderCompletes,
         ResumeFailed

\* A ticket has at most one open readiness record, however scans, failures,
\* dismissals and resumes interleave.
THEOREM OneRecordPerTicket == Spec => []OneOpenRecord
<1>1. Init => OneOpenRecord
  BY DEF Init, OneOpenRecord, Open, OpenStatus
<1> QED
  BY <1>1, InitTypes, NextTypes, NextOneOpenRecord, PTL DEF Spec

-----------------------------------------------------------------------------
(* One active work order *)

\* Creation looks for an active work order of the ticket in its own
\* transaction; only a resume could go around it.
LEMMA NextOneActiveOrder ==
    ASSUME "resume_failed" \notin Environment, Inv, OneActiveOrder, [Next]_vars
    PROVE  OneActiveOrder'
<1>1. CASE UNCHANGED order
  BY <1>1 DEF OneActiveOrder
<1>2. ASSUME NEW o \in OrderIds, NEW r \in RecordIds, CreateOrder(o, r) PROVE OneActiveOrder'
  <2>1. /\ \A u \in OrderIds \ {o} : order'[u] = order[u]
        /\ order'[o].ticket = record[r].ticket
        /\ \A u \in OrderIds : order[u].status = "active" => order[u].ticket # record[r].ticket
    BY <1>2, CreateOrderEffect DEF ActiveOrderOf
  <2> QED
    BY <2>1 DEF OneActiveOrder
<1>3. ASSUME NEW o \in OrderIds, NEW status \in {"failed", "completed"},
             order' = [order EXCEPT ![o].status = status]
      PROVE  OneActiveOrder'
  BY <1>3 DEF OneActiveOrder, Inv, TypeOK
<1>4. CASE DailyStep
  <2>1. CASE ConsumerCreates
    BY <1>1, <1>2, <2>1 DEF ConsumerCreates, Inv, ReferencesExist
  <2>2. CASE Undo
    BY <1>1, <1>3, <2>2 DEF Undo, Inv, TypeOK
  <2> QED
    BY <1>1, <1>4, <2>1, <2>2
       DEF DailyStep, StartAnalysis, AnalysisFails, StoreAnalysis, ReadRecords, ReplaceQueue,
           CheckActive, SelectCandidate, CheckRecord, MarkCandidate, ConsumerTickEnds, Release
<1>5. ASSUME NEW p \in Promotions, PromotionCreates(p) PROVE OneActiveOrder'
  BY <1>1, <1>2, <1>5 DEF PromotionCreates, Inv, ReferencesExist
<1>6. ASSUME NEW o \in OrderIds, OrderFails(o) \/ PublicationFails(o) \/ OrderCompletes(o)
      PROVE  OneActiveOrder'
  BY <1>3, <1>6 DEF OrderFails, PublicationFails, OrderCompletes
<1>7. ASSUME NEW o \in OrderIds, ResumeFailed(o) PROVE OneActiveOrder'
  <2>1. /\ order' = [order EXCEPT ![o].status = "active"]
        /\ \A u \in OrderIds \ {o} :
              order[u].ticket = order[o].ticket => order[u].status # "active"
    <3>1. ~MovedOn(o) /\ order' = [order EXCEPT ![o].status = "active"]
      BY <1>7 DEF ResumeFailed, Happens
    <3> QED
      BY <3>1 DEF MovedOn
  <2> QED
    BY <2>1 DEF OneActiveOrder, Inv, TypeOK
<1> QED
  BY <1>1, <1>4, <1>5, <1>6, <1>7
     DEF Next, vars, StartScan, StoreScan, StartPromotion, PromotionMarks, Dismiss, Reanalyze

\* A ticket has at most one active work order as long as nobody resumes a
\* failed work order whose ticket moved on.
THEOREM OneOrderPerTicket ==
    ASSUME "resume_failed" \notin Environment
    PROVE  Spec => []OneActiveOrder
<1>1. Init => OneActiveOrder
  BY DEF Init, OneActiveOrder
<1>2. Inv /\ OneActiveOrder /\ [Next]_vars => OneActiveOrder'
  BY NextOneActiveOrder
<1> QED
  BY <1>1, <1>2, InitTypes, NextTypes, PTL DEF Spec

-----------------------------------------------------------------------------
(* A project without incidents: what a delivery holds *)

Started(o) == order[o].status \in {"active", "completed"}
Live(r)    == Open(r) \/ record[r].status = "promoted"

\* The record of a ticket in delivery keeps every other record of it closed.
OneLiveRecord ==
    \A r, k \in RecordIds :
        Live(r) /\ Live(k) /\ record[r].ticket = record[k].ticket => r = k

\* A work order belongs to the ticket of its record, holds it as long as it is
\* active or completed, and is then the only such one.
OrdersHoldRecords ==
    /\ \A r \in RecordIds : record[r].status # "absent" => record[r].ticket \in Tickets
    /\ \A o \in OrderIds :
          /\ order[o].status # "absent" =>
                /\ record[order[o].record].status # "absent"
                /\ record[order[o].record].ticket = order[o].ticket
          /\ Started(o) => record[order[o].record].status = "promoted"
    /\ \A o, u \in OrderIds :
          Started(o) /\ Started(u) /\ order[o].ticket = order[u].ticket => o = u

\* A record a work order may be made of: its ticket has no other live one.
Free(r) ==
    /\ record[r].status \notin {"absent", "promoted"}
    /\ \A k \in RecordIds : Live(k) /\ record[k].ticket = record[r].ticket => k = r

\* Whoever analyses or starts something does so alone.
OneInProgress ==
    /\ \/ daily.pc \in {"idle", "tick"}
       \/ scan.pc = "idle" /\ \A p \in Promotions : promotion[p].pc = "idle"
    /\ \A p \in Promotions :
          promotion[p].pc # "idle" =>
              scan.pc = "idle" /\ \A q \in Promotions : promotion[q].pc # "idle" => q = p

\* What a thread has read earlier is still so.
WhatWasReadStands ==
    /\ daily.pc \notin {"undo", "release"}
    /\ daily.pc = "tick" => daily.order \in OrderIds
    /\ \A r \in RecordIds : record[r].status = "promoted" =>
          /\ daily.pc = "analysing" => record[r].ticket \in daily.excluded
          /\ scan.pc = "analysing" => record[r].ticket \in scan.excluded
    /\ daily.pc \in {"select", "check_record", "mark", "create"} => ~AnyActiveDevelopment
    /\ daily.pc \in {"mark", "create"} => Free(daily.record)
    /\ \A p \in Promotions : promotion[p].pc = "create" => Free(promotion[p].record)

Tables    == OneLiveRecord /\ OrdersHoldRecords
CalmState == Tables /\ OneInProgress /\ WhatWasReadStands
Calm      == incidents = {} => CalmState

\* What others do to the tables between two steps of a thread.
Undisturbed ==
    /\ \A r \in RecordIds : Free(r) => Free(r)'
    /\ \A r \in RecordIds : record'[r].status = "promoted" =>
          record[r].status = "promoted" /\ record'[r].ticket = record[r].ticket
    /\ AnyActiveDevelopment' => AnyActiveDevelopment

\* Storing the outcomes of a scan that leaves the tickets in delivery alone
\* reopens none of them.
LEMMA StoreOutcomesCalm ==
    ASSUME Inv, Tables, NEW excluded, StoreOutcomes(excluded), UNCHANGED order,
           \A r \in RecordIds : record[r].status = "promoted" => record[r].ticket \in excluded
    PROVE  /\ Tables'
           /\ \A r \in RecordIds : record'[r].status = "promoted" =>
                 record[r].status = "promoted" /\ record'[r].ticket = record[r].ticket
<1>1. PICK R \in SUBSET RecordIds :
          \E of \in [R -> Tickets \ excluded], verdict \in [R -> OpenStatus],
             D \in SUBSET { r \in RecordIds \ R : Open(r) } :
              StoreRecords(R, of, verdict, D)
  BY Zenon DEF StoreOutcomes
<1>2. PICK of \in [R -> Tickets \ excluded], verdict \in [R -> OpenStatus],
           D \in SUBSET { r \in RecordIds \ R : Open(r) } :
              StoreRecords(R, of, verdict, D)
  BY <1>1, Zenon
<1>3. \A r \in R : /\ record'[r].ticket = of[r] /\ record'[r].status \in OpenStatus
                   /\ of[r] \in Tickets /\ of[r] \notin excluded
                   /\ Open(r) \/ record[r].status = "absent"
                   /\ Open(r) => record[r].ticket = of[r]
  <2> TAKE r \in R
  <2>1. record'[r] = [ticket |-> of[r], status |-> verdict[r]]
    BY <1>2 DEF StoreRecords
  <2>2. Upserts(r, of[r])
    BY <1>2 DEF StoreRecords
  <2>3. OpenRecordOf(of[r]) # {} => Open(r) /\ record[r].ticket = of[r]
    BY <2>2 DEF Upserts, OpenRecordOf
  <2>4. OpenRecordOf(of[r]) = {} => record[r].status = "absent"
    BY <2>2 DEF Upserts
  <2>5. record[r].status = "absent" => ~Open(r)
    BY DEF Open, OpenStatus
  <2> QED
    BY <1>2, <2>1, <2>3, <2>4, <2>5
<1>4. \A k \in RecordIds \ R : /\ record'[k].ticket = record[k].ticket
                               /\ \/ record'[k].status = record[k].status
                                  \/ Open(k) /\ record'[k].status = "dismissed"
  BY <1>2 DEF StoreRecords, Inv, TypeOK
<1>5. \A k \in RecordIds : record[k].status # "absent" =>
          record'[k].ticket = record[k].ticket /\ record'[k].status # "absent"
  BY <1>3, <1>4 DEF OpenStatus
<1>6. \A k \in RecordIds : record[k].status = "promoted" => record'[k].status = "promoted"
  BY <1>3, <1>4 DEF Open, OpenStatus
<1>7. \A k \in RecordIds : record'[k].status = "promoted" =>
          k \notin R /\ record[k].status = "promoted" /\ record'[k].ticket = record[k].ticket
  BY <1>3, <1>4 DEF OpenStatus
<1>8. OneOpenRecord'
  <2>1. OneOpenRecord
    BY DEF Tables, OneLiveRecord, Live, OneOpenRecord
  <2> QED
    BY <2>1, StoreOutcomesEffect
<1>9. ASSUME NEW r \in RecordIds, NEW k \in RecordIds, Open(r)', record'[k].status = "promoted",
             record'[r].ticket = record'[k].ticket
      PROVE  FALSE
  <2>1. record[k].status = "promoted" /\ record[k].ticket \in excluded
        /\ record'[k].ticket = record[k].ticket
    BY <1>7, <1>9
  <2>2. r \notin R
    BY <1>3, <1>9, <2>1
  <2>3. Open(r) /\ record'[r].ticket = record[r].ticket
    BY <1>4, <1>9, <2>2 DEF Open, OpenStatus
  <2>4. r = k
    BY <1>9, <2>1, <2>3 DEF Tables, OneLiveRecord, Live
  <2> QED
    BY <2>1, <2>3, <2>4 DEF Open, OpenStatus
<1>10. OneLiveRecord'
  <2> SUFFICES ASSUME NEW r \in RecordIds, NEW k \in RecordIds, Live(r)', Live(k)',
                      record'[r].ticket = record'[k].ticket
               PROVE  r = k
    BY DEF OneLiveRecord
  <2>1. CASE Open(r)' /\ Open(k)'
    BY <1>8, <2>1 DEF OneOpenRecord
  <2>2. CASE record'[r].status = "promoted" /\ record'[k].status = "promoted"
    BY <1>7, <2>2 DEF Tables, OneLiveRecord, Live
  <2> QED
    BY <1>9, <2>1, <2>2 DEF Live
<1>11. OrdersHoldRecords'
  <2>1. \A r \in RecordIds : record'[r].status # "absent" => record'[r].ticket \in Tickets
    BY <1>3, <1>4 DEF Tables, OrdersHoldRecords, Open, OpenStatus
  <2>2. \A o \in OrderIds : order[o].status # "absent" => order[o].record \in RecordIds
    BY DEF Inv, ReferencesExist
  <2>3. \A o \in OrderIds : (Started(o)' <=> Started(o)) /\ (Started(o) => order[o].status # "absent")
    BY DEF Started
  <2> QED
    BY <1>5, <1>6, <2>1, <2>2, <2>3 DEF Tables, OrdersHoldRecords
<1> QED
  BY <1>7, <1>10, <1>11 DEF Tables

\* A work order made of a free record holds it.
LEMMA CreateOrderCalm ==
    ASSUME Inv, Tables, NEW o \in OrderIds, NEW r \in RecordIds, CreateOrder(o, r), Free(r)
    PROVE  /\ Tables'
           /\ \A u \in OrderIds : order[u].ticket = record[r].ticket => order[u].status # "completed"
<1>1. /\ order[o].status = "absent"
      /\ order'[o] = [ticket |-> record[r].ticket, record |-> r, status |-> "active"]
      /\ \A u \in OrderIds \ {o} : order'[u] = order[u]
  BY DEF CreateOrder, Inv, TypeOK
<1>2. /\ record'[r].status = "promoted" /\ record'[r].ticket = record[r].ticket
      /\ \A k \in RecordIds \ {r} : record'[k] = record[k]
  BY DEF CreateOrder, Inv, TypeOK
<1>3. \A u \in OrderIds : order[u].status # "absent" => order[u].record \in RecordIds
  BY DEF Inv, ReferencesExist
<1>4. \A u \in OrderIds : Started(u) => order[u].ticket # record[r].ticket /\ order[u].record # r
  <2> SUFFICES ASSUME NEW u \in OrderIds, Started(u)
               PROVE  order[u].ticket # record[r].ticket /\ order[u].record # r
    OBVIOUS
  <2>1. /\ order[u].record \in RecordIds /\ record[order[u].record].status = "promoted"
        /\ record[order[u].record].ticket = order[u].ticket
    BY <1>3 DEF Tables, OrdersHoldRecords, Started
  <2> QED
    BY <2>1 DEF Free, Live
<1>5. \A u \in OrderIds \ {o} : Started(u)' <=> Started(u)
  BY <1>1 DEF Started
<1>6. ~Started(o) /\ \A u \in OrderIds : Started(u) => order[u].status # "absent"
  BY <1>1 DEF Started
<1>7. OneLiveRecord'
  <2>1. \A k \in RecordIds \ {r} : (Live(k)' <=> Live(k)) /\ record'[k].ticket = record[k].ticket
    BY <1>2 DEF Live, Open
  <2> QED
    BY <1>2, <2>1 DEF Tables, OneLiveRecord, Free
<1>8. OrdersHoldRecords'
  <2>1. \A k \in RecordIds : record'[k].status # "absent" => record'[k].ticket \in Tickets
    BY <1>2 DEF Tables, OrdersHoldRecords, Free
  <2>2. \A u \in OrderIds :
          /\ order'[u].status # "absent" =>
                /\ record'[order'[u].record].status # "absent"
                /\ record'[order'[u].record].ticket = order'[u].ticket
          /\ Started(u)' => record'[order'[u].record].status = "promoted"
    <3> TAKE u \in OrderIds
    <3>1. CASE u = o
      BY <1>1, <1>2, <3>1
    <3>2. CASE u # o
      BY <1>1, <1>2, <1>3, <1>5, <1>6, <3>2 DEF Tables, OrdersHoldRecords
    <3> QED
      BY <3>1, <3>2
  <2>3. \A u, v \in OrderIds :
          Started(u)' /\ Started(v)' /\ order'[u].ticket = order'[v].ticket => u = v
    BY <1>1, <1>4, <1>5 DEF Tables, OrdersHoldRecords
  <2> QED
    BY <2>1, <2>2, <2>3 DEF OrdersHoldRecords
<1>9. \A u \in OrderIds : order[u].ticket = record[r].ticket => order[u].status # "completed"
  BY <1>4 DEF Started
<1> QED
  BY <1>7, <1>8, <1>9 DEF Tables

\* The failure of a work order reopens a record whose ticket has no other live one.
LEMMA OrderFailsCalm ==
    ASSUME Inv, Tables, NEW o \in OrderIds, OrderFails(o)
    PROVE  Tables' /\ Undisturbed
<1> DEFINE k == order[o].record
<1>1. /\ order[o].status = "active" /\ Started(o) /\ k \in RecordIds
      /\ record[k].status = "promoted" /\ record[k].ticket = order[o].ticket
  BY DEF OrderFails, Started, Inv, ReferencesExist, Tables, OrdersHoldRecords
<1>2. /\ order' = [order EXCEPT ![o].status = "failed"]
      /\ record' = [record EXCEPT ![k].status = "ready"]
  BY DEF OrderFails
<1>3. /\ order'[o].status = "failed" /\ order'[o].record = k /\ order'[o].ticket = order[o].ticket
      /\ \A u \in OrderIds \ {o} : order'[u] = order[u]
  BY <1>2 DEF Inv, TypeOK
<1>4. /\ record'[k].status = "ready" /\ record'[k].ticket = record[k].ticket
      /\ \A r \in RecordIds \ {k} : record'[r] = record[r]
  BY <1>1, <1>2 DEF Inv, TypeOK
<1> HIDE DEF k
<1>5. \A u \in OrderIds : order[u].status # "absent" => order[u].record \in RecordIds
  BY DEF Inv, ReferencesExist
<1>6. \A u \in OrderIds \ {o} : /\ Started(u)' <=> Started(u)
                                /\ Started(u) => order[u].status # "absent"
  BY <1>3 DEF Started
<1>7. ~Started(o)'
  BY <1>3 DEF Started
<1>8. \A u \in OrderIds \ {o} : Started(u) => order[u].record # k
  BY <1>1, <1>6 DEF Tables, OrdersHoldRecords
<1>9. \A r \in RecordIds : (Live(r)' <=> Live(r)) /\ record'[r].ticket = record[r].ticket
  BY <1>1, <1>4 DEF Live, Open, OpenStatus
<1>10. OneLiveRecord'
  BY <1>9 DEF Tables, OneLiveRecord
<1>11. OrdersHoldRecords'
  <2>1. \A r \in RecordIds : record'[r].status # "absent" => record'[r].ticket \in Tickets
    BY <1>1, <1>4 DEF Tables, OrdersHoldRecords
  <2>2. \A u \in OrderIds :
          /\ order'[u].status # "absent" =>
                /\ record'[order'[u].record].status # "absent"
                /\ record'[order'[u].record].ticket = order'[u].ticket
          /\ Started(u)' => record'[order'[u].record].status = "promoted"
    <3> TAKE u \in OrderIds
    <3>1. CASE u = o
      BY <1>1, <1>3, <1>4, <1>7, <3>1
    <3>2. CASE u # o
      BY <1>3, <1>4, <1>5, <1>6, <1>8, <3>2 DEF Tables, OrdersHoldRecords
    <3> QED
      BY <3>1, <3>2
  <2>3. \A u, v \in OrderIds :
          Started(u)' /\ Started(v)' /\ order'[u].ticket = order'[v].ticket => u = v
    BY <1>3, <1>6, <1>7 DEF Tables, OrdersHoldRecords
  <2> QED
    BY <2>1, <2>2, <2>3 DEF OrdersHoldRecords
<1>12. Undisturbed
  <2>1. \A r \in RecordIds : Free(r) => Free(r)'
    BY <1>1, <1>4, <1>9 DEF Free
  <2>2. \A r \in RecordIds : record'[r].status = "promoted" =>
            record[r].status = "promoted" /\ record'[r].ticket = record[r].ticket
    BY <1>4
  <2>3. AnyActiveDevelopment' => AnyActiveDevelopment
    BY <1>1 DEF AnyActiveDevelopment
  <2> QED
    BY <2>1, <2>2, <2>3 DEF Undisturbed
<1> QED
  BY <1>10, <1>11, <1>12 DEF Tables

\* A work order that ends otherwise leaves the records as they are.
LEMMA OrderEndsCalm ==
    ASSUME Inv, Tables, NEW o \in OrderIds, PublicationFails(o) \/ OrderCompletes(o)
    PROVE  Tables' /\ Undisturbed
<1>1. PICK status \in {"failed", "completed"} : order' = [order EXCEPT ![o].status = status]
  BY DEF PublicationFails, OrderCompletes
<1>2. order[o].status = "active" /\ Started(o) /\ record' = record
  BY DEF PublicationFails, OrderCompletes, Started
<1>3. /\ \A u \in OrderIds : /\ order'[u].ticket = order[u].ticket
                             /\ order'[u].record = order[u].record
                             /\ Started(u)' => Started(u)
                             /\ order'[u].status # "absent" => order[u].status # "absent"
      /\ order'[o].status # "active"
      /\ \A u \in OrderIds \ {o} : order'[u] = order[u]
  BY <1>1, <1>2 DEF Inv, TypeOK, Started
<1>4. \A r \in RecordIds : (Live(r)' <=> Live(r)) /\ (Free(r) => Free(r)')
  BY <1>2 DEF Live, Open, Free
<1>5. Tables'
  BY <1>2, <1>3, <1>4 DEF Tables, OneLiveRecord, OrdersHoldRecords
<1>6. Undisturbed
  BY <1>2, <1>3, <1>4 DEF Undisturbed, AnyActiveDevelopment
<1> QED
  BY <1>5, <1>6

\* A failed work order that is resumed still holds the record of its ticket.
LEMMA ResumeCalm ==
    ASSUME Inv, Tables, NEW o \in OrderIds, ResumeFailed(o), ~MovedOn(o)
    PROVE  Tables'
<1>1. /\ order[o].status = "failed" /\ order' = [order EXCEPT ![o].status = "active"]
      /\ record' = record
  BY DEF ResumeFailed
<1>2. /\ \A u \in OrderIds : /\ order'[u].ticket = order[u].ticket
                             /\ order'[u].record = order[u].record
                             /\ order'[u].status # "absent" => order[u].status # "absent"
      /\ \A u \in OrderIds \ {o} : Started(u)' <=> Started(u)
  BY <1>1 DEF Inv, TypeOK, Started
<1>3. record[order[o].record].status = "promoted"
  BY DEF MovedOn
<1>4. \A u \in OrderIds \ {o} : order[u].ticket = order[o].ticket => ~Started(u)
  BY DEF MovedOn, Started
<1>5. \A r \in RecordIds : Live(r)' <=> Live(r)
  BY <1>1 DEF Live, Open
<1>6. OneLiveRecord'
  BY <1>1, <1>5 DEF Tables, OneLiveRecord
<1>7. OrdersHoldRecords'
  <2>1. \A u \in OrderIds :
          /\ order'[u].status # "absent" =>
                /\ record'[order'[u].record].status # "absent"
                /\ record'[order'[u].record].ticket = order'[u].ticket
          /\ Started(u)' => record'[order'[u].record].status = "promoted"
    BY <1>1, <1>2, <1>3 DEF Tables, OrdersHoldRecords
  <2>2. \A u, v \in OrderIds :
          Started(u)' /\ Started(v)' /\ order'[u].ticket = order'[v].ticket => u = v
    BY <1>2, <1>4 DEF Tables, OrdersHoldRecords
  <2> QED
    BY <1>1, <2>1, <2>2 DEF Tables, OrdersHoldRecords
<1> QED
  BY <1>6, <1>7 DEF Tables

\* So do a human's verdict on an open record and its dismissal.
LEMMA VerdictCalm ==
    ASSUME Inv, Tables, NEW r \in RecordIds, Open(r), Dismiss(r) \/ Reanalyze(r)
    PROVE  Tables' /\ Undisturbed
<1>1. PICK status \in {"ready", "blocked", "dismissed"} :
          record' = [record EXCEPT ![r].status = status]
  BY DEF Dismiss, Reanalyze, OpenStatus
<1>2. order' = order
  BY DEF Dismiss, Reanalyze
<1>3. /\ record'[r].status = status /\ record'[r].ticket = record[r].ticket
      /\ \A k \in RecordIds \ {r} : record'[k] = record[k]
  BY <1>1 DEF Inv, TypeOK
<1>4. record[r].status \notin {"absent", "promoted"}
  BY DEF Open, OpenStatus
<1>5. \A k \in RecordIds : /\ record'[k].ticket = record[k].ticket
                           /\ Live(k)' => Live(k)
                           /\ record'[k].status = "promoted" <=> record[k].status = "promoted"
                           /\ record'[k].status = "absent" <=> record[k].status = "absent"
  BY <1>3, <1>4 DEF Live, Open
<1>6. Undisturbed
  BY <1>2, <1>5 DEF Undisturbed, Free, AnyActiveDevelopment
<1>7. OneLiveRecord'
  BY <1>5 DEF Tables, OneLiveRecord
<1>8. OrdersHoldRecords'
  <2>1. \A u \in OrderIds : order[u].status # "absent" => order[u].record \in RecordIds
    BY DEF Inv, ReferencesExist
  <2>2. \A u \in OrderIds : (Started(u)' <=> Started(u)) /\ (Started(u) => order[u].status # "absent")
    BY <1>2 DEF Started
  <2> QED
    BY <1>2, <1>5, <2>1, <2>2 DEF Tables, OrdersHoldRecords
<1> QED
  BY <1>6, <1>7, <1>8 DEF Tables

-----------------------------------------------------------------------------
(* A project without incidents: every step *)

\* What happened is not forgotten.
LEMMA IncidentsRemain ==
    ASSUME [Next]_vars, incidents' = {}
    PROVE  incidents = {}
  BY DEF Next, vars, DailyStep, StartAnalysis, AnalysisFails, StoreAnalysis, ReadRecords,
         ReplaceQueue, CheckActive, SelectCandidate, CheckRecord, MarkCandidate, ConsumerCreates,
         ConsumerTickEnds, Undo, Release, StartScan, StoreScan, StartPromotion, PromotionCreates,
         PromotionMarks, Dismiss, Reanalyze, OrderFails, PublicationFails, OrderCompletes,
         ResumeFailed, Begins, Happens

\* Without an incident, what begins does so while nothing is in progress.
LEMMA BeginsAlone ==
    ASSUME Begins, incidents' = {}
    PROVE  ~InProgress
  BY DEF Begins, Happens

\* Between its steps a thread or a request relies on what it has read.
LEMMA OthersStep ==
    ASSUME Inv, CalmState, Tables', Undisturbed, UNCHANGED << daily, scan, promotion >>
    PROVE  CalmState'
<1>1. OneInProgress'
  BY DEF CalmState, OneInProgress
<1>2. daily.pc \in {"mark", "create"} => daily.record \in RecordIds
  BY DEF Inv, ReferencesExist
<1>3. \A p \in Promotions : promotion[p].pc = "create" => promotion[p].record \in RecordIds
  BY DEF Inv, ReferencesExist
<1>4. /\ daily.pc \in {"mark", "create"} => Free(daily.record)'
      /\ \A p \in Promotions : promotion[p].pc = "create" => Free(promotion[p].record)'
  BY <1>2, <1>3 DEF CalmState, WhatWasReadStands, Undisturbed
<1>5. WhatWasReadStands'
  BY <1>4 DEF CalmState, WhatWasReadStands, Undisturbed
<1> QED
  BY <1>1, <1>5 DEF CalmState

\* A step that leaves the tables alone disturbs nobody.
LEMMA TablesUnchanged ==
    ASSUME UNCHANGED << record, order >>
    PROVE  /\ Undisturbed
           /\ Tables => Tables'
  BY DEF Undisturbed, Tables, OneLiveRecord, OrdersHoldRecords, Live, Open, Free, Started,
         AnyActiveDevelopment

\* A ready record is free.
LEMMA ReadyIsFree ==
    ASSUME Tables, NEW r \in RecordIds, record[r].status = "ready"
    PROVE  Free(r)
  BY DEF Tables, OneLiveRecord, Free, Live, Open, OpenStatus

\* The daily analysis leaves the tickets in delivery alone, and the consumer starts
\* one that nobody delivers while nothing is in delivery.
LEMMA DailyStepCalm ==
    ASSUME Inv, CalmState, DailyStep, incidents' = {}
    PROVE  CalmState'
<1> DEFINE Others == scan.pc = "idle" /\ \A p \in Promotions : promotion[p].pc = "idle"
<1>1. CASE StartAnalysis
  <2>1. daily' = [IdleDaily EXCEPT !.pc = "analysing", !.excluded = ExcludedKeys]
        /\ UNCHANGED << record, order, scan, promotion >>
    BY <1>1 DEF StartAnalysis
  <2>2. daily'.pc = "analysing" /\ daily'.excluded = ExcludedKeys
    BY <2>1 DEF IdleDaily
  <2>3. Others
    BY <1>1, BeginsAlone DEF StartAnalysis, InProgress
  <2>4. \A r \in RecordIds : record[r].status = "promoted" => record[r].ticket \in ExcludedKeys
    BY DEF CalmState, Tables, OrdersHoldRecords, ExcludedKeys
  <2>5. Tables'
    BY <2>1, TablesUnchanged DEF CalmState
  <2> QED
    BY <2>1, <2>2, <2>3, <2>4, <2>5 DEF CalmState, OneInProgress, WhatWasReadStands
<1>2. ASSUME UNCHANGED << record, order, scan, promotion >>, daily' = IdleDaily
      PROVE  CalmState'
  <2>1. daily'.pc = "idle"
    BY <1>2 DEF IdleDaily
  <2>2. Tables'
    BY <1>2, TablesUnchanged DEF CalmState
  <2>3. \A p \in Promotions : promotion[p].pc = "create" =>
            promotion[p].record \in RecordIds /\ Free(promotion[p].record)
    BY DEF Inv, ReferencesExist, CalmState, WhatWasReadStands
  <2>4. \A p \in Promotions : promotion[p].pc = "create" => Free(promotion[p].record)'
    BY <1>2, <2>3, TablesUnchanged DEF Undisturbed
  <2> QED
    BY <1>2, <2>1, <2>2, <2>4 DEF CalmState, OneInProgress, WhatWasReadStands
<1>3. ASSUME daily.pc \notin {"idle", "tick"}, UNCHANGED << record, order, scan, promotion >>,
             daily'.pc \in {"replace_queue", "check_active", "select", "check_record", "mark", "create"},
             daily'.pc \in {"select", "check_record", "mark", "create"} => ~AnyActiveDevelopment,
             daily'.pc \in {"mark", "create"} => Free(daily'.record)
      PROVE  CalmState'
  <2>1. Others
    BY <1>3 DEF CalmState, OneInProgress
  <2>2. Tables'
    BY <1>3, TablesUnchanged DEF CalmState
  <2>3. ~AnyActiveDevelopment => ~AnyActiveDevelopment'
    BY <1>3, TablesUnchanged DEF Undisturbed
  <2>4. Free(daily'.record) => Free(daily.record)'
    BY <1>3 DEF Free, Live, Open
  <2> QED
    BY <1>3, <2>1, <2>2, <2>3, <2>4 DEF CalmState, OneInProgress, WhatWasReadStands
<1>4. CASE AnalysisFails
  BY <1>2, <1>4 DEF AnalysisFails
<1>5. CASE StoreAnalysis
  <2>1. /\ daily.pc = "analysing" /\ StoreOutcomes(daily.excluded)
        /\ daily' = [IdleDaily EXCEPT !.pc = "read_records"]
        /\ UNCHANGED << order, scan, promotion >>
    BY <1>5 DEF StoreAnalysis
  <2>2. daily'.pc = "read_records"
    BY <2>1 DEF IdleDaily
  <2>3. Others
    BY <2>1 DEF CalmState, OneInProgress
  <2>4. Tables'
    BY <2>1, StoreOutcomesCalm DEF CalmState, WhatWasReadStands
  <2> QED
    BY <2>1, <2>2, <2>3, <2>4 DEF CalmState, OneInProgress, WhatWasReadStands
<1>6. CASE ReadRecords
  <2>1. daily'.pc = "replace_queue"
    BY <1>6 DEF ReadRecords, Inv, TypeOK
  <2> QED
    BY <1>3, <1>6, <2>1 DEF ReadRecords
<1>7. CASE ReplaceQueue
  <2>1. daily'.pc = "check_active"
    BY <1>7 DEF ReplaceQueue, IdleDaily
  <2> QED
    BY <1>3, <1>7, <2>1 DEF ReplaceQueue
<1>8. CASE CheckActive
  <2>1. CASE AnyActiveDevelopment
    BY <1>2, <1>8, <2>1 DEF CheckActive
  <2>2. CASE ~AnyActiveDevelopment
    <3>1. daily'.pc = "select"
      BY <1>8, <2>2 DEF CheckActive, Inv, TypeOK
    <3> QED
      BY <1>3, <1>8, <2>2, <3>1 DEF CheckActive
  <2> QED
    BY <2>1, <2>2
<1>9. CASE SelectCandidate
  <2>1. CASE daily' = IdleDaily
    BY <1>2, <1>9, <2>1 DEF SelectCandidate
  <2>2. CASE daily' = [daily EXCEPT !.pc = "check_record", !.record = queue[head].record]
    <3>1. daily'.pc = "check_record"
      BY <2>2 DEF Inv, TypeOK
    <3> QED
      BY <1>3, <1>9, <3>1 DEF SelectCandidate, CalmState, WhatWasReadStands
  <2> QED
    BY <1>9, <2>1, <2>2 DEF SelectCandidate
<1>10. CASE CheckRecord
  <2>1. CASE daily' = IdleDaily
    BY <1>2, <1>10, <2>1 DEF CheckRecord
  <2>2. CASE record[daily.record].status = "ready" /\ daily' = [daily EXCEPT !.pc = "mark"]
    <3>1. daily'.pc = "mark" /\ daily'.record = daily.record
      BY <2>2 DEF Inv, TypeOK
    <3>2. daily.record \in RecordIds
      BY <1>10 DEF CheckRecord, Inv, ReferencesExist
    <3>3. Free(daily'.record)
      BY <2>2, <3>1, <3>2, ReadyIsFree DEF CalmState
    <3> QED
      BY <1>3, <1>10, <3>1, <3>3 DEF CheckRecord, CalmState, WhatWasReadStands
  <2> QED
    BY <1>10, <2>1, <2>2 DEF CheckRecord
<1>11. CASE MarkCandidate
  <2>1. daily'.pc = "create" /\ daily'.record = daily.record
    BY <1>11 DEF MarkCandidate, Inv, TypeOK
  <2> QED
    BY <1>3, <1>11, <2>1 DEF MarkCandidate, CalmState, WhatWasReadStands
<1>12. CASE ConsumerCreates
  <2>1. /\ daily.pc = "create" /\ daily.record \in RecordIds
        /\ Free(daily.record) /\ ~AnyActiveDevelopment
        /\ UNCHANGED << scan, promotion >>
    BY <1>12 DEF ConsumerCreates, Inv, ReferencesExist, CalmState, WhatWasReadStands
  <2>2. ActiveOrderOf(record[daily.record].ticket) = {}
    BY <2>1 DEF ActiveOrderOf, AnyActiveDevelopment
  <2>3. PICK o \in OrderIds : /\ CreateOrder(o, daily.record)
                              /\ daily' = [daily EXCEPT !.pc = "tick", !.order = o]
    BY <1>12, <2>2 DEF ConsumerCreates
  <2>4. daily'.pc = "tick" /\ daily'.order = o
    BY <2>3 DEF Inv, TypeOK
  <2>5. Tables'
    BY <2>1, <2>3, CreateOrderCalm DEF CalmState
  <2>6. Others
    BY <2>1 DEF CalmState, OneInProgress
  <2> QED
    BY <2>1, <2>4, <2>5, <2>6 DEF CalmState, OneInProgress, WhatWasReadStands
<1>13. CASE ConsumerTickEnds
  <2>1. daily.order \in OrderIds
    BY <1>13 DEF ConsumerTickEnds, CalmState, WhatWasReadStands
  <2>2. ASSUME order[daily.order].status = "active" PROVE ~IndexRefuses(order[daily.order].record)
    <3>1. order[daily.order].record \in RecordIds
      BY <2>1, <2>2 DEF Inv, ReferencesExist
    <3>2. record[order[daily.order].record].status = "promoted"
      BY <2>1, <2>2 DEF CalmState, Tables, OrdersHoldRecords, Started
    <3> QED
      BY <3>1, <3>2 DEF IndexRefuses, OpenRecordOf, CalmState, Tables, OneLiveRecord, Live
  <2> QED
    BY <1>2, <1>13, <2>2 DEF ConsumerTickEnds
<1>14. ~Undo /\ ~Release
  BY DEF Undo, Release, CalmState, WhatWasReadStands
<1> QED
  BY <1>1, <1>4, <1>5, <1>6, <1>7, <1>8, <1>9, <1>10, <1>11, <1>12, <1>13, <1>14 DEF DailyStep

\* Promotions and scans, and what humans and agents do to work orders.
LEMMA NextCalm ==
    ASSUME Inv, Calm, [Next]_vars
    PROVE  Calm'
<1> SUFFICES ASSUME incidents' = {} PROVE CalmState'
  BY DEF Calm
<1>1. incidents = {}
  BY IncidentsRemain
<1>2. CalmState
  BY <1>1 DEF Calm
<1>3. CASE UNCHANGED vars
  BY <1>2, <1>3, TablesUnchanged, OthersStep DEF vars, CalmState
<1>4. CASE DailyStep
  BY <1>2, <1>4, DailyStepCalm
<1>5. CASE StartScan
  <2>1. /\ scan' = [pc |-> "analysing", excluded |-> ExcludedKeys]
        /\ UNCHANGED << record, order, daily, promotion >>
    BY <1>5 DEF StartScan
  <2>2. daily.pc \in {"idle", "tick"} /\ \A p \in Promotions : promotion[p].pc = "idle"
    BY <1>5, BeginsAlone DEF StartScan, InProgress
  <2>3. \A r \in RecordIds : record[r].status = "promoted" => record[r].ticket \in ExcludedKeys
    BY <1>2 DEF CalmState, Tables, OrdersHoldRecords, ExcludedKeys
  <2>4. Tables'
    BY <1>2, <2>1, TablesUnchanged DEF CalmState
  <2> QED
    BY <1>2, <2>1, <2>2, <2>3, <2>4 DEF CalmState, OneInProgress, WhatWasReadStands
<1>6. CASE StoreScan
  <2>1. /\ scan.pc = "analysing" /\ StoreOutcomes(scan.excluded) /\ scan' = IdleScan
        /\ UNCHANGED << order, daily, promotion >>
    BY <1>6 DEF StoreScan
  <2>2. daily.pc \in {"idle", "tick"} /\ \A p \in Promotions : promotion[p].pc = "idle"
    BY <1>2, <2>1 DEF CalmState, OneInProgress
  <2>3. Tables'
    BY <1>2, <2>1, StoreOutcomesCalm DEF CalmState, WhatWasReadStands
  <2> QED
    BY <1>2, <2>1, <2>2, <2>3 DEF CalmState, OneInProgress, WhatWasReadStands, IdleScan
<1>7. ASSUME NEW p \in Promotions, NEW r \in RecordIds, StartPromotion(p, r) PROVE CalmState'
  <2>1. /\ record[r].status = "ready"
        /\ promotion' = [promotion EXCEPT ![p] = [pc |-> "create", record |-> r]]
        /\ UNCHANGED << record, order, daily, scan >>
    BY <1>7 DEF StartPromotion
  <2>2. /\ daily.pc \in {"idle", "tick"} /\ scan.pc = "idle"
        /\ \A q \in Promotions : promotion[q].pc = "idle"
    BY <1>7, BeginsAlone DEF StartPromotion, InProgress
  <2>3. /\ promotion'[p].pc = "create" /\ promotion'[p].record = r
        /\ \A q \in Promotions : q # p => promotion'[q].pc = "idle"
    BY <2>1, <2>2 DEF Inv, TypeOK
  <2>4. Tables' /\ Undisturbed
    BY <1>2, <2>1, TablesUnchanged DEF CalmState
  <2>5. Free(r)'
    BY <1>2, <2>1, <2>4, ReadyIsFree DEF CalmState, Undisturbed
  <2> QED
    BY <1>2, <2>1, <2>2, <2>3, <2>4, <2>5 DEF CalmState, OneInProgress, WhatWasReadStands
<1>8. ASSUME NEW p \in Promotions, promotion[p].pc # "idle", Tables', UNCHANGED << daily, scan >>,
             promotion'[p].pc \in {"idle", "mark"},
             \A q \in Promotions : q # p => promotion'[q] = promotion[q]
      PROVE  CalmState'
  <2>1. /\ daily.pc \in {"idle", "tick"} /\ scan.pc = "idle"
        /\ \A q \in Promotions : q # p => promotion[q].pc = "idle"
    BY <1>2, <1>8 DEF CalmState, OneInProgress
  <2> QED
    BY <1>2, <1>8, <2>1 DEF CalmState, OneInProgress, WhatWasReadStands
<1>9. ASSUME NEW p \in Promotions, PromotionCreates(p) PROVE CalmState'
  <2>1. /\ promotion[p].pc = "create" /\ promotion[p].record \in RecordIds
        /\ Free(promotion[p].record) /\ UNCHANGED << daily, scan >>
    BY <1>2, <1>9 DEF PromotionCreates, Inv, ReferencesExist, CalmState, WhatWasReadStands
  <2>2. ASSUME NEW o \in OrderIds, CreateOrder(o, promotion[p].record),
               promotion' = [promotion EXCEPT ![p].pc = "mark"]
        PROVE  CalmState'
    <3>1. promotion'[p].pc = "mark" /\ \A q \in Promotions : q # p => promotion'[q] = promotion[q]
      BY <2>2 DEF Inv, TypeOK
    <3>2. Tables'
      BY <1>2, <2>1, <2>2, CreateOrderCalm DEF CalmState
    <3> QED
      BY <1>8, <2>1, <3>1, <3>2
  <2>3. CASE promotion' = [promotion EXCEPT ![p] = IdlePromotion] /\ UNCHANGED << record, order >>
    <3>1. promotion'[p].pc = "idle" /\ \A q \in Promotions : q # p => promotion'[q] = promotion[q]
      BY <2>3 DEF Inv, TypeOK, IdlePromotion
    <3>2. Tables'
      BY <1>2, <2>3, TablesUnchanged DEF CalmState
    <3> QED
      BY <1>8, <2>1, <3>1, <3>2
  <2> QED
    BY <1>9, <2>2, <2>3 DEF PromotionCreates
<1>10. ASSUME NEW p \in Promotions, PromotionMarks(p) PROVE CalmState'
  <2>1. /\ promotion[p].pc = "mark" /\ promotion' = [promotion EXCEPT ![p] = IdlePromotion]
        /\ UNCHANGED << record, order, daily, scan >>
    BY <1>10 DEF PromotionMarks
  <2>2. promotion'[p].pc = "idle" /\ \A q \in Promotions : q # p => promotion'[q] = promotion[q]
    BY <2>1 DEF Inv, TypeOK, IdlePromotion
  <2>3. Tables'
    BY <1>2, <2>1, TablesUnchanged DEF CalmState
  <2> QED
    BY <1>8, <2>1, <2>2, <2>3
<1>11. ASSUME NEW r \in RecordIds, Dismiss(r) \/ Reanalyze(r) PROVE CalmState'
  <2>1. Open(r)
    BY <1>11 DEF Dismiss, Reanalyze, Happens
  <2>2. Tables' /\ Undisturbed
    BY <1>2, <1>11, <2>1, VerdictCalm DEF CalmState
  <2> QED
    BY <1>2, <1>11, <2>2, OthersStep DEF Dismiss, Reanalyze
<1>12. ASSUME NEW o \in OrderIds, OrderFails(o) PROVE CalmState'
  <2>1. Tables' /\ Undisturbed
    BY <1>2, <1>12, OrderFailsCalm DEF CalmState
  <2> QED
    BY <1>2, <1>12, <2>1, OthersStep DEF OrderFails
<1>13. ASSUME NEW o \in OrderIds, PublicationFails(o) \/ OrderCompletes(o) PROVE CalmState'
  <2>1. Tables' /\ Undisturbed
    BY <1>2, <1>13, OrderEndsCalm DEF CalmState
  <2> QED
    BY <1>2, <1>13, <2>1, OthersStep DEF PublicationFails, OrderCompletes
<1>14. ASSUME NEW o \in OrderIds, ResumeFailed(o) PROVE CalmState'
  <2>1. ~InProgress /\ ~MovedOn(o) /\ UNCHANGED << record, daily, scan, promotion >>
    BY <1>14 DEF ResumeFailed, Happens
  <2>2. Tables'
    BY <1>2, <1>14, <2>1, ResumeCalm DEF CalmState
  <2>3. /\ daily.pc \in {"idle", "tick"} /\ scan.pc = "idle"
        /\ \A p \in Promotions : promotion[p].pc = "idle"
    BY <2>1 DEF InProgress
  <2> QED
    BY <1>2, <2>1, <2>2, <2>3 DEF CalmState, OneInProgress, WhatWasReadStands
<1> QED
  BY <1>3, <1>4, <1>5, <1>6, <1>7, <1>9, <1>10, <1>11, <1>12, <1>13, <1>14 DEF Next

LEMMA InitCalm == Init => Calm
  BY DEF Init, Calm, CalmState, Tables, OneLiveRecord, OrdersHoldRecords, OneInProgress,
         WhatWasReadStands, Live, Open, OpenStatus, Started, IdleDaily, IdleScan, IdlePromotion

\* What makes a work order active.
LEMMA WhatStarts ==
    ASSUME Inv, [Next]_vars, NEW o \in OrderIds,
           order[o].status # "active", order'[o].status = "active"
    PROVE  \/ daily.pc = "create" /\ CreateOrder(o, daily.record)
           \/ \E p \in Promotions :
                  promotion[p].pc = "create" /\ CreateOrder(o, promotion[p].record)
           \/ ResumeFailed(o)
<1>1. ASSUME NEW u \in OrderIds, NEW r \in RecordIds, CreateOrder(u, r) PROVE u = o
  BY <1>1, CreateOrderEffect
<1>2. ASSUME NEW u \in OrderIds, NEW status \in {"failed", "completed"},
             order' = [order EXCEPT ![u].status = status]
      PROVE  FALSE
  BY <1>2 DEF Inv, TypeOK
<1>3. CASE DailyStep
  <2>1. CASE ConsumerCreates
    <3>1. daily.pc = "create" /\ daily.record \in RecordIds
      BY <2>1 DEF ConsumerCreates, Inv, ReferencesExist
    <3>2. PICK u \in OrderIds : CreateOrder(u, daily.record)
      BY <2>1 DEF ConsumerCreates
    <3> QED
      BY <1>1, <3>1, <3>2
  <2>2. CASE Undo
    BY <1>2, <2>2 DEF Undo, Inv, TypeOK
  <2> QED
    BY <1>3, <2>1, <2>2
       DEF DailyStep, StartAnalysis, AnalysisFails, StoreAnalysis, ReadRecords, ReplaceQueue,
           CheckActive, SelectCandidate, CheckRecord, MarkCandidate, ConsumerTickEnds, Release
<1>4. ASSUME NEW p \in Promotions, PromotionCreates(p)
      PROVE  promotion[p].pc = "create" /\ CreateOrder(o, promotion[p].record)
  <2>1. promotion[p].pc = "create" /\ promotion[p].record \in RecordIds
    BY <1>4 DEF PromotionCreates, Inv, ReferencesExist
  <2>2. PICK u \in OrderIds : CreateOrder(u, promotion[p].record)
    BY <1>4 DEF PromotionCreates
  <2> QED
    BY <1>1, <2>1, <2>2
<1>5. ASSUME NEW u \in OrderIds, OrderFails(u) \/ PublicationFails(u) \/ OrderCompletes(u)
      PROVE  FALSE
  BY <1>2, <1>5 DEF OrderFails, PublicationFails, OrderCompletes
<1>6. ASSUME NEW u \in OrderIds, ResumeFailed(u) PROVE u = o
  BY <1>6 DEF ResumeFailed, Inv, TypeOK
<1> QED
  BY <1>3, <1>4, <1>5, <1>6
     DEF Next, vars, StartScan, StoreScan, StartPromotion, PromotionMarks, Dismiss, Reanalyze

\* While nothing but the consumer, or a human in turn, starts deliveries, the failure of
\* a work order in delivery can be recorded: handle_development_failure never meets the
\* unique index of readiness_records.
THEOREM FailuresAreRecorded == Spec => []FailureCanBeRecorded
<1>1. Inv /\ Calm => FailureCanBeRecorded
  <2> SUFFICES ASSUME Inv, Calm, incidents = {}, NEW o \in OrderIds, order[o].status = "active"
               PROVE  ~IndexRefuses(order[o].record)
    BY DEF FailureCanBeRecorded
  <2>1. order[o].record \in RecordIds
    BY DEF Inv, ReferencesExist
  <2>2. record[order[o].record].status = "promoted"
    BY DEF Calm, CalmState, Tables, OrdersHoldRecords, Started
  <2> QED
    BY <2>1, <2>2 DEF IndexRefuses, OpenRecordOf, Calm, CalmState, Tables, OneLiveRecord, Live
<1>2. Inv /\ Calm /\ [Next]_vars => Calm'
  BY NextCalm
<1> QED
  BY <1>1, <1>2, InitTypes, NextTypes, InitCalm, PTL DEF Spec

\* A ticket whose work order is completed is not started again, by a queue built before,
\* by a promotion asked for before, nor by a resume: _excluded_jira_keys and the unique
\* index keep its records closed, and try_consume reads the record again.
THEOREM DeliveriesAreNotRepeated == Spec => DeliveredOnce
<1>1. ASSUME Inv, Calm, [Next]_vars, NEW o \in OrderIds, incidents' = {},
             order[o].status # "active", order'[o].status = "active",
             NEW u \in OrderIds, order[u].ticket = order'[o].ticket
      PROVE  order[u].status # "completed"
  <2>1. CalmState
    BY <1>1, IncidentsRemain DEF Calm
  <2>2. ASSUME NEW r \in RecordIds, CreateOrder(o, r), Free(r)
        PROVE  order[u].status # "completed"
    BY <1>1, <2>1, <2>2, CreateOrderEffect, CreateOrderCalm DEF CalmState
  <2>3. CASE daily.pc = "create" /\ CreateOrder(o, daily.record)
    BY <1>1, <2>1, <2>2, <2>3 DEF Inv, ReferencesExist, CalmState, WhatWasReadStands
  <2>4. ASSUME NEW p \in Promotions, promotion[p].pc = "create",
               CreateOrder(o, promotion[p].record)
        PROVE  order[u].status # "completed"
    BY <1>1, <2>1, <2>2, <2>4 DEF Inv, ReferencesExist, CalmState, WhatWasReadStands
  <2>5. CASE ResumeFailed(o)
    <3>1. ~MovedOn(o)
      BY <1>1, <2>5 DEF ResumeFailed, Happens
    <3>2. order'[o].ticket = order[o].ticket /\ order[o].status = "failed"
      BY <2>5 DEF ResumeFailed, Inv, TypeOK
    <3> QED
      BY <1>1, <3>1, <3>2 DEF MovedOn
  <2> QED
    BY <1>1, <2>3, <2>4, <2>5, WhatStarts
<1>2. Inv /\ Calm /\ [Next]_vars =>
          [\A o \in OrderIds :
              incidents' = {} /\ order[o].status # "active" /\ order'[o].status = "active" =>
                  \A u \in OrderIds :
                      order[u].ticket = order'[o].ticket => order[u].status # "completed"]_vars
  BY <1>1
<1>3. Inv /\ Calm /\ [Next]_vars => Calm'
  BY NextCalm
<1> QED
  BY <1>2, <1>3, InitTypes, NextTypes, InitCalm, PTL DEF Spec, DeliveredOnce

\* The consumer's look at active developments holds until it has created its work order,
\* three transactions later: ExecutionQueueConsumer starts no second delivery.
THEOREM ConsumerIsAlone == Spec => ConsumerStartsAlone
<1>1. Inv /\ Calm /\ [Next]_vars =>
          [incidents' = {} /\ daily.pc = "create" /\ daily'.pc = "tick" =>
              ~AnyActiveDevelopment]_vars
  BY IncidentsRemain DEF Calm, CalmState, WhatWasReadStands
<1>2. Inv /\ Calm /\ [Next]_vars => Calm'
  BY NextCalm
<1> QED
  BY <1>1, <1>2, InitTypes, NextTypes, InitCalm, PTL DEF Spec, ConsumerStartsAlone
=============================================================================
