-------------------------- MODULE SprintCycle_proofs --------------------------
(***************************************************************************)
(* Theorems about the sprint, for every project, number of threads and     *)
(* environment.  However requests, the inbox and the scheduler overlap,    *)
(* fail or stop, what is billed was delivered and a report that is named   *)
(* in the row went out.  One thread after the other, a manual selection    *)
(* stands, a report goes out once and work is billed once.                 *)
(***************************************************************************)
EXTENDS SprintCycle, TLAPS

Completed == {t \in Tickets : order[t] = "completed"}

\* A thread has the fields of one, whatever they hold.
IsThread(r) ==
    r \in [pc : {r.pc}, then : {r.then}, force : {r.force}, key : {r.key}, done : {r.done},
           lines : {r.lines}, plan : {r.plan}, number : {r.number}, today : {r.today}]

\* What a thread is about to record went out, and what it is about to bill was delivered.
Honest(r, delivered, out) ==
    /\ r.pc \in {"save_report", "write_report"} => r.key \in out
    /\ r.pc = "check" => r.done \subseteq delivered
    /\ r.pc = "items" => /\ r.lines \in Seq(Lines) /\ r.lines # <<>>
                         /\ \A i \in 1 .. Len(r.lines) : r.lines[i].keys \subseteq delivered

ThreadsHonest ==
    /\ thread = [p \in Threads |-> thread[p]]
    /\ \A p \in Threads : IsThread(thread[p]) /\ Honest(thread[p], Completed, posted)

RowHonest ==
    /\ sprint \in [number : {sprint.number}, start : {sprint.start}, end : {sprint.end},
                   plan : {sprint.plan}, manual : {sprint.manual},
                   reportKey : {sprint.reportKey}, invoiceKey : {sprint.invoiceKey}]
    /\ sprint.reportKey # NoKey => sprint.reportKey \in posted

BillsHonest == \A s \in DOMAIN pending \cup DOMAIN invoiced : s \subseteq Completed

\* Work starts once for a ticket, so what was completed stays so.
OrdersMoveOn ==
    /\ order = [t \in Tickets |-> order[t]] /\ readiness = [t \in Tickets |-> readiness[t]]
    /\ \A t \in Tickets : order[t] # "none" => readiness[t] = "promoted"

\* The inductive invariant.
Inv == ThreadsHonest /\ RowHonest /\ BillsHonest /\ OrdersMoveOn

----------------------------------------------------------------------------
LEMMA BagsMerge ==
    ASSUME NEW B, NEW C
    PROVE  DOMAIN (B (+) C) = DOMAIN B \cup DOMAIN C
BY DEF (+)

LEMMA BagOfOne == ASSUME NEW s PROVE DOMAIN SetToBag({s}) = {s} /\ DOMAIN EmptyBag = {}
BY DEF SetToBag, EmptyBag

LEMMA HonestLater ==
    ASSUME NEW r, NEW d, NEW o, NEW d2, NEW o2, Honest(r, d, o), d \subseteq d2, o \subseteq o2
    PROVE  Honest(r, d2, o2)
BY DEF Honest

LEMMA IdleHonest == IsThread(Idle) /\ Idle.pc = "idle" /\ \A d, o : Honest(Idle, d, o)
BY DEF IsThread, Idle, Honest

LEMMA ThreadGoesOn ==
    ASSUME ThreadsHonest, NEW p \in Threads, NEW new, Go(p, new), IsThread(new),
           Honest(new, Completed', posted'), Completed \subseteq Completed', posted \subseteq posted'
    PROVE  ThreadsHonest'
<1>1. /\ thread' = [q \in Threads |-> thread'[q]]
      /\ \A q \in Threads : thread'[q] = IF q = p THEN new ELSE thread[q]
  BY DEF ThreadsHonest, Go
<1>2. QED
  BY <1>1, HonestLater DEF ThreadsHonest

LEMMA RowLater == RowHonest /\ sprint' = sprint /\ posted \subseteq posted' => RowHonest'
BY DEF RowHonest

LEMMA OrdersSame ==
    OrdersMoveOn /\ UNCHANGED project => OrdersMoveOn' /\ Completed' = Completed
BY DEF OrdersMoveOn, Completed, project

LEMMA BillsSame == BillsHonest /\ UNCHANGED stripe /\ Completed' = Completed => BillsHonest'
BY DEF BillsHonest, stripe

\* A thread goes on, and nothing else changes that matters here.
LEMMA ThreadOnly ==
    ASSUME Inv, NEW p \in Threads, NEW new, Go(p, new), IsThread(new),
           Honest(new, Completed, posted), UNCHANGED <<project, sprint, stripe, posted>>
    PROVE  Inv'
<1>1. OrdersMoveOn' /\ Completed' = Completed
  BY OrdersSame DEF Inv
<1>2. posted' = posted /\ RowHonest' /\ BillsHonest'
  BY <1>1, RowLater, BillsSame DEF Inv
<1>3. ThreadsHonest'
  BY <1>1, <1>2, ThreadGoesOn DEF Inv
<1>4. QED
  BY <1>1, <1>2, <1>3 DEF Inv

\* Steps of a thread after which it claims nothing.
Silent == {"idle", "invoice", "finish", "write_invoice", "compose", "reset", "write_reset",
           "write_plan"}

LEMMA SilentHonest == ASSUME NEW r, r.pc \in Silent, NEW d, NEW o PROVE Honest(r, d, o)
BY DEF Honest, Silent

LEMMA AfterReportSilent ==
    ASSUME NEW r, IsThread(r) PROVE IsThread(AfterReport(r)) /\ AfterReport(r).pc \in Silent
BY IdleHonest DEF AfterReport, IsThread, Silent

LEMMA ComposingSilent ==
    ASSUME NEW r, IsThread(r) PROVE IsThread(Composing(r)) /\ Composing(r).pc \in Silent
BY DEF Composing, IsThread, Silent

----------------------------------------------------------------------------
(* Requests. *)

LEMMA SnapshotHonest ==
    ASSUME Inv, NEW then, NEW force
    PROVE  IsThread(Snapshot(then, force)) /\ Honest(Snapshot(then, force), Completed, posted)
<1> DEFINE done == Delivered(sprint.plan)
           new  == [Idle EXCEPT !.pc = "check", !.then = then, !.force = force,
                                !.key = SprintKey, !.done = done, !.today = day]
<1>1. done \subseteq Completed
  BY DEF Delivered, Completed, Listed
<1>2. Snapshot(then, force) = new
  BY DEF Snapshot
<1> HIDE DEF done
<1>3. IsThread(new) /\ new.pc = "check" /\ new.done = done
  BY DEF IsThread, Idle
<1> HIDE DEF new
<1>4. QED
  BY <1>1, <1>2, <1>3 DEF Honest

LEMMA ResetHonest ==
    ASSUME NEW then, NEW today, NEW plan
    PROVE  /\ IsThread([Idle EXCEPT !.pc = "reset", !.then = then, !.today = today])
           /\ [Idle EXCEPT !.pc = "reset", !.then = then, !.today = today].pc \in Silent
           /\ IsThread([Idle EXCEPT !.pc = "write_plan", !.plan = plan])
           /\ [Idle EXCEPT !.pc = "write_plan", !.plan = plan].pc \in Silent
BY DEF IsThread, Idle, Silent

LEMMA CallHonest ==
    ASSUME Inv, NEW p \in Threads, Call(p)
    PROVE  Inv'
<1>0. ASSUME NEW new, Begin(p, new), IsThread(new), Honest(new, Completed, posted),
             UNCHANGED <<project, sprint, stripe, posted>>
      PROVE  Inv'
  BY <1>0, ThreadOnly DEF Begin
<1>1. ASSUME NEW force \in BOOLEAN, RequestReport(p, force) PROVE Inv'
  BY <1>0, <1>1, SnapshotHonest DEF RequestReport
<1>2. CASE ScheduledReport(p)
  BY <1>0, <1>2, SnapshotHonest DEF ScheduledReport
<1>3. CASE AutoReset(p)
  BY <1>0, <1>3, SnapshotHonest, ResetHonest, SilentHonest DEF AutoReset
<1>4. ASSUME NEW then \in {"refill", "clear"}, ManualReset(p, then) PROVE Inv'
  BY <1>0, <1>4, ResetHonest, SilentHonest DEF ManualReset
<1>5. CASE PrepareRebuild(p)
  BY <1>0, <1>5, ResetHonest, SilentHonest DEF PrepareRebuild
<1>6. QED
  BY <1>1, <1>2, <1>3, <1>4, <1>5 DEF Call

----------------------------------------------------------------------------
(* Steps of a thread. *)

LEMMA CheckHonest ==
    ASSUME Inv, NEW p \in Threads, Check(p)
    PROVE  Inv'
<1> DEFINE me == thread[p]
<1>1. IsThread(me) /\ Honest(me, Completed, posted) /\ me.pc = "check"
  BY DEF Inv, ThreadsHonest, Check
<1>2. UNCHANGED <<project, sprint, stripe, posted>>
  BY DEF Check
<1>3. \/ Go(p, AfterReport(me))
      \/ Go(p, Composing(me))
      \/ \E n \in 1 .. 2 : \E lines \in [1 .. n -> Lines] :
            ValidProposal(lines, me.done) /\ Go(p, [me EXCEPT !.pc = "items", !.lines = lines])
  BY DEF Check
<1>4. CASE Go(p, AfterReport(me))
  BY <1>1, <1>2, <1>4, AfterReportSilent, SilentHonest, ThreadOnly
<1>5. CASE Go(p, Composing(me))
  BY <1>1, <1>2, <1>5, ComposingSilent, SilentHonest, ThreadOnly
<1>6. ASSUME NEW n \in 1 .. 2, NEW lines \in [1 .. n -> Lines], ValidProposal(lines, me.done),
             Go(p, [me EXCEPT !.pc = "items", !.lines = lines])
      PROVE  Inv'
  <2>1. lines \in Seq(Lines) /\ Len(lines) = n /\ lines # <<>> /\ DOMAIN lines = 1 .. n
    BY <1>6
  <2>2. me.done \subseteq Completed
    BY <1>1 DEF Honest
  <2>3. \A i \in 1 .. n : lines[i].keys \subseteq Completed
    BY <1>6, <2>1, <2>2 DEF ValidProposal
  <2> DEFINE new == [me EXCEPT !.pc = "items", !.lines = lines]
  <2>4. IsThread(new) /\ new.pc = "items" /\ new.lines = lines
    BY <1>1 DEF IsThread
  <2> HIDE DEF new
  <2>5. Honest(new, Completed, posted)
    BY <2>1, <2>3, <2>4 DEF Honest
  <2>6. Go(p, new)
    BY <1>6 DEF new
  <2>7. QED
    BY <1>2, <2>4, <2>5, <2>6, ThreadOnly
<1>7. QED
  BY <1>3, <1>4, <1>5, <1>6

\* What is left of a list claims no more than the list.
LEMMA RestOfLines ==
    ASSUME NEW s \in Seq(Lines), s # <<>>, NEW d,
           \A i \in 1 .. Len(s) : s[i].keys \subseteq d
    PROVE  /\ s[1].keys \subseteq d
           /\ Tail(s) \in Seq(Lines)
           /\ Len(s) # 1 => Tail(s) # <<>>
           /\ \A i \in 1 .. Len(Tail(s)) : Tail(s)[i].keys \subseteq d
<1>1. Len(s) \in Nat /\ Len(s) >= 1 /\ Tail(s) \in Seq(Lines) /\ Len(Tail(s)) = Len(s) - 1
  OBVIOUS
<1>2. \A i \in 1 .. Len(Tail(s)) : Tail(s)[i] = s[i + 1] /\ i + 1 \in 1 .. Len(s)
  BY <1>1
<1>3. Len(s) # 1 => Len(Tail(s)) # 0
  BY <1>1
<1>4. s[1].keys \subseteq d
  BY <1>1
<1>5. \A i \in 1 .. Len(Tail(s)) : Tail(s)[i].keys \subseteq d
  BY <1>2
<1>6. Len(s) # 1 => Tail(s) # <<>>
  BY <1>3
<1>7. QED
  BY <1>1, <1>4, <1>5, <1>6

LEMMA CreateItemHonest ==
    ASSUME Inv, NEW p \in Threads, CreateItem(p)
    PROVE  Inv'
<1> DEFINE me   == thread[p]
           item == SetToBag({me.lines[1].keys})
           rest == Tail(me.lines)
           pc   == IF Len(me.lines) = 1 THEN "invoice" ELSE "items"
           new  == [me EXCEPT !.lines = rest, !.pc = pc]
<1>1. IsThread(me) /\ Honest(me, Completed, posted) /\ me.pc = "items"
  BY DEF Inv, ThreadsHonest, CreateItem
<1>2. /\ me.lines[1].keys \subseteq Completed
      /\ rest \in Seq(Lines) /\ (Len(me.lines) # 1 => rest # <<>>)
      /\ \A i \in 1 .. Len(rest) : rest[i].keys \subseteq Completed
  BY <1>1, RestOfLines DEF Honest
<1>3. /\ pending' = pending (+) item
      /\ Go(p, new) /\ UNCHANGED <<project, sprint, invoiced, posted>>
  BY DEF CreateItem
<1>4. DOMAIN item = {me.lines[1].keys}
  BY BagOfOne
<1>5. IsThread(new) /\ new.pc = pc /\ new.lines = rest
  BY <1>1 DEF IsThread
<1> HIDE DEF item, rest
<1>6. DOMAIN pending' = DOMAIN pending \cup {me.lines[1].keys}
  BY <1>3, <1>4, BagsMerge
<1>7. OrdersMoveOn' /\ Completed' = Completed
  BY <1>3, OrdersSame DEF Inv
<1>8. BillsHonest'
  BY <1>2, <1>3, <1>6, <1>7 DEF Inv, BillsHonest
<1> HIDE DEF new
<1>9. Honest(new, Completed, posted)
  <2>1. CASE Len(me.lines) = 1
    BY <1>5, <2>1 DEF Honest
  <2>2. CASE Len(me.lines) # 1
    BY <1>2, <1>5, <2>2 DEF Honest
  <2>3. QED
    BY <2>1, <2>2
<1>10. ThreadsHonest' /\ RowHonest'
  BY <1>3, <1>5, <1>7, <1>9, ThreadGoesOn, RowLater DEF Inv
<1>11. QED
  BY <1>7, <1>8, <1>10 DEF Inv

\* The steps of a thread that change no project, bill or row.
LEMMA LocalStepHonest ==
    ASSUME Inv, NEW p \in Threads,
           \/ BillingFails(p) \/ DeliveryFails(p) \/ PrepareReset(p)
           \/ ReadForPatch(p, "finish", "write_invoice")
           \/ ReadForPatch(p, "save_report", "write_report")
    PROVE  Inv'
<1> DEFINE me    == thread[p]
           reset == [Idle EXCEPT !.pc = "write_reset", !.then = me.then, !.today = me.today,
                        !.number = sprint.number + 1,
                        !.plan = IF me.then = "refill" THEN Merged(BuiltPlan) ELSE NoPlan]
           read(next) == [me EXCEPT !.pc = next, !.plan = sprint.plan]
<1>1. IsThread(me) /\ Honest(me, Completed, posted)
  BY DEF Inv, ThreadsHonest
<1>2. CASE BillingFails(p)
  BY <1>1, <1>2, ComposingSilent, SilentHonest, ThreadOnly DEF BillingFails
<1>3. CASE DeliveryFails(p)
  BY <1>1, <1>3, AfterReportSilent, SilentHonest, ThreadOnly DEF DeliveryFails
<1>4. CASE PrepareReset(p)
  <2>1. IsThread(reset) /\ reset.pc \in Silent
    BY DEF IsThread, Idle, Silent
  <2>2. Go(p, reset) /\ UNCHANGED <<project, sprint, stripe, posted>>
    BY <1>4 DEF PrepareReset
  <2> HIDE DEF reset
  <2>3. QED
    BY <2>1, <2>2, SilentHonest, ThreadOnly
<1>5. ASSUME NEW at, NEW next, ReadForPatch(p, at, next),
             \/ at = "finish" /\ next = "write_invoice"
             \/ at = "save_report" /\ next = "write_report"
      PROVE  Inv'
  <2>1. IsThread(read(next)) /\ read(next).pc = next /\ read(next).key = me.key
    BY <1>1 DEF IsThread
  <2>2. me.pc = at /\ Go(p, read(next)) /\ UNCHANGED <<project, sprint, stripe, posted>>
    BY <1>5 DEF ReadForPatch
  <2> HIDE DEF read
  <2>3. Honest(read(next), Completed, posted)
    BY <1>1, <1>5, <2>1, <2>2 DEF Honest
  <2>4. QED
    BY <2>1, <2>2, <2>3, ThreadOnly
<1>6. QED
  BY <1>2, <1>3, <1>4, <1>5

LEMMA CreateInvoiceHonest ==
    ASSUME Inv, NEW p \in Threads, CreateInvoice(p)
    PROVE  Inv'
<1> DEFINE new == [thread[p] EXCEPT !.pc = "finish"]
<1>1. IsThread(new) /\ new.pc \in Silent
  BY DEF Inv, ThreadsHonest, IsThread, Silent
<1>2. /\ invoiced' = invoiced (+) pending /\ pending' = EmptyBag
      /\ Go(p, new) /\ UNCHANGED <<project, sprint, posted>>
  BY DEF CreateInvoice
<1> HIDE DEF new
<1>3. DOMAIN invoiced' = DOMAIN invoiced \cup DOMAIN pending /\ DOMAIN pending' = {}
  BY <1>2, BagsMerge, BagOfOne
<1>4. OrdersMoveOn' /\ Completed' = Completed
  BY <1>2, OrdersSame DEF Inv
<1>5. BillsHonest'
  BY <1>3, <1>4 DEF Inv, BillsHonest
<1>6. ThreadsHonest' /\ RowHonest'
  BY <1>1, <1>2, <1>4, SilentHonest, ThreadGoesOn, RowLater DEF Inv
<1>7. QED
  BY <1>4, <1>5, <1>6 DEF Inv

LEMMA DeliverHonest ==
    ASSUME Inv, NEW p \in Threads, Deliver(p)
    PROVE  Inv'
<1> DEFINE me  == thread[p]
           new == [me EXCEPT !.pc = "save_report"]
<1>1. IsThread(new) /\ new.pc = "save_report" /\ new.key = me.key
  BY DEF Inv, ThreadsHonest, IsThread
<1>2. /\ posted' = posted \cup {me.key}
      /\ Go(p, new) /\ UNCHANGED <<project, sprint, stripe>>
  BY DEF Deliver
<1> HIDE DEF new
<1>3. OrdersMoveOn' /\ Completed' = Completed
  BY <1>2, OrdersSame DEF Inv
<1>4. BillsHonest' /\ RowHonest'
  BY <1>2, <1>3, BillsSame, RowLater DEF Inv
<1>5. Honest(new, Completed', posted')
  BY <1>1, <1>2 DEF Honest
<1>6. ThreadsHonest'
  BY <1>1, <1>2, <1>3, <1>5, ThreadGoesOn DEF Inv
<1>7. QED
  BY <1>3, <1>4, <1>6 DEF Inv

----------------------------------------------------------------------------
(* Steps that write the row. *)

\* The row is rewritten by a thread that then claims nothing; a key it records
\* is one whose report went out.
LEMMA RowWritten ==
    ASSUME Inv, NEW p \in Threads, NEW new, Go(p, new), IsThread(new), new.pc \in Silent,
           UNCHANGED <<project, stripe, posted>>, RowHonest'
    PROVE  Inv'
<1>1. OrdersMoveOn' /\ Completed' = Completed
  BY OrdersSame DEF Inv
<1>2. BillsHonest'
  BY <1>1, BillsSame DEF Inv
<1>3. ThreadsHonest'
  BY <1>1, SilentHonest, ThreadGoesOn DEF Inv
<1>4. QED
  BY <1>1, <1>2, <1>3 DEF Inv

LEMMA RowWriteHonest ==
    ASSUME Inv, NEW p \in Threads,
           WriteInvoiceKey(p) \/ WriteReportKey(p) \/ WriteReset(p) \/ WriteRebuild(p)
    PROVE  Inv'
<1> DEFINE me    == thread[p]
           after == [me EXCEPT !.plan = NoPlan]
<1>1. IsThread(me) /\ Honest(me, Completed, posted)
  BY DEF Inv, ThreadsHonest
<1>2. RowHonest
  BY DEF Inv
<1>3. CASE WriteInvoiceKey(p)
  <2>1. /\ sprint' = [sprint EXCEPT !.plan = me.plan, !.invoiceKey = me.key]
        /\ Go(p, Composing(me)) /\ UNCHANGED <<project, stripe, posted>>
    BY <1>3 DEF WriteInvoiceKey
  <2>2. RowHonest'
    BY <1>2, <2>1 DEF RowHonest
  <2>3. QED
    BY <1>1, <2>1, <2>2, ComposingSilent, RowWritten
<1>4. CASE WriteReportKey(p)
  <2>1. /\ sprint' = [sprint EXCEPT !.plan = me.plan, !.reportKey = me.key]
        /\ me.pc = "write_report"
        /\ Go(p, AfterReport(after)) /\ UNCHANGED <<project, stripe, posted>>
    BY <1>4 DEF WriteReportKey
  <2>2. me.key \in posted
    BY <1>1, <2>1 DEF Honest
  <2>3. RowHonest'
    BY <1>2, <2>1, <2>2 DEF RowHonest
  <2>4. IsThread(after)
    BY <1>1 DEF IsThread
  <2> HIDE DEF after
  <2>5. QED
    BY <2>1, <2>3, <2>4, AfterReportSilent, RowWritten
<1>5. CASE WriteReset(p)
  <2>1. /\ sprint' = [sprint EXCEPT !.plan = me.plan, !.number = me.number, !.manual = FALSE,
                         !.start = me.today, !.end = me.today + Duration - 1]
        /\ Go(p, Idle) /\ UNCHANGED <<project, stripe, posted>>
    BY <1>5 DEF WriteReset
  <2>2. RowHonest'
    BY <1>2, <2>1 DEF RowHonest
  <2>3. QED
    BY <2>1, <2>2, IdleHonest, RowWritten DEF Silent
<1>6. CASE WriteRebuild(p)
  <2>1. /\ sprint' = [sprint EXCEPT !.plan = me.plan]
        /\ Go(p, Idle) /\ UNCHANGED <<project, stripe, posted>>
    BY <1>6 DEF WriteRebuild
  <2>2. RowHonest'
    BY <1>2, <2>1 DEF RowHonest
  <2>3. QED
    BY <2>1, <2>2, IdleHonest, RowWritten DEF Silent
<1>7. QED
  BY <1>3, <1>4, <1>5, <1>6

LEMMA ThreadStepHonest ==
    ASSUME Inv, NEW p \in Threads, ThreadStep(p)
    PROVE  Inv'
BY CheckHonest, CreateItemHonest, LocalStepHonest, CreateInvoiceHonest, DeliverHonest,
   RowWriteHonest DEF ThreadStep

----------------------------------------------------------------------------
(* Steps around the threads. *)

\* Work may complete, and nothing else changes.
LEMMA WorkGoesOn ==
    ASSUME Inv, OrdersMoveOn', Completed \subseteq Completed',
           UNCHANGED <<sprint, stripe, posted, thread>>
    PROVE  Inv'
<1>1. RowHonest' /\ posted' = posted
  BY RowLater DEF Inv
<1>2. BillsHonest'
  BY DEF Inv, BillsHonest, stripe
<1>3. ThreadsHonest'
  BY <1>1, HonestLater DEF Inv, ThreadsHonest
<1>4. QED
  BY <1>1, <1>2, <1>3 DEF Inv

LEMMA WorkHonest ==
    ASSUME Inv, NEW t \in Tickets,
           Promote(t) \/ CompleteOrder(t) \/ \E v \in Verdicts : Analyse(t, v)
    PROVE  Inv'
<1>1. UNCHANGED <<sprint, stripe, posted, thread>>
  BY DEF Promote, CompleteOrder, Analyse
<1>2. CASE Promote(t)
  <2>1. order[t] = "none" /\ order' = [order EXCEPT ![t] = "active"]
        /\ readiness' = [readiness EXCEPT ![t] = "promoted"]
    BY <1>2 DEF Inv, OrdersMoveOn, Promote
  <2>2. OrdersMoveOn' /\ Completed \subseteq Completed'
    BY <2>1 DEF Inv, OrdersMoveOn, Completed
  <2>3. QED
    BY <1>1, <2>2, WorkGoesOn
<1>3. CASE CompleteOrder(t)
  <2>1. OrdersMoveOn' /\ Completed \subseteq Completed'
    BY <1>3 DEF Inv, OrdersMoveOn, Completed, CompleteOrder
  <2>2. QED
    BY <1>1, <2>1, WorkGoesOn
<1>4. ASSUME NEW v \in Verdicts, Analyse(t, v) PROVE Inv'
  <2>1. OrdersMoveOn' /\ Completed \subseteq Completed'
    BY <1>4 DEF Inv, OrdersMoveOn, Completed, Analyse
  <2>2. QED
    BY <1>1, <2>1, WorkGoesOn
<1>5. QED
  BY <1>2, <1>3, <1>4

LEMMA SelectHonest ==
    ASSUME Inv, NEW S \in SUBSET Tickets, Select(S)
    PROVE  Inv'
<1>1. /\ sprint' = [sprint EXCEPT !.manual = TRUE,
                       !.plan = [t \in Tickets |-> IF t \in S THEN "selected" ELSE "absent"]]
      /\ UNCHANGED <<project, stripe, posted, thread>>
  BY DEF Select
<1>2. RowHonest'
  BY <1>1 DEF Inv, RowHonest
<1>3. OrdersMoveOn' /\ Completed' = Completed
  BY <1>1, OrdersSame DEF Inv
<1>4. BillsHonest' /\ ThreadsHonest'
  BY <1>1, <1>3, BillsSame DEF Inv, ThreadsHonest
<1>5. QED
  BY <1>2, <1>3, <1>4 DEF Inv

LEMMA QuietHonest ==
    ASSUME Inv, UNCHANGED <<project, sprint, stripe, posted>>,
           thread' = thread \/ thread' = [p \in Threads |-> Idle]
    PROVE  Inv'
<1>1. OrdersMoveOn' /\ Completed' = Completed
  BY OrdersSame DEF Inv
<1>2. BillsHonest' /\ RowHonest' /\ posted' = posted
  BY <1>1, BillsSame, RowLater DEF Inv
<1>3. ThreadsHonest'
  BY <1>1, <1>2, IdleHonest DEF Inv, ThreadsHonest
<1>4. QED
  BY <1>1, <1>2, <1>3 DEF Inv

----------------------------------------------------------------------------
LEMMA InitHonest == Init => Inv
<1> SUFFICES ASSUME Init PROVE Inv
  OBVIOUS
<1>1. ThreadsHonest
  BY IdleHonest DEF Init, ThreadsHonest
<1>2. RowHonest
  BY DEF Init, RowHonest
<1>3. BillsHonest
  BY BagOfOne DEF Init, BillsHonest
<1>4. OrdersMoveOn
  BY DEF Init, OrdersMoveOn
<1>5. QED
  BY <1>1, <1>2, <1>3, <1>4 DEF Inv

LEMMA StepHonest == Inv /\ [Next]_vars => Inv'
<1> SUFFICES ASSUME Inv, [Next]_vars PROVE Inv'
  OBVIOUS
<1>1. ASSUME NEW p \in Threads, ThreadStep(p) \/ Call(p) PROVE Inv'
  BY <1>1, ThreadStepHonest, CallHonest
<1>2. ASSUME NEW S \in SUBSET Tickets, Select(S) PROVE Inv'
  BY <1>2, SelectHonest
<1>3. CASE NextDay
  BY <1>3, QuietHonest DEF NextDay
<1>4. CASE Crash
  BY <1>4, QuietHonest DEF Crash
<1>5. ASSUME NEW t \in Tickets, Promote(t) \/ CompleteOrder(t) \/ \E v \in Verdicts : Analyse(t, v)
      PROVE  Inv'
  BY <1>5, WorkHonest
<1>6. CASE UNCHANGED vars
  BY <1>6, QuietHonest DEF vars, project, stripe
<1>7. QED
  BY <1>1, <1>2, <1>3, <1>4, <1>5, <1>6 DEF Next

\* Whatever fails or overlaps, an invoice item only bills completed work
\* (sprint_invoice.py takes the delivered tickets of the report's snapshot).
THEOREM OnlyDeliveredWorkIsBilled == Spec => []BillsDeliveredWork
<1>1. Inv => BillsDeliveredWork
  <2> SUFFICES ASSUME Inv, NEW t \in UNION BagToSet(Items) PROVE order[t] = "completed"
    BY DEF BillsDeliveredWork
  <2>1. PICK s \in DOMAIN Items : t \in s
    BY DEF BagToSet
  <2>2. s \in DOMAIN pending \cup DOMAIN invoiced
    BY <2>1, BagsMerge DEF Items
  <2>3. QED
    BY <2>1, <2>2 DEF Inv, BillsHonest, Completed
<1>2. QED
  BY <1>1, InitHonest, StepHonest, PTL DEF Spec

\* The row names a report only once the report has reached the channel
\* (sprint_report.py patches the memory after the delivery).
THEOREM NamedReportReachedTheChannel == Spec => []ReportedMeansPosted
<1>1. Inv => ReportedMeansPosted
  BY DEF Inv, RowHonest, ReportedMeansPosted
<1>2. QED
  BY <1>1, InitHonest, StepHonest, PTL DEF Spec

----------------------------------------------------------------------------
(* One thread after the other.                                             *)

\* No thread begins while another is under way; besides, the server does not stop;
\* besides, no Stripe call fails.
Solo  == "overlap" \notin incidents
Clean == incidents \subseteq {"stripe_failure", "delivery_failure"}
Whole == incidents \subseteq {"delivery_failure"}

\* Steps of a report, and those at which it bills or records itself.
Billing   == {"items", "invoice", "finish", "write_invoice"}
Saving    == {"save_report", "write_report"}
Reporting == {"check", "compose"} \cup Billing \cup Saving

\* A thread that is alone works on the row as it is: the row has the key of its
\* report, which is not recorded yet, and the plan it writes back.
Fits(r, row) ==
    /\ r.pc \in {"write_invoice", "write_report"} => r.plan = row.plan
    /\ r.pc = "write_plan" => ~row.manual
    /\ r.pc \in Reporting => r.key = <<row.number, row.end>>
    /\ r.pc = "write_reset" => r.number = row.number + 1
    /\ r.pc \in Billing \cup {"compose"} /\ ~r.force => row.reportKey # r.key
    /\ r.pc = "check" => r.done \subseteq Listed(row.plan)

\* A manual plan lists what was chosen; the sprints reported are not in the future.
RowStands(row, selection, out) ==
    /\ row.manual =>
          row.plan = [t \in DOMAIN row.plan |-> IF t \in selection THEN "selected" ELSE "absent"]
    /\ row.number \in Nat
    /\ \A k \in out : k[1] \in 0 .. row.number

TurnInv ==
    Solo => /\ \A p, q \in Threads : thread[p].pc # "idle" /\ thread[q].pc # "idle" => p = q
            /\ \A p \in Threads : Fits(thread[p], sprint)
            /\ RowStands(sprint, chosen, posted)

\* A report that went out is recorded, or about to be.
SentInv ==
    Clean /\ SprintKey \in posted =>
        Reported(SprintKey) \/ \E p \in Threads : thread[p].pc \in Saving

\* The tickets some invoice item bills.
Billed == UNION (DOMAIN pending \cup DOMAIN invoiced)

\* The items of a bag bill some work, once, and none of the same.
Apart(B) ==
    /\ \A s \in DOMAIN B : B[s] = 1 /\ s # {}
    /\ \A s, u \in DOMAIN B : s # u => s \cap u = {}

\* What a thread is about to bill, or to plan, is not billed yet.
Unbilled(r, billed) ==
    /\ r.pc = "items" =>
          /\ \A i \in 1 .. Len(r.lines) : r.lines[i].keys # {} /\ r.lines[i].keys \cap billed = {}
          /\ \A i, j \in 1 .. Len(r.lines) : i # j => r.lines[i].keys \cap r.lines[j].keys = {}
    /\ r.pc \in {"write_reset", "write_plan"} => Listed(r.plan) \cap billed = {}

\* A billed ticket the plan still lists is one the sprint's own invoice bills.
BillsInv ==
    Whole => /\ Apart(pending) /\ Apart(invoiced)
             /\ (UNION DOMAIN pending) \cap (UNION DOMAIN invoiced) = {}
             /\ \A p \in Threads : Unbilled(thread[p], Billed)
             /\ \/ Billed \cap Listed(sprint.plan) = {}
                \/ Invoiced(SprintKey)
                \/ \E p \in Threads : thread[p].pc \in Billing

----------------------------------------------------------------------------
(* A thread that is alone works on the row as it is. *)

\* Steps at which a thread has nothing to do with the row.
Free == {"idle", "reset"}

LEMMA FreeFits == ASSUME NEW r, r.pc \in Free, NEW row PROVE Fits(r, row)
BY DEF Fits, Free, Billing, Saving, Reporting

LEMMA IdleIsFree == Idle.pc = "idle"
BY DEF Idle

LEMMA AfterReportFree == ASSUME NEW r, IsThread(r) PROVE AfterReport(r).pc \in Free
BY IdleIsFree DEF AfterReport, IsThread, Free

LEMMA ComposingSame ==
    ASSUME NEW r, IsThread(r)
    PROVE  /\ Composing(r).pc = "compose" /\ Composing(r).key = r.key
           /\ Composing(r).force = r.force
BY DEF Composing, IsThread

\* While a thread takes its turn, the others are idle.
LEMMA OthersIdle ==
    ASSUME TurnInv, Solo, NEW p \in Threads, thread[p].pc # "idle" \/ Quiet(p)
    PROVE  /\ \A q \in Threads : q # p => thread[q].pc = "idle"
           /\ Fits(thread[p], sprint) /\ RowStands(sprint, chosen, posted)
BY DEF TurnInv, Quiet

LEMMA TurnGoesOn ==
    ASSUME ThreadsHonest, TurnInv, NEW p \in Threads, NEW new, Go(p, new),
           Solo' => Solo, Solo => thread[p].pc # "idle" \/ Quiet(p),
           Solo => Fits(new, sprint') /\ RowStands(sprint', chosen', posted')
    PROVE  TurnInv'
<1> SUFFICES ASSUME Solo'
             PROVE  /\ \A q, r \in Threads : thread'[q].pc # "idle" /\ thread'[r].pc # "idle" => q = r
                    /\ \A q \in Threads : Fits(thread'[q], sprint')
                    /\ RowStands(sprint', chosen', posted')
  BY DEF TurnInv
<1>1. \A q \in Threads : thread'[q] = IF q = p THEN new ELSE thread[q]
  BY DEF Go, ThreadsHonest
<1>2. \A q \in Threads : q # p => thread[q].pc = "idle"
  BY OthersIdle
<1>3. \A q \in Threads : q # p => thread'[q].pc = "idle" /\ Fits(thread'[q], sprint')
  BY <1>1, <1>2, FreeFits DEF Free
<1>4. QED
  BY <1>1, <1>3

\* The row stays as it is, and the thread fits it.
LEMMA TurnSame ==
    ASSUME Inv, TurnInv, NEW p \in Threads, NEW new, Go(p, new),
           Solo' => Solo, Solo => thread[p].pc # "idle" \/ Quiet(p),
           Solo /\ Fits(thread[p], sprint) => Fits(new, sprint),
           UNCHANGED <<sprint, chosen, posted>>
    PROVE  TurnInv'
<1>1. Solo => Fits(thread[p], sprint) /\ RowStands(sprint, chosen, posted)
  BY OthersIdle
<1>2. Solo => Fits(new, sprint') /\ RowStands(sprint', chosen', posted')
  BY <1>1
<1>3. QED
  BY <1>2, TurnGoesOn DEF Inv

LEMMA CallTurn ==
    ASSUME Inv, TurnInv, NEW p \in Threads, Call(p)
    PROVE  TurnInv'
<1>0. ASSUME NEW new, Begin(p, new), Fits(new, sprint), UNCHANGED <<sprint, chosen, posted>>
      PROVE  TurnInv'
  <2>1. /\ thread[p].pc = "idle" /\ Go(p, new)
        /\ incidents' = incidents \cup (IF Quiet(p) THEN {} ELSE {"overlap"})
    BY <1>0 DEF Begin
  <2>2. Solo' => Solo /\ Quiet(p)
    BY <2>1 DEF Solo
  <2>3. CASE Solo'
    BY <1>0, <2>1, <2>2, <2>3, TurnSame
  <2>4. CASE ~Solo'
    BY <2>4 DEF TurnInv
  <2>5. QED
    BY <2>3, <2>4
<1>1. ASSUME NEW then, NEW force PROVE Fits(Snapshot(then, force), sprint)
  <2> DEFINE done == Delivered(sprint.plan)
             key  == SprintKey
             new  == [Idle EXCEPT !.pc = "check", !.then = then, !.force = force,
                                  !.key = key, !.done = done, !.today = day]
  <2>1. done \subseteq Listed(sprint.plan) /\ key = <<sprint.number, sprint.end>>
    BY DEF Delivered, SprintKey
  <2> HIDE DEF done, key
  <2>2. new.pc = "check" /\ new.done = done /\ new.key = key
    BY DEF Idle
  <2>3. Snapshot(then, force) = new
    BY DEF Snapshot, done, key
  <2> HIDE DEF new
  <2>4. QED
    BY <2>1, <2>2, <2>3 DEF Fits, Billing, Saving, Reporting
<1>2. ASSUME NEW then, NEW today
      PROVE  Fits([Idle EXCEPT !.pc = "reset", !.then = then, !.today = today], sprint)
  <2> DEFINE new == [Idle EXCEPT !.pc = "reset", !.then = then, !.today = today]
  <2>1. new.pc = "reset"
    BY DEF Idle
  <2> HIDE DEF new
  <2>2. Fits(new, sprint)
    BY <2>1, FreeFits DEF Free
  <2>3. QED
    BY <2>2 DEF new
<1>3. ASSUME NEW force \in BOOLEAN, RequestReport(p, force) PROVE TurnInv'
  BY <1>0, <1>1, <1>3 DEF RequestReport
<1>4. CASE ScheduledReport(p)
  BY <1>0, <1>1, <1>4 DEF ScheduledReport
<1>5. CASE AutoReset(p)
  BY <1>0, <1>1, <1>2, <1>5 DEF AutoReset
<1>6. ASSUME NEW then \in {"refill", "clear"}, ManualReset(p, then) PROVE TurnInv'
  BY <1>0, <1>2, <1>6 DEF ManualReset
<1>7. CASE PrepareRebuild(p)
  <2> DEFINE plan == Merged(BuiltPlan)
             new  == [Idle EXCEPT !.pc = "write_plan", !.plan = plan]
  <2>1. Begin(p, new) /\ ~sprint.manual /\ UNCHANGED <<sprint, chosen, posted>>
    BY <1>7 DEF PrepareRebuild
  <2> HIDE DEF plan
  <2>2. new.pc = "write_plan"
    BY DEF Idle
  <2> HIDE DEF new
  <2>3. Fits(new, sprint)
    BY <2>1, <2>2 DEF Fits, Billing, Saving, Reporting
  <2>4. QED
    BY <1>0, <2>1, <2>3
<1>8. QED
  BY <1>3, <1>4, <1>5, <1>6, <1>7 DEF Call

LEMMA CheckTurn ==
    ASSUME Inv, TurnInv, NEW p \in Threads, Check(p)
    PROVE  TurnInv'
<1> DEFINE me == thread[p]
<1>1. /\ me.pc = "check" /\ IsThread(me)
      /\ UNCHANGED <<sprint, chosen, posted>> /\ (Solo' => Solo)
  BY DEF Check, Inv, ThreadsHonest, observers, Solo
<1>2. \/ Go(p, AfterReport(me))
      \/ (me.force \/ ~Reported(me.key)) /\ Go(p, Composing(me))
      \/ /\ me.force \/ ~Reported(me.key)
         /\ \E lines : Go(p, [me EXCEPT !.pc = "items", !.lines = lines])
  BY DEF Check
<1>3. ASSUME NEW new, Go(p, new), Fits(me, sprint) => Fits(new, sprint) PROVE TurnInv'
  BY <1>1, <1>3, TurnSame
<1>4. ASSUME NEW new, new.pc \in {"compose", "items"}, new.key = me.key, new.force = me.force,
             me.force \/ ~Reported(me.key), Go(p, new)
      PROVE  TurnInv'
  <2>1. Fits(me, sprint) => Fits(new, sprint)
    BY <1>1, <1>4 DEF Fits, Billing, Saving, Reporting, Reported
  <2>2. QED
    BY <1>3, <1>4, <2>1
<1>5. CASE Go(p, AfterReport(me))
  BY <1>1, <1>3, <1>5, AfterReportFree, FreeFits
<1>6. CASE (me.force \/ ~Reported(me.key)) /\ Go(p, Composing(me))
  BY <1>1, <1>4, <1>6, ComposingSame
<1>7. ASSUME NEW lines, me.force \/ ~Reported(me.key),
             Go(p, [me EXCEPT !.pc = "items", !.lines = lines])
      PROVE  TurnInv'
  <2> DEFINE new == [me EXCEPT !.pc = "items", !.lines = lines]
  <2>1. new.pc = "items" /\ new.key = me.key /\ new.force = me.force
    BY <1>1 DEF IsThread
  <2>2. Go(p, new)
    BY <1>7
  <2> HIDE DEF new
  <2>3. QED
    BY <1>4, <1>7, <2>1, <2>2
<1>8. QED
  BY <1>2, <1>5, <1>6, <1>7

\* The steps of a thread after which the row is as it was.
LEMMA LocalStepTurn ==
    ASSUME Inv, TurnInv, NEW p \in Threads,
           \/ BillingFails(p) \/ DeliveryFails(p) \/ PrepareReset(p)
           \/ CreateItem(p) \/ CreateInvoice(p)
           \/ ReadForPatch(p, "finish", "write_invoice")
           \/ ReadForPatch(p, "save_report", "write_report")
    PROVE  TurnInv'
<1> DEFINE me    == thread[p]
           reset == [Idle EXCEPT !.pc = "write_reset", !.then = me.then, !.today = me.today,
                        !.number = sprint.number + 1,
                        !.plan = IF me.then = "refill" THEN Merged(BuiltPlan) ELSE NoPlan]
           read(next) == [me EXCEPT !.pc = next, !.plan = sprint.plan]
<1>1. IsThread(me) /\ me.pc # "idle" /\ UNCHANGED <<sprint, chosen, posted>> /\ (Solo' => Solo)
  BY DEF Inv, ThreadsHonest, BillingFails, DeliveryFails, PrepareReset, CreateItem, CreateInvoice,
         ReadForPatch, observers, Solo
<1>2. ASSUME NEW new, Go(p, new), Solo /\ Fits(me, sprint) => Fits(new, sprint) PROVE TurnInv'
  BY <1>1, <1>2, TurnSame
<1>3. ASSUME NEW new, Go(p, new), new.key = me.key, new.force = me.force, me.pc \in Billing,
             \/ new.pc \in {"items", "invoice", "finish", "compose"}
             \/ new.pc = "write_invoice" /\ new.plan = sprint.plan
      PROVE  TurnInv'
  <2>1. Fits(me, sprint) => Fits(new, sprint)
    BY <1>3 DEF Fits, Billing, Saving, Reporting
  <2>2. QED
    BY <1>2, <1>3, <2>1
<1>4. CASE BillingFails(p)
  <2>1. me.pc \in Billing /\ Go(p, Composing(me))
    BY <1>4 DEF BillingFails, Billing
  <2>2. QED
    BY <1>1, <1>3, <2>1, ComposingSame
<1>5. CASE DeliveryFails(p)
  BY <1>1, <1>2, <1>5, AfterReportFree, FreeFits DEF DeliveryFails
<1>6. CASE PrepareReset(p)
  <2>1. reset.pc = "write_reset" /\ reset.number = sprint.number + 1
    BY DEF Idle
  <2>2. Go(p, reset)
    BY <1>6 DEF PrepareReset
  <2> HIDE DEF reset
  <2>3. Fits(reset, sprint)
    BY <2>1 DEF Fits, Billing, Saving, Reporting
  <2>4. QED
    BY <1>2, <2>2, <2>3
<1>7. CASE CreateItem(p)
  <2> DEFINE rest == Tail(me.lines)
             pc   == IF Len(me.lines) = 1 THEN "invoice" ELSE "items"
             new  == [me EXCEPT !.lines = rest, !.pc = pc]
  <2>1. Go(p, new) /\ me.pc \in Billing
    BY <1>7 DEF CreateItem, Billing
  <2>2. new.pc \in {"items", "invoice"} /\ new.key = me.key /\ new.force = me.force
    BY <1>1 DEF IsThread
  <2> HIDE DEF new
  <2>3. QED
    BY <1>3, <2>1, <2>2
<1>8. CASE CreateInvoice(p)
  <2> DEFINE new == [me EXCEPT !.pc = "finish"]
  <2>1. Go(p, new) /\ me.pc \in Billing
    BY <1>8 DEF CreateInvoice, Billing
  <2>2. new.pc = "finish" /\ new.key = me.key /\ new.force = me.force
    BY <1>1 DEF IsThread
  <2> HIDE DEF new
  <2>3. QED
    BY <1>3, <2>1, <2>2
<1>9. \A next : /\ read(next).pc = next /\ read(next).plan = sprint.plan
                /\ read(next).key = me.key /\ read(next).force = me.force
  BY <1>1 DEF IsThread
<1>10. CASE ReadForPatch(p, "finish", "write_invoice")
  <2>1. Go(p, read("write_invoice")) /\ me.pc \in Billing
    BY <1>10 DEF ReadForPatch, Billing
  <2> HIDE DEF read
  <2>2. QED
    BY <1>3, <1>9, <2>1
<1>11. CASE ReadForPatch(p, "save_report", "write_report")
  <2>1. Go(p, read("write_report")) /\ me.pc = "save_report"
    BY <1>11 DEF ReadForPatch
  <2> HIDE DEF read
  <2>2. Fits(me, sprint) => Fits(read("write_report"), sprint)
    BY <1>9, <2>1 DEF Fits, Billing, Saving, Reporting
  <2>3. QED
    BY <1>2, <2>1, <2>2
<1>12. QED
  BY <1>4, <1>5, <1>6, <1>7, <1>8, <1>10, <1>11

LEMMA DeliverTurn ==
    ASSUME Inv, TurnInv, NEW p \in Threads, Deliver(p)
    PROVE  TurnInv'
<1> DEFINE me  == thread[p]
           new == [me EXCEPT !.pc = "save_report"]
<1>1. /\ me.pc = "compose" /\ IsThread(me)
      /\ Go(p, new) /\ posted' = posted \cup {me.key}
      /\ UNCHANGED <<sprint, chosen, incidents>>
  BY DEF Deliver, Inv, ThreadsHonest, observers
<1>2. new.pc = "save_report" /\ new.key = me.key
  BY <1>1 DEF IsThread
<1> HIDE DEF new
<1>3. ASSUME Solo PROVE Fits(new, sprint') /\ RowStands(sprint', chosen', posted')
  <2>1. Fits(me, sprint) /\ RowStands(sprint, chosen, posted)
    BY <1>1, <1>3, OthersIdle
  <2>2. me.key = <<sprint.number, sprint.end>> /\ sprint.number \in Nat
    BY <1>1, <2>1 DEF Fits, RowStands, Reporting
  <2>3. Fits(new, sprint')
    BY <1>1, <1>2, <2>2 DEF Fits, Billing, Saving, Reporting
  <2>4. me.key[1] \in 0 .. sprint.number
    BY <2>2
  <2>5. RowStands(sprint', chosen', posted')
    BY <1>1, <2>1, <2>4 DEF RowStands
  <2>6. QED
    BY <2>3, <2>5
<1>4. Solo' => Solo
  BY <1>1 DEF Solo
<1>5. QED
  BY <1>1, <1>3, <1>4, TurnGoesOn DEF Inv

\* A thread that wrote the row starts afresh, or composes its report.
LEMMA RowWriteTurn ==
    ASSUME Inv, TurnInv, NEW p \in Threads,
           WriteInvoiceKey(p) \/ WriteReportKey(p) \/ WriteReset(p) \/ WriteRebuild(p)
    PROVE  TurnInv'
<1> DEFINE me    == thread[p]
           after == [me EXCEPT !.plan = NoPlan]
<1>1. /\ IsThread(me) /\ me.pc # "idle" /\ RowHonest /\ (Solo' => Solo) /\ posted' = posted
  BY DEF Inv, ThreadsHonest, WriteInvoiceKey, WriteReportKey, WriteReset, WriteRebuild, observers,
         Solo
<1>2. Solo => Fits(me, sprint) /\ RowStands(sprint, chosen, posted)
  BY <1>1, OthersIdle
<1>3. ASSUME NEW new, Go(p, new), Solo => Fits(new, sprint') /\ RowStands(sprint', chosen', posted')
      PROVE  TurnInv'
  BY <1>1, <1>3, TurnGoesOn DEF Inv
<1>4. CASE WriteInvoiceKey(p)
  <2>1. /\ sprint' = [sprint EXCEPT !.plan = me.plan, !.invoiceKey = me.key]
        /\ me.pc = "write_invoice" /\ Go(p, Composing(me)) /\ chosen' = chosen
    BY <1>4 DEF WriteInvoiceKey, observers
  <2>2. /\ sprint'.plan = me.plan /\ sprint'.number = sprint.number /\ sprint'.end = sprint.end
        /\ sprint'.manual = sprint.manual /\ sprint'.reportKey = sprint.reportKey
    BY <1>1, <2>1 DEF RowHonest
  <2>3. ASSUME Solo PROVE Fits(Composing(me), sprint') /\ RowStands(sprint', chosen', posted')
    <3>1. me.plan = sprint.plan
      BY <1>2, <2>1, <2>3 DEF Fits
    <3>2. Fits(Composing(me), sprint')
      BY <1>1, <1>2, <2>1, <2>2, <2>3, ComposingSame DEF Fits, Billing, Saving, Reporting
    <3>3. QED
      BY <1>1, <1>2, <2>1, <2>2, <2>3, <3>1, <3>2 DEF RowStands
  <2>4. QED
    BY <1>3, <2>1, <2>3
<1>5. CASE WriteReportKey(p)
  <2>1. /\ sprint' = [sprint EXCEPT !.plan = me.plan, !.reportKey = me.key]
        /\ me.pc = "write_report" /\ Go(p, AfterReport(after)) /\ chosen' = chosen
    BY <1>5 DEF WriteReportKey, observers
  <2>2. /\ sprint'.plan = me.plan /\ sprint'.number = sprint.number
        /\ sprint'.manual = sprint.manual
    BY <1>1, <2>1 DEF RowHonest
  <2>3. IsThread(after)
    BY <1>1 DEF IsThread
  <2> HIDE DEF after
  <2>4. Fits(AfterReport(after), sprint')
    BY <2>3, AfterReportFree, FreeFits
  <2>5. ASSUME Solo PROVE RowStands(sprint', chosen', posted')
    <3>1. me.plan = sprint.plan
      BY <1>2, <2>1, <2>5 DEF Fits
    <3>2. QED
      BY <1>1, <1>2, <2>1, <2>2, <2>5, <3>1 DEF RowStands
  <2>6. QED
    BY <1>3, <2>1, <2>4, <2>5
<1>6. CASE WriteReset(p)
  <2>1. /\ sprint' = [sprint EXCEPT !.plan = me.plan, !.number = me.number, !.manual = FALSE,
                         !.start = me.today, !.end = me.today + Duration - 1]
        /\ me.pc = "write_reset" /\ Go(p, Idle)
    BY <1>6 DEF WriteReset
  <2>2. sprint'.number = me.number /\ ~sprint'.manual
    BY <1>1, <2>1 DEF RowHonest
  <2>3. Fits(Idle, sprint')
    BY IdleIsFree, FreeFits DEF Free
  <2>4. ASSUME Solo PROVE RowStands(sprint', chosen', posted')
    <3>1. sprint'.number = sprint.number + 1 /\ sprint.number \in Nat
          /\ \A k \in posted : k[1] \in 0 .. sprint.number
      BY <1>2, <2>1, <2>2, <2>4 DEF Fits, RowStands
    <3>2. sprint'.number \in Nat /\ \A k \in posted' : k[1] \in 0 .. sprint'.number
      BY <1>1, <3>1
    <3>3. QED
      BY <2>2, <3>2 DEF RowStands
  <2>5. QED
    BY <1>3, <2>1, <2>3, <2>4
<1>7. CASE WriteRebuild(p)
  <2>1. /\ sprint' = [sprint EXCEPT !.plan = me.plan]
        /\ me.pc = "write_plan" /\ Go(p, Idle)
    BY <1>7 DEF WriteRebuild
  <2>2. sprint'.number = sprint.number /\ sprint'.manual = sprint.manual
    BY <1>1, <2>1 DEF RowHonest
  <2>3. Fits(Idle, sprint')
    BY IdleIsFree, FreeFits DEF Free
  <2>4. ASSUME Solo PROVE RowStands(sprint', chosen', posted')
    <3>1. ~sprint'.manual
      BY <1>2, <2>1, <2>2, <2>4 DEF Fits
    <3>2. QED
      BY <1>1, <1>2, <2>2, <2>4, <3>1 DEF RowStands
  <2>5. QED
    BY <1>3, <2>1, <2>3, <2>4
<1>8. QED
  BY <1>4, <1>5, <1>6, <1>7

LEMMA SelectTurn ==
    ASSUME Inv, TurnInv, NEW S \in SUBSET Tickets, Select(S)
    PROVE  TurnInv'
<1> DEFINE plan == [t \in Tickets |-> IF t \in S THEN "selected" ELSE "absent"]
<1>1. /\ sprint' = [sprint EXCEPT !.manual = TRUE, !.plan = plan]
      /\ chosen' = S /\ UNCHANGED <<posted, thread>>
      /\ incidents' = incidents \cup (IF \A q \in Threads : thread[q].pc = "idle" THEN {}
                                      ELSE {"overlap"})
  BY DEF Select
<1>2. plan = [t \in DOMAIN plan |-> IF t \in S THEN "selected" ELSE "absent"]
  OBVIOUS
<1> HIDE DEF plan
<1>3. sprint'.plan = plan /\ sprint'.number = sprint.number
  BY <1>1 DEF Inv, RowHonest
<1>4. CASE Solo'
  <2>1. Solo /\ \A q \in Threads : thread'[q].pc = "idle"
    BY <1>1, <1>4 DEF Solo
  <2>2. \A q \in Threads : Fits(thread'[q], sprint')
    BY <2>1, FreeFits DEF Free
  <2>3. RowStands(sprint, chosen, posted)
    BY <2>1 DEF TurnInv
  <2>4. RowStands(sprint', chosen', posted')
    BY <1>1, <1>2, <1>3, <2>3 DEF RowStands
  <2>5. QED
    BY <2>1, <2>2, <2>4 DEF TurnInv
<1>5. CASE ~Solo'
  BY <1>5 DEF TurnInv
<1>6. QED
  BY <1>4, <1>5

\* Steps that leave the row alone, and the threads too unless the server stops.
LEMMA QuietTurn ==
    ASSUME TurnInv, UNCHANGED <<sprint, chosen, posted>>, Solo' => Solo,
           thread' = thread \/ thread' = [p \in Threads |-> Idle]
    PROVE  TurnInv'
<1>1. CASE thread' = thread
  BY <1>1 DEF TurnInv
<1>2. CASE thread' = [p \in Threads |-> Idle]
  <2>1. \A p \in Threads : thread'[p].pc = "idle"
    BY <1>2, IdleIsFree
  <2>2. \A p \in Threads : Fits(thread'[p], sprint')
    BY <2>1, FreeFits DEF Free
  <2>3. QED
    BY <2>1, <2>2 DEF TurnInv
<1>3. QED
  BY <1>1, <1>2

\* The steps around the threads.
Outside ==
    \/ NextDay \/ Crash \/ UNCHANGED vars
    \/ \E t \in Tickets : Promote(t) \/ CompleteOrder(t) \/ \E v \in Verdicts : Analyse(t, v)

LEMMA StepTurn == Inv /\ TurnInv /\ [Next]_vars => TurnInv'
<1> SUFFICES ASSUME Inv, TurnInv, [Next]_vars PROVE TurnInv'
  OBVIOUS
<1>1. ASSUME NEW p \in Threads, ThreadStep(p) PROVE TurnInv'
  BY <1>1, CheckTurn, LocalStepTurn, DeliverTurn, RowWriteTurn DEF ThreadStep
<1>2. ASSUME NEW p \in Threads, Call(p) PROVE TurnInv'
  BY <1>2, CallTurn
<1>3. ASSUME NEW S \in SUBSET Tickets, Select(S) PROVE TurnInv'
  BY <1>3, SelectTurn
<1>4. CASE Outside
  <2>1. /\ UNCHANGED <<sprint, chosen, posted>> /\ (Solo' => Solo)
        /\ thread' = thread \/ thread' = [p \in Threads |-> Idle]
    BY <1>4 DEF Outside, NextDay, Crash, Promote, CompleteOrder, Analyse, vars, observers, Solo
  <2>2. QED
    BY <2>1, QuietTurn
<1>5. QED
  BY <1>1, <1>2, <1>3, <1>4 DEF Next, Outside

LEMMA InitTurn == Init => TurnInv
<1> SUFFICES ASSUME Init PROVE TurnInv
  OBVIOUS
<1>1. \A p \in Threads : thread[p].pc = "idle"
  BY IdleIsFree DEF Init
<1>2. \A p \in Threads : Fits(thread[p], sprint)
  BY <1>1, FreeFits DEF Free
<1>3. RowStands(sprint, chosen, posted)
  BY DEF Init, RowStands
<1>4. QED
  BY <1>1, <1>2, <1>3 DEF TurnInv

\* A manual selection stands until the next reset: the daily rebuild and the patches of
\* the report leave it alone, unless threads overlap (rebuild_and_persist_selected_sprint
\* stops at a manual selection, _patch_sprint_memory writes back the plan it read).
THEOREM SelectionIsKept == Spec => []ManualSelectionStands
<1>1. TurnInv => ManualSelectionStands
  BY DEF TurnInv, RowStands, ManualSelectionStands, Solo
<1>2. QED
  BY <1>1, InitHonest, StepHonest, InitTurn, StepTurn, PTL DEF Spec

----------------------------------------------------------------------------
(* A report goes out once. *)

LEMMA CleanIsSolo == (Clean => Solo) /\ (Whole => Clean)
BY DEF Clean, Whole, Solo

\* A thread that is about to record its report goes on to do so, and the row has
\* the same key and the same report recorded.
LEMMA SentGoesOn ==
    ASSUME ThreadsHonest, SentInv, NEW p \in Threads, NEW new, Go(p, new), Clean' => Clean,
           thread[p].pc \in Saving => new.pc \in Saving,
           SprintKey' = SprintKey, sprint'.reportKey = sprint.reportKey, posted' = posted
    PROVE  SentInv'
<1>1. \A q \in Threads : thread'[q] = IF q = p THEN new ELSE thread[q]
  BY DEF Go, ThreadsHonest
<1>2. \A q \in Threads : thread[q].pc \in Saving => thread'[q].pc \in Saving
  BY <1>1
<1>3. QED
  BY <1>2 DEF SentInv, Reported

LEMMA CallSent ==
    ASSUME Inv, SentInv, NEW p \in Threads, Call(p)
    PROVE  SentInv'
<1>1. ASSUME NEW new, Begin(p, new), UNCHANGED <<sprint, posted>> PROVE SentInv'
  <2>1. thread[p].pc \notin Saving /\ Go(p, new) /\ (Clean' => Clean)
    BY <1>1 DEF Begin, Saving, Clean
  <2>2. SprintKey' = SprintKey /\ sprint'.reportKey = sprint.reportKey
    BY <1>1 DEF SprintKey
  <2>3. QED
    BY <1>1, <2>1, <2>2, SentGoesOn DEF Inv
<1>2. \E new : Begin(p, new) /\ UNCHANGED <<sprint, posted>>
  BY DEF Call, RequestReport, ScheduledReport, AutoReset, ManualReset, PrepareRebuild
<1>3. QED
  BY <1>1, <1>2

\* The steps of a thread that leave the key of the row and of its report alone.
LEMMA LocalStepSent ==
    ASSUME Inv, SentInv, NEW p \in Threads,
           \/ Check(p) \/ BillingFails(p) \/ CreateItem(p) \/ CreateInvoice(p)
           \/ WriteInvoiceKey(p) \/ DeliveryFails(p) \/ PrepareReset(p) \/ WriteRebuild(p)
           \/ ReadForPatch(p, "finish", "write_invoice")
    PROVE  SentInv'
<1>1. RowHonest
  BY DEF Inv
<1>2. /\ thread[p].pc \notin Saving /\ (Clean' => Clean) /\ posted' = posted
      /\ \/ sprint' = sprint
         \/ sprint' = [sprint EXCEPT !.plan = thread[p].plan, !.invoiceKey = thread[p].key]
         \/ sprint' = [sprint EXCEPT !.plan = thread[p].plan]
  BY DEF Check, BillingFails, CreateItem, CreateInvoice, WriteInvoiceKey, DeliveryFails,
         PrepareReset, WriteRebuild, ReadForPatch, Saving, Clean, observers
<1>3. /\ sprint'.number = sprint.number /\ sprint'.end = sprint.end
      /\ sprint'.reportKey = sprint.reportKey
  BY <1>1, <1>2 DEF RowHonest
<1>4. SprintKey' = SprintKey
  BY <1>3 DEF SprintKey
<1>5. \E new : Go(p, new)
  BY DEF Check, BillingFails, CreateItem, CreateInvoice, WriteInvoiceKey, DeliveryFails,
         PrepareReset, WriteRebuild, ReadForPatch
<1>6. QED
  BY <1>2, <1>3, <1>4, <1>5, SentGoesOn DEF Inv

\* The steps between the delivery of a report and its record in the row.
LEMMA SavingSent ==
    ASSUME Inv, TurnInv, SentInv, NEW p \in Threads,
           \/ Deliver(p) \/ ReadForPatch(p, "save_report", "write_report") \/ WriteReportKey(p)
    PROVE  SentInv'
<1> DEFINE me   == thread[p]
           plan == sprint.plan
<1>1. IsThread(me) /\ RowHonest /\ thread = [q \in Threads |-> thread[q]] /\ (Clean' => Clean)
  BY DEF Inv, ThreadsHonest, Deliver, ReadForPatch, WriteReportKey, observers, Clean
<1>2. CASE Deliver(p)
  <2> DEFINE new == [me EXCEPT !.pc = "save_report"]
  <2>1. Go(p, new)
    BY <1>2 DEF Deliver
  <2>2. new.pc \in Saving
    BY <1>1 DEF IsThread, Saving
  <2> HIDE DEF new
  <2>3. thread'[p] = new
    BY <1>1, <2>1 DEF Go
  <2>4. QED
    BY <2>2, <2>3 DEF SentInv
<1>3. CASE ReadForPatch(p, "save_report", "write_report")
  <2> DEFINE new == [me EXCEPT !.pc = "write_report", !.plan = plan]
  <2>1. Go(p, new) /\ UNCHANGED <<sprint, posted>>
    BY <1>3 DEF ReadForPatch
  <2>2. new.pc \in Saving
    BY <1>1 DEF IsThread, Saving
  <2> HIDE DEF new
  <2>3. SprintKey' = SprintKey
    BY <2>1 DEF SprintKey
  <2>4. QED
    BY <1>1, <2>1, <2>2, <2>3, SentGoesOn DEF Inv
<1>4. CASE WriteReportKey(p)
  <2>1. /\ sprint' = [sprint EXCEPT !.plan = me.plan, !.reportKey = me.key]
        /\ me.pc = "write_report"
    BY <1>4 DEF WriteReportKey
  <2>2. /\ sprint'.number = sprint.number /\ sprint'.end = sprint.end
        /\ sprint'.reportKey = me.key
    BY <1>1, <2>1 DEF RowHonest
  <2>3. Solo => me.key = <<sprint.number, sprint.end>>
    BY <2>1, OthersIdle DEF Fits, Reporting, Saving
  <2>4. Clean' => Reported(SprintKey)'
    BY <1>1, <2>2, <2>3, CleanIsSolo DEF Reported, SprintKey
  <2>5. QED
    BY <2>4 DEF SentInv
<1>5. QED
  BY <1>2, <1>3, <1>4

\* The next sprint has a key under which no report went out.
LEMMA ResetSent ==
    ASSUME Inv, TurnInv, NEW p \in Threads, WriteReset(p)
    PROVE  SentInv'
<1> DEFINE me == thread[p]
<1>1. /\ sprint' = [sprint EXCEPT !.plan = me.plan, !.number = me.number, !.manual = FALSE,
                       !.start = me.today, !.end = me.today + Duration - 1]
      /\ me.pc = "write_reset" /\ posted' = posted /\ incidents' = incidents
  BY DEF WriteReset
<1>2. sprint'.number = me.number
  BY <1>1 DEF Inv, RowHonest
<1>3. CASE Clean'
  <2>1. Solo
    BY <1>1, <1>3 DEF Clean, Solo
  <2>2. /\ me.number = sprint.number + 1 /\ sprint.number \in Nat
        /\ \A k \in posted : k[1] \in 0 .. sprint.number
    BY <1>1, <2>1, OthersIdle DEF Fits, RowStands
  <2>3. SprintKey'[1] = sprint.number + 1
    BY <1>2, <2>2 DEF SprintKey
  <2>4. SprintKey' \notin posted'
    BY <1>1, <2>2, <2>3
  <2>5. QED
    BY <2>4 DEF SentInv
<1>4. QED
  BY <1>3 DEF SentInv

LEMMA StepSent == Inv /\ TurnInv /\ SentInv /\ [Next]_vars => SentInv'
<1> SUFFICES ASSUME Inv, TurnInv, SentInv, [Next]_vars PROVE SentInv'
  OBVIOUS
<1>1. ASSUME NEW p \in Threads, ThreadStep(p) PROVE SentInv'
  BY <1>1, LocalStepSent, SavingSent, ResetSent DEF ThreadStep
<1>2. ASSUME NEW p \in Threads, Call(p) PROVE SentInv'
  BY <1>2, CallSent
<1>3. ASSUME NEW S \in SUBSET Tickets, Select(S) PROVE SentInv'
  <2> DEFINE plan == [t \in Tickets |-> IF t \in S THEN "selected" ELSE "absent"]
  <2>1. /\ sprint' = [sprint EXCEPT !.manual = TRUE, !.plan = plan]
        /\ UNCHANGED <<posted, thread>> /\ (Clean' => Clean)
    BY <1>3 DEF Select, Clean
  <2> HIDE DEF plan
  <2>2. /\ sprint'.number = sprint.number /\ sprint'.end = sprint.end
        /\ sprint'.reportKey = sprint.reportKey
    BY <2>1 DEF Inv, RowHonest
  <2>3. QED
    BY <2>1, <2>2 DEF SentInv, SprintKey, Reported
<1>4. CASE Crash
  BY <1>4 DEF Crash, SentInv, Clean
<1>5. CASE Outside /\ ~Crash
  <2>1. UNCHANGED <<sprint, posted, thread, incidents>>
    BY <1>5 DEF Outside, NextDay, Promote, CompleteOrder, Analyse, vars, observers
  <2>2. QED
    BY <2>1 DEF SentInv, SprintKey, Reported, Clean
<1>6. QED
  BY <1>1, <1>2, <1>3, <1>4, <1>5 DEF Next, Outside

LEMMA InitSent == Init => SentInv
BY DEF Init, SentInv

\* The channel gets the report of a sprint once, unless it is forced: failing calls, missed
\* deliveries and roll overs never make it go out twice, as long as no two threads overlap
\* and the server does not stop (publish_sprint_report looks at the memory before it
\* composes, and patches it after the delivery).
THEOREM ReportGoesOutOnce == Spec => ReportsOnce
<1> DEFINE Twice(p) ==
        /\ thread[p].pc = "compose" /\ thread'[p].pc = "save_report"
        /\ incidents \subseteq {"stripe_failure", "delivery_failure"} /\ ~thread[p].force
        /\ thread[p].key \in posted
<1>1. ASSUME Inv, TurnInv, SentInv, NEW p \in DOMAIN thread, Twice(p) PROVE FALSE
  <2>1. p \in Threads
    BY <1>1 DEF Inv, ThreadsHonest
  <2>2. Clean /\ Solo
    BY <1>1 DEF Clean, Solo
  <2>3. /\ thread[p].key = SprintKey /\ ~Reported(SprintKey)
        /\ \A q \in Threads : q # p => thread[q].pc = "idle"
    BY <1>1, <2>1, <2>2, OthersIdle DEF Fits, Reporting, Reported, SprintKey
  <2>4. \A q \in Threads : thread[q].pc \notin Saving
    BY <1>1, <2>3 DEF Saving
  <2>5. QED
    BY <1>1, <2>2, <2>3, <2>4 DEF SentInv
<1>2. Inv /\ TurnInv /\ SentInv => (\A p \in DOMAIN thread : ~Twice(p))
  BY <1>1
<1>3. Inv /\ TurnInv /\ SentInv =>
        [\A p \in DOMAIN thread :
            thread[p].pc = "compose" /\ thread'[p].pc = "save_report"
            /\ incidents \subseteq {"stripe_failure", "delivery_failure"} /\ ~thread[p].force =>
                thread[p].key \notin posted]_vars
  BY <1>2
<1>4. QED
  BY <1>3, InitHonest, StepHonest, InitTurn, StepTurn, InitSent, StepSent, PTL
     DEF Spec, ReportsOnce

----------------------------------------------------------------------------
(* Work is billed once. *)

\* Joining the items of two bags that share no ticket.
LEMMA ApartMerge ==
    ASSUME NEW B, NEW C, Apart(B), Apart(C), (UNION DOMAIN B) \cap (UNION DOMAIN C) = {}
    PROVE  Apart(B (+) C)
<1>1. DOMAIN (B (+) C) = DOMAIN B \cup DOMAIN C
  BY BagsMerge
<1>2. ASSUME NEW s \in DOMAIN B, NEW u \in DOMAIN C PROVE s \cap u = {}
  BY <1>2
<1>3. ASSUME NEW s \in DOMAIN B PROVE s \notin DOMAIN C
  <2>1. s # {}
    BY <1>3 DEF Apart
  <2>2. QED
    BY <1>2, <1>3, <2>1
<1>4. \A s \in DOMAIN B \cup DOMAIN C :
        (B (+) C)[s] = (IF s \in DOMAIN B THEN B[s] ELSE 0) + (IF s \in DOMAIN C THEN C[s] ELSE 0)
  BY DEF (+)
<1>5. ASSUME NEW s \in DOMAIN B \cup DOMAIN C PROVE (B (+) C)[s] = 1 /\ s # {}
  <2>1. CASE s \in DOMAIN B
    <3>1. B[s] = 1 /\ s # {} /\ s \notin DOMAIN C
      BY <1>3, <2>1 DEF Apart
    <3>2. QED
      BY <1>4, <2>1, <3>1
  <2>2. CASE s \notin DOMAIN B
    <3>1. C[s] = 1 /\ s # {}
      BY <1>5, <2>2 DEF Apart
    <3>2. QED
      BY <1>4, <1>5, <2>2, <3>1
  <2>3. QED
    BY <2>1, <2>2
<1>6. ASSUME NEW s \in DOMAIN B \cup DOMAIN C, NEW u \in DOMAIN B \cup DOMAIN C, s # u
      PROVE  s \cap u = {}
  <2>1. (s \in DOMAIN B /\ u \in DOMAIN B) \/ (s \in DOMAIN C /\ u \in DOMAIN C) => s \cap u = {}
    BY <1>6 DEF Apart
  <2>2. (s \in DOMAIN B /\ u \in DOMAIN C) \/ (s \in DOMAIN C /\ u \in DOMAIN B) => s \cap u = {}
    BY <1>2
  <2>3. QED
    BY <1>6, <2>1, <2>2
<1>7. QED
  BY <1>1, <1>5, <1>6 DEF Apart

LEMMA ApartOne == ASSUME NEW s, s # {} PROVE Apart(SetToBag({s})) /\ Apart(EmptyBag)
BY DEF Apart, SetToBag, EmptyBag

\* Steps at which a thread is not about to bill or plan anything.
LEMMA Unburdened ==
    ASSUME NEW r, r.pc \notin {"items", "write_reset", "write_plan"}, NEW billed
    PROVE  Unbilled(r, billed)
BY DEF Unbilled

\* What is billed was delivered, and a plan is built of what was not.
LEMMA PlansAreUnbilled ==
    ASSUME Inv
    PROVE  /\ Billed \subseteq Completed
           /\ Listed(Merged(BuiltPlan)) \cap Billed = {} /\ Listed(NoPlan) \cap Billed = {}
           /\ ReadyEstimated \cap Billed = {}
<1>1. Billed \subseteq Completed
  BY DEF Inv, BillsHonest, Billed
<1>2. ASSUME NEW t \in Completed PROVE t \in Tickets /\ order[t] = "completed" /\ readiness[t] = "promoted"
  BY <1>2 DEF Completed, Inv, OrdersMoveOn
<1>3. ReadyEstimated \cap Completed = {}
  BY <1>2 DEF ReadyEstimated
<1>4. \A S : Fitting(S) \subseteq S
  BY DEF Fitting
<1>5. ASSUME NEW t \in Completed PROVE Merged(BuiltPlan)[t] = "absent"
  <2> DEFINE fit == Fitting(ReadyEstimated)
  <2>1. t \notin fit
    BY <1>3, <1>4, <1>5
  <2>2. t \in Tickets /\ order[t] = "completed" /\ readiness[t] = "promoted"
    BY <1>2, <1>5
  <2>3. /\ readiness[t] # "needs_clarification" /\ readiness[t] # "analysis_failed"
        /\ readiness[t] \notin BacklogStatuses
    BY <2>2 DEF BacklogStatuses
  <2>4. BuiltPlan[t] = "absent"
    BY <2>1, <2>2, <2>3, Zenon DEF BuiltPlan
  <2>5. QED
    BY <2>2, <2>4 DEF Merged
<1>6. Listed(NoPlan) = {} /\ Listed(Merged(BuiltPlan)) \cap Completed = {}
  BY <1>5 DEF Listed, NoPlan
<1>7. QED
  BY <1>1, <1>3, <1>6

\* The row still lists no billed ticket, unless its invoice is made or under way.
RowBilled(row, key, billed) == billed \cap Listed(row.plan) = {} \/ row.invoiceKey = key

LEMMA BillsBefore ==
    ASSUME Inv, TurnInv, BillsInv, Whole, NEW p \in Threads,
           thread[p].pc # "idle" \/ Quiet(p)
    PROVE  /\ Apart(pending) /\ Apart(invoiced)
           /\ (UNION DOMAIN pending) \cap (UNION DOMAIN invoiced) = {}
           /\ Unbilled(thread[p], Billed) /\ Fits(thread[p], sprint)
           /\ RowBilled(sprint, SprintKey, Billed) \/ thread[p].pc \in Billing
           /\ \A q \in Threads : q # p => thread[q].pc = "idle"
<1>1. \A q \in Threads : q # p => thread[q].pc = "idle"
  BY OthersIdle, CleanIsSolo
<1>2. \A q \in Threads : thread[q].pc \in Billing => q = p
  BY <1>1 DEF Billing
<1>3. QED
  BY <1>1, <1>2, OthersIdle, CleanIsSolo DEF BillsInv, RowBilled, Invoiced

\* A thread goes on while the others are idle; what is billed may grow.
LEMMA BillsGoOn ==
    ASSUME Inv, TurnInv, BillsInv, NEW p \in Threads, NEW new, Go(p, new),
           Whole' => Whole, Whole => thread[p].pc # "idle" \/ Quiet(p),
           Whole => /\ Apart(pending') /\ Apart(invoiced')
                    /\ (UNION DOMAIN pending') \cap (UNION DOMAIN invoiced') = {}
                    /\ Unbilled(new, Billed')
                    /\ RowBilled(sprint', SprintKey', Billed') \/ new.pc \in Billing
    PROVE  BillsInv'
<1> SUFFICES ASSUME Whole, Whole' PROVE BillsInv'
  BY DEF BillsInv
<1>1. \A q \in Threads : thread'[q] = IF q = p THEN new ELSE thread[q]
  BY DEF Go, Inv, ThreadsHonest
<1>2. \A q \in Threads : q # p => Unbilled(thread'[q], Billed')
  BY <1>1, BillsBefore, Unburdened
<1>3. \A q \in Threads : Unbilled(thread'[q], Billed')
  BY <1>1, <1>2
<1>4. new.pc \in Billing => \E q \in Threads : thread'[q].pc \in Billing
  BY <1>1
<1>5. QED
  BY <1>3, <1>4 DEF BillsInv, RowBilled, Invoiced

\* Nothing is billed by the step.
LEMMA BillsSettled ==
    ASSUME Inv, TurnInv, BillsInv, NEW p \in Threads, NEW new, Go(p, new),
           Whole' => Whole, Whole => thread[p].pc # "idle" \/ Quiet(p), UNCHANGED stripe,
           Whole /\ Unbilled(thread[p], Billed) /\ Fits(thread[p], sprint) => Unbilled(new, Billed),
           Whole /\ Fits(thread[p], sprint) /\ Unbilled(thread[p], Billed)
           /\ (RowBilled(sprint, SprintKey, Billed) \/ thread[p].pc \in Billing) =>
                RowBilled(sprint', SprintKey', Billed) \/ new.pc \in Billing
    PROVE  BillsInv'
<1>1. Billed' = Billed /\ pending' = pending /\ invoiced' = invoiced
  BY DEF stripe, Billed
<1>2. Whole => /\ Apart(pending') /\ Apart(invoiced')
               /\ (UNION DOMAIN pending') \cap (UNION DOMAIN invoiced') = {}
  BY <1>1, BillsBefore
<1>3. Whole => /\ Unbilled(new, Billed')
               /\ RowBilled(sprint', SprintKey', Billed') \/ new.pc \in Billing
  BY <1>1, BillsBefore
<1>4. QED
  BY <1>2, <1>3, BillsGoOn

LEMMA CallBills ==
    ASSUME Inv, TurnInv, BillsInv, NEW p \in Threads, Call(p)
    PROVE  BillsInv'
<1>0. ASSUME NEW new, Begin(p, new), UNCHANGED <<sprint, stripe>>,
             Unbilled(new, Billed)
      PROVE  BillsInv'
  <2>1. /\ thread[p].pc = "idle" /\ Go(p, new)
        /\ incidents' = incidents \cup (IF Quiet(p) THEN {} ELSE {"overlap"})
    BY <1>0 DEF Begin
  <2>2. Whole' => Whole /\ Quiet(p)
    BY <2>1 DEF Whole
  <2>3. thread[p].pc \notin Billing /\ SprintKey' = SprintKey
    BY <1>0, <2>1 DEF Billing, SprintKey
  <2>4. CASE Whole'
    BY <1>0, <2>1, <2>2, <2>3, <2>4, BillsSettled
  <2>5. CASE ~Whole'
    BY <2>5 DEF BillsInv
  <2>6. QED
    BY <2>4, <2>5
<1>1. ASSUME NEW then, NEW force PROVE Unbilled(Snapshot(then, force), Billed)
  <2> DEFINE done == Delivered(sprint.plan)
             key  == SprintKey
             new  == [Idle EXCEPT !.pc = "check", !.then = then, !.force = force,
                                  !.key = key, !.done = done, !.today = day]
  <2>1. Snapshot(then, force) = new
    BY DEF Snapshot
  <2> HIDE DEF done, key
  <2>2. new.pc = "check"
    BY DEF Idle
  <2> HIDE DEF new
  <2>3. QED
    BY <2>1, <2>2, Unburdened
<1>2. ASSUME NEW then, NEW today
      PROVE  Unbilled([Idle EXCEPT !.pc = "reset", !.then = then, !.today = today], Billed)
  <2> DEFINE new == [Idle EXCEPT !.pc = "reset", !.then = then, !.today = today]
  <2>1. new.pc = "reset"
    BY DEF Idle
  <2> HIDE DEF new
  <2>2. Unbilled(new, Billed)
    BY <2>1, Unburdened
  <2>3. QED
    BY <2>2 DEF new
<1>3. ASSUME NEW force \in BOOLEAN, RequestReport(p, force) PROVE BillsInv'
  BY <1>0, <1>1, <1>3 DEF RequestReport
<1>4. CASE ScheduledReport(p)
  BY <1>0, <1>1, <1>4 DEF ScheduledReport
<1>5. CASE AutoReset(p)
  BY <1>0, <1>1, <1>2, <1>5 DEF AutoReset
<1>6. ASSUME NEW then \in {"refill", "clear"}, ManualReset(p, then) PROVE BillsInv'
  BY <1>0, <1>2, <1>6 DEF ManualReset
<1>7. CASE PrepareRebuild(p)
  <2> DEFINE plan == Merged(BuiltPlan)
             new  == [Idle EXCEPT !.pc = "write_plan", !.plan = plan]
  <2>1. Begin(p, new) /\ UNCHANGED <<sprint, stripe>> /\ Listed(plan) \cap Billed = {}
    BY <1>7, PlansAreUnbilled DEF PrepareRebuild
  <2> HIDE DEF plan
  <2>2. new.pc = "write_plan" /\ new.plan = plan
    BY DEF Idle
  <2> HIDE DEF new
  <2>3. Unbilled(new, Billed)
    BY <2>1, <2>2 DEF Unbilled
  <2>4. QED
    BY <1>0, <2>1, <2>3
<1>8. QED
  BY <1>3, <1>4, <1>5, <1>6, <1>7 DEF Call

\* Only tickets of the plan that no item bills yet are proposed.
LEMMA CheckBills ==
    ASSUME Inv, TurnInv, BillsInv, NEW p \in Threads, Check(p)
    PROVE  BillsInv'
<1> DEFINE me == thread[p]
<1>1. /\ me.pc = "check" /\ IsThread(me) /\ SprintKey' = SprintKey
      /\ UNCHANGED <<sprint, stripe>> /\ (Whole' => Whole)
  BY DEF Check, Inv, ThreadsHonest, observers, Whole, SprintKey
<1>2. \/ Go(p, AfterReport(me))
      \/ Go(p, Composing(me))
      \/ /\ ~Invoiced(me.key)
         /\ \E n \in 1 .. 2 : \E lines \in [1 .. n -> Lines] :
               ValidProposal(lines, me.done) /\ Go(p, [me EXCEPT !.pc = "items", !.lines = lines])
  BY DEF Check
<1>3. ASSUME NEW new, Go(p, new),
             Whole /\ Fits(me, sprint) /\ RowBilled(sprint, SprintKey, Billed) =>
                 Unbilled(new, Billed)
      PROVE  BillsInv'
  <2>1. me.pc \notin Billing
    BY <1>1 DEF Billing
  <2>2. Whole /\ Fits(me, sprint) => Unbilled(new, Billed)
    BY <1>1, <1>3, <2>1, BillsBefore
  <2>3. QED
    BY <1>1, <1>3, <2>1, <2>2, BillsSettled
<1>4. CASE Go(p, AfterReport(me))
  <2>1. Unbilled(AfterReport(me), Billed)
    BY <1>1, AfterReportFree, Unburdened DEF Free
  <2>2. QED
    BY <1>3, <1>4, <2>1
<1>5. CASE Go(p, Composing(me))
  <2>1. Unbilled(Composing(me), Billed)
    BY <1>1, ComposingSame, Unburdened
  <2>2. QED
    BY <1>3, <1>5, <2>1
<1>6. ASSUME NEW n \in 1 .. 2, NEW lines \in [1 .. n -> Lines], ~Invoiced(me.key),
             ValidProposal(lines, me.done), Go(p, [me EXCEPT !.pc = "items", !.lines = lines])
      PROVE  BillsInv'
  <2> DEFINE new == [me EXCEPT !.pc = "items", !.lines = lines]
  <2>1. new.pc = "items" /\ new.lines = lines
    BY <1>1 DEF IsThread
  <2>2. Go(p, new)
    BY <1>6
  <2> HIDE DEF new
  <2>3. lines \in Seq(Lines) /\ Len(lines) = n /\ DOMAIN lines = 1 .. n
    BY <1>6
  <2>4. /\ \A i \in 1 .. n : lines[i].keys # {} /\ lines[i].keys \subseteq me.done
        /\ \A i \in 1 .. n : \A j \in 1 .. i - 1 : lines[i].keys \cap lines[j].keys = {}
    BY <1>6, <2>3 DEF ValidProposal
  <2>5. ASSUME NEW i \in 1 .. n, NEW j \in 1 .. n, i # j
        PROVE  lines[i].keys \cap lines[j].keys = {}
    <3>1. j \in 1 .. i - 1 \/ i \in 1 .. j - 1
      BY <2>5
    <3>2. QED
      BY <2>4, <3>1
  <2>6. ASSUME Fits(me, sprint), RowBilled(sprint, SprintKey, Billed)
        PROVE  me.done \cap Billed = {}
    <3>1. me.key = SprintKey /\ me.done \subseteq Listed(sprint.plan)
      BY <1>1, <2>6 DEF Fits, Reporting, SprintKey
    <3>2. Billed \cap Listed(sprint.plan) = {}
      BY <1>6, <2>6, <3>1 DEF RowBilled, Invoiced
    <3>3. QED
      BY <3>1, <3>2
  <2>7. ASSUME Fits(me, sprint), RowBilled(sprint, SprintKey, Billed)
        PROVE  Unbilled(new, Billed)
    <3>1. \A i \in 1 .. n : lines[i].keys \cap Billed = {}
      BY <2>4, <2>6, <2>7
    <3>2. QED
      BY <2>1, <2>3, <2>4, <2>5, <3>1 DEF Unbilled
  <2>8. QED
    BY <1>3, <2>2, <2>7
<1>7. QED
  BY <1>2, <1>4, <1>5, <1>6

\* The item of a line is new: its tickets are on no other item.
LEMMA CreateItemBills ==
    ASSUME Inv, TurnInv, BillsInv, NEW p \in Threads, CreateItem(p)
    PROVE  BillsInv'
<1> DEFINE me    == thread[p]
           lines == me.lines
           one   == lines[1].keys
           item  == SetToBag({one})
           rest  == Tail(lines)
           pc    == IF Len(lines) = 1 THEN "invoice" ELSE "items"
           new   == [me EXCEPT !.lines = rest, !.pc = pc]
<1>1. /\ me.pc = "items" /\ IsThread(me) /\ lines \in Seq(Lines) /\ lines # <<>>
      /\ Go(p, new) /\ pending' = pending (+) item
      /\ UNCHANGED <<sprint, invoiced>> /\ (Whole' => Whole) /\ SprintKey' = SprintKey
  BY DEF CreateItem, Inv, ThreadsHonest, Honest, observers, Whole, SprintKey
<1>2. new.pc = pc /\ new.lines = rest
  BY <1>1 DEF IsThread
<1>3. /\ Len(lines) \in Nat /\ Len(lines) >= 1 /\ Len(rest) = Len(lines) - 1
      /\ \A i \in 1 .. Len(rest) : i + 1 \in 1 .. Len(lines) /\ rest[i] = lines[i + 1]
  BY <1>1
<1>4. DOMAIN item = {one} /\ (one # {} => Apart(item))
  BY BagOfOne, ApartOne
<1>5. DOMAIN pending' = DOMAIN pending \cup {one}
  BY <1>1, <1>4, BagsMerge
<1> HIDE DEF item, rest, new
<1>6. UNION DOMAIN pending' = (UNION DOMAIN pending) \cup one /\ Billed' = Billed \cup one
  BY <1>1, <1>5 DEF Billed
<1>7. pc \in {"items", "invoice"} /\ pc \in Billing
  BY DEF Billing
<1> HIDE DEF pc, one
<1>8. ASSUME Whole
      PROVE  /\ Apart(pending') /\ Apart(invoiced')
             /\ (UNION DOMAIN pending') \cap (UNION DOMAIN invoiced') = {}
             /\ Unbilled(new, Billed')
  <2>1. /\ Apart(pending) /\ Apart(invoiced)
        /\ (UNION DOMAIN pending) \cap (UNION DOMAIN invoiced) = {}
        /\ Unbilled(me, Billed)
    BY <1>1, <1>8, BillsBefore
  <2>2. /\ \A i \in 1 .. Len(lines) : lines[i].keys # {} /\ lines[i].keys \cap Billed = {}
        /\ \A i, j \in 1 .. Len(lines) : i # j => lines[i].keys \cap lines[j].keys = {}
    BY <1>1, <2>1 DEF Unbilled
  <2>3. one # {} /\ one \cap Billed = {} /\ 1 \in 1 .. Len(lines)
    BY <1>3, <2>2 DEF one
  <2>4. one \cap (UNION DOMAIN pending) = {} /\ one \cap (UNION DOMAIN invoiced) = {}
    BY <2>3 DEF Billed
  <2>5. Apart(pending')
    <3>1. UNION DOMAIN item = one
      BY <1>4
    <3>2. QED
      BY <1>1, <1>4, <2>1, <2>3, <2>4, <3>1, ApartMerge
  <2>6. (UNION DOMAIN pending') \cap (UNION DOMAIN invoiced') = {}
    BY <1>1, <1>6, <2>1, <2>4
  <2>7. \A i \in 1 .. Len(rest) : rest[i].keys # {} /\ rest[i].keys \cap (Billed \cup one) = {}
    <3>1. ASSUME NEW i \in 1 .. Len(rest)
          PROVE  rest[i].keys # {} /\ rest[i].keys \cap Billed = {} /\ rest[i].keys \cap one = {}
      <4>1. i + 1 \in 1 .. Len(lines) /\ rest[i] = lines[i + 1] /\ i + 1 # 1
        BY <1>3, <3>1
      <4>2. QED
        BY <2>2, <2>3, <4>1 DEF one
    <3>2. QED
      BY <3>1
  <2>8. ASSUME NEW i \in 1 .. Len(rest), NEW j \in 1 .. Len(rest), i # j
        PROVE  rest[i].keys \cap rest[j].keys = {}
    <3>1. /\ i + 1 \in 1 .. Len(lines) /\ rest[i] = lines[i + 1]
          /\ j + 1 \in 1 .. Len(lines) /\ rest[j] = lines[j + 1] /\ i + 1 # j + 1
      BY <1>3, <2>8
    <3>2. QED
      BY <2>2, <3>1
  <2>9. Unbilled(new, Billed')
    BY <1>2, <1>6, <1>7, <2>7, <2>8 DEF Unbilled
  <2>10. QED
    BY <1>1, <2>1, <2>5, <2>6, <2>9
<1>9. QED
  BY <1>1, <1>2, <1>7, <1>8, BillsGoOn

\* The pending items become those of the invoice.
LEMMA CreateInvoiceBills ==
    ASSUME Inv, TurnInv, BillsInv, NEW p \in Threads, CreateInvoice(p)
    PROVE  BillsInv'
<1> DEFINE new == [thread[p] EXCEPT !.pc = "finish"]
<1>1. /\ thread[p].pc = "invoice" /\ IsThread(thread[p]) /\ Go(p, new)
      /\ invoiced' = invoiced (+) pending /\ pending' = EmptyBag /\ (Whole' => Whole)
  BY DEF CreateInvoice, Inv, ThreadsHonest, observers, Whole
<1>2. new.pc = "finish"
  BY <1>1 DEF IsThread
<1> HIDE DEF new
<1>3. DOMAIN invoiced' = DOMAIN invoiced \cup DOMAIN pending /\ DOMAIN pending' = {}
  BY <1>1, BagsMerge, BagOfOne
<1>4. new.pc \in Billing /\ Unbilled(new, Billed')
  BY <1>2, Unburdened DEF Billing
<1>5. ASSUME Whole
      PROVE  /\ Apart(pending') /\ Apart(invoiced')
             /\ (UNION DOMAIN pending') \cap (UNION DOMAIN invoiced') = {}
  <2>1. /\ Apart(pending) /\ Apart(invoiced)
        /\ (UNION DOMAIN pending) \cap (UNION DOMAIN invoiced) = {}
    BY <1>1, <1>5, BillsBefore
  <2>2. Apart(invoiced')
    BY <1>1, <2>1, ApartMerge
  <2>3. Apart(pending')
    BY <1>3 DEF Apart
  <2>4. QED
    BY <1>3, <2>2, <2>3
<1>6. QED
  BY <1>1, <1>4, <1>5, BillsGoOn

\* The steps of a thread that change neither bills nor the row.
LEMMA LocalStepBills ==
    ASSUME Inv, TurnInv, BillsInv, NEW p \in Threads,
           \/ BillingFails(p) \/ Deliver(p) \/ DeliveryFails(p) \/ PrepareReset(p)
           \/ ReadForPatch(p, "finish", "write_invoice")
           \/ ReadForPatch(p, "save_report", "write_report")
    PROVE  BillsInv'
<1> DEFINE me      == thread[p]
           started == Merged(BuiltPlan)
           plan    == IF me.then = "refill" THEN started ELSE NoPlan
           reset   == [Idle EXCEPT !.pc = "write_reset", !.then = me.then, !.today = me.today,
                          !.number = sprint.number + 1, !.plan = plan]
           read(next) == [me EXCEPT !.pc = next, !.plan = sprint.plan]
           sent    == [me EXCEPT !.pc = "save_report"]
<1>1. /\ IsThread(me) /\ me.pc # "idle" /\ UNCHANGED <<sprint, stripe>> /\ (Whole' => Whole)
      /\ SprintKey' = SprintKey
  BY DEF Inv, ThreadsHonest, BillingFails, Deliver, DeliveryFails, PrepareReset, ReadForPatch,
         observers, Whole, SprintKey
<1>2. ASSUME NEW new, Go(p, new), Unbilled(new, Billed), me.pc \in Billing => new.pc \in Billing
      PROVE  BillsInv'
  BY <1>1, <1>2, BillsSettled
<1>3. CASE BillingFails(p)
  BY <1>3 DEF BillingFails, BillsInv, Whole
<1>4. CASE Deliver(p)
  <2>1. Go(p, sent) /\ me.pc \notin Billing
    BY <1>4 DEF Deliver, Billing
  <2>2. sent.pc = "save_report"
    BY <1>1 DEF IsThread
  <2> HIDE DEF sent
  <2>3. QED
    BY <1>2, <2>1, <2>2, Unburdened
<1>5. CASE DeliveryFails(p)
  <2>1. Go(p, AfterReport(me)) /\ me.pc \notin Billing
    BY <1>5 DEF DeliveryFails, Billing
  <2>2. Unbilled(AfterReport(me), Billed)
    BY <1>1, AfterReportFree, Unburdened DEF Free
  <2>3. QED
    BY <1>2, <2>1, <2>2
<1>6. CASE PrepareReset(p)
  <2>1. Go(p, reset) /\ me.pc \notin Billing
    BY <1>6 DEF PrepareReset, Billing
  <2>2. Listed(plan) \cap Billed = {}
    BY PlansAreUnbilled
  <2> HIDE DEF plan
  <2>3. reset.pc = "write_reset" /\ reset.plan = plan
    BY DEF Idle
  <2> HIDE DEF reset
  <2>4. Unbilled(reset, Billed)
    BY <2>2, <2>3 DEF Unbilled
  <2>5. QED
    BY <1>2, <2>1, <2>4
<1>7. \A next : read(next).pc = next
  BY <1>1 DEF IsThread
<1>8. CASE ReadForPatch(p, "finish", "write_invoice")
  <2>1. Go(p, read("write_invoice"))
    BY <1>8 DEF ReadForPatch
  <2>2. read("write_invoice").pc = "write_invoice"
    BY <1>7
  <2> HIDE DEF read
  <2>3. read("write_invoice").pc \in Billing /\ Unbilled(read("write_invoice"), Billed)
    BY <2>2, Unburdened DEF Billing
  <2>4. QED
    BY <1>2, <2>1, <2>3
<1>9. CASE ReadForPatch(p, "save_report", "write_report")
  <2>1. Go(p, read("write_report")) /\ me.pc \notin Billing
    BY <1>9 DEF ReadForPatch, Billing
  <2>2. read("write_report").pc = "write_report"
    BY <1>7
  <2> HIDE DEF read
  <2>3. Unbilled(read("write_report"), Billed)
    BY <2>2, Unburdened
  <2>4. QED
    BY <1>2, <2>1, <2>3
<1>10. QED
  BY <1>3, <1>4, <1>5, <1>6, <1>8, <1>9

LEMMA RowWriteBills ==
    ASSUME Inv, TurnInv, BillsInv, NEW p \in Threads,
           WriteInvoiceKey(p) \/ WriteReportKey(p) \/ WriteReset(p) \/ WriteRebuild(p)
    PROVE  BillsInv'
<1> DEFINE me    == thread[p]
           after == [me EXCEPT !.plan = NoPlan]
<1>1. /\ IsThread(me) /\ me.pc # "idle" /\ RowHonest /\ (Whole' => Whole) /\ UNCHANGED stripe
  BY DEF Inv, ThreadsHonest, WriteInvoiceKey, WriteReportKey, WriteReset, WriteRebuild, observers,
         Whole
<1>2. ASSUME NEW new, Go(p, new), Unbilled(new, Billed),
             Fits(me, sprint) /\ Unbilled(me, Billed)
             /\ (RowBilled(sprint, SprintKey, Billed) \/ me.pc \in Billing) =>
                  RowBilled(sprint', SprintKey', Billed)
      PROVE  BillsInv'
  BY <1>1, <1>2, BillsSettled
<1>3. Unbilled(Idle, Billed)
  BY IdleIsFree, Unburdened
<1>4. CASE WriteInvoiceKey(p)
  <2>1. /\ sprint' = [sprint EXCEPT !.plan = me.plan, !.invoiceKey = me.key]
        /\ me.pc = "write_invoice" /\ Go(p, Composing(me))
    BY <1>4 DEF WriteInvoiceKey
  <2>2. /\ sprint'.number = sprint.number /\ sprint'.end = sprint.end
        /\ sprint'.invoiceKey = me.key
    BY <1>1, <2>1 DEF RowHonest
  <2>3. Fits(me, sprint) => RowBilled(sprint', SprintKey', Billed)
    BY <2>1, <2>2 DEF Fits, Reporting, Billing, RowBilled, SprintKey
  <2>4. Unbilled(Composing(me), Billed)
    BY <1>1, ComposingSame, Unburdened
  <2>5. QED
    BY <1>2, <2>1, <2>3, <2>4
<1>5. CASE WriteReportKey(p)
  <2>1. /\ sprint' = [sprint EXCEPT !.plan = me.plan, !.reportKey = me.key]
        /\ me.pc = "write_report" /\ Go(p, AfterReport(after))
    BY <1>5 DEF WriteReportKey
  <2>2. /\ sprint'.number = sprint.number /\ sprint'.end = sprint.end
        /\ sprint'.plan = me.plan /\ sprint'.invoiceKey = sprint.invoiceKey
    BY <1>1, <2>1 DEF RowHonest
  <2>3. me.pc \notin Billing /\ SprintKey' = SprintKey
    BY <2>1, <2>2 DEF Billing, SprintKey
  <2>4. Fits(me, sprint) /\ RowBilled(sprint, SprintKey, Billed) =>
            RowBilled(sprint', SprintKey', Billed)
    BY <2>1, <2>2, <2>3 DEF Fits, RowBilled
  <2>5. IsThread(after)
    BY <1>1 DEF IsThread
  <2> HIDE DEF after
  <2>6. Unbilled(AfterReport(after), Billed)
    BY <2>5, AfterReportFree, Unburdened DEF Free
  <2>7. QED
    BY <1>2, <2>1, <2>3, <2>4, <2>6
<1>6. CASE WriteReset(p)
  <2>1. /\ sprint' = [sprint EXCEPT !.plan = me.plan, !.number = me.number, !.manual = FALSE,
                         !.start = me.today, !.end = me.today + Duration - 1]
        /\ me.pc = "write_reset" /\ Go(p, Idle)
    BY <1>6 DEF WriteReset
  <2>2. sprint'.plan = me.plan
    BY <1>1, <2>1 DEF RowHonest
  <2>3. Unbilled(me, Billed) => RowBilled(sprint', SprintKey', Billed)
    BY <2>1, <2>2 DEF Unbilled, RowBilled
  <2>4. QED
    BY <1>2, <1>3, <2>1, <2>3
<1>7. CASE WriteRebuild(p)
  <2>1. /\ sprint' = [sprint EXCEPT !.plan = me.plan]
        /\ me.pc = "write_plan" /\ Go(p, Idle)
    BY <1>7 DEF WriteRebuild
  <2>2. sprint'.plan = me.plan
    BY <1>1, <2>1 DEF RowHonest
  <2>3. Unbilled(me, Billed) => RowBilled(sprint', SprintKey', Billed)
    BY <2>1, <2>2 DEF Unbilled, RowBilled
  <2>4. QED
    BY <1>2, <1>3, <2>1, <2>3
<1>8. QED
  BY <1>4, <1>5, <1>6, <1>7

\* A human selects among tickets whose work has not started.
LEMMA SelectBills ==
    ASSUME Inv, BillsInv, NEW S \in SUBSET Tickets, Select(S)
    PROVE  BillsInv'
<1> DEFINE plan == [t \in Tickets |-> IF t \in S THEN "selected" ELSE "absent"]
<1>1. /\ sprint' = [sprint EXCEPT !.manual = TRUE, !.plan = plan]
      /\ S \subseteq ReadyEstimated
      /\ UNCHANGED <<stripe, thread>> /\ (Whole' => Whole)
  BY DEF Select, Whole
<1>2. Listed(plan) \cap Billed = {}
  BY <1>1, PlansAreUnbilled DEF Listed
<1> HIDE DEF plan
<1>3. sprint'.plan = plan
  BY <1>1 DEF Inv, RowHonest
<1>4. Billed' = Billed /\ pending' = pending /\ invoiced' = invoiced
  BY <1>1 DEF stripe, Billed
<1>5. QED
  BY <1>1, <1>2, <1>3, <1>4 DEF BillsInv

LEMMA StepBills == Inv /\ TurnInv /\ BillsInv /\ [Next]_vars => BillsInv'
<1> SUFFICES ASSUME Inv, TurnInv, BillsInv, [Next]_vars PROVE BillsInv'
  OBVIOUS
<1>1. ASSUME NEW p \in Threads, ThreadStep(p) PROVE BillsInv'
  BY <1>1, CheckBills, CreateItemBills, CreateInvoiceBills, LocalStepBills, RowWriteBills
     DEF ThreadStep
<1>2. ASSUME NEW p \in Threads, Call(p) PROVE BillsInv'
  BY <1>2, CallBills
<1>3. ASSUME NEW S \in SUBSET Tickets, Select(S) PROVE BillsInv'
  BY <1>3, SelectBills
<1>4. CASE Crash
  BY <1>4 DEF Crash, BillsInv, Whole
<1>5. CASE Outside /\ ~Crash
  <2>1. UNCHANGED <<sprint, pending, invoiced, thread, incidents>>
    BY <1>5 DEF Outside, NextDay, Promote, CompleteOrder, Analyse, vars, stripe, observers
  <2>2. Billed' = Billed /\ Invoiced(SprintKey)' = Invoiced(SprintKey)
    BY <2>1 DEF Billed, Invoiced, SprintKey
  <2>3. QED
    BY <2>1, <2>2 DEF BillsInv, Whole
<1>6. QED
  BY <1>1, <1>2, <1>3, <1>4, <1>5 DEF Next, Outside

LEMMA InitBills == Init => BillsInv
<1> SUFFICES ASSUME Init PROVE BillsInv
  OBVIOUS
<1>1. DOMAIN pending = {} /\ DOMAIN invoiced = {}
  BY BagOfOne DEF Init
<1>2. Apart(pending) /\ Apart(invoiced) /\ Billed = {} /\ UNION DOMAIN pending = {}
  BY <1>1 DEF Apart, Billed
<1>3. \A p \in Threads : Unbilled(thread[p], Billed)
  BY IdleIsFree, Unburdened DEF Init
<1>4. QED
  BY <1>2, <1>3 DEF BillsInv

\* As long as no Stripe call fails, the server does not stop and no two threads overlap, a
\* ticket is on at most one invoice item: reports may be retried or forced, sprints rolled
\* over, plans rebuilt (create_sprint_invoice is not called for a key the memory has; the
\* plan of a new sprint has no ticket whose work is completed).
THEOREM WorkIsBilledOnce == Spec => []BilledOnce
<1>1. BillsInv => BilledOnce
  <2> SUFFICES ASSUME BillsInv, Whole PROVE /\ \A s \in BagToSet(Items) : Items[s] = 1
                                            /\ \A s, u \in BagToSet(Items) : s # u => s \cap u = {}
    BY DEF BilledOnce, Whole
  <2>1. Apart(Items)
    BY ApartMerge DEF BillsInv, Items
  <2>2. QED
    BY <2>1 DEF Apart, BagToSet
<1>2. QED
  BY <1>1, InitHonest, StepHonest, InitTurn, StepTurn, InitBills, StepBills, PTL DEF Spec
=============================================================================
