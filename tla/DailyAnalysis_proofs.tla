------------------------- MODULE DailyAnalysis_proofs -------------------------
(***************************************************************************)
(* Theorems about the daily analysis, for every number of tickets, threads *)
(* and runs, and every environment: a stored verdict is not older than its *)
(* hash and never replaced by one of an older text, a human's estimate     *)
(* stands until the ticket is analysed anew, a decided proposal for good.  *)
(***************************************************************************)
EXTENDS DailyAnalysis, FiniteSetTheorems, TLAPS

\* A row of readiness_records: without an error, its verdict is not older than its hash.
IsRow(r) ==
    /\ r \in [status : {r.status}, of : Nat, hash : Nat, error : BOOLEAN, days : {r.days}]
    /\ r.status # "none" /\ r.error = FALSE => r.of >= r.hash

\* Nothing that is stored of a ticket is newer than the ticket.
Known(r, now) == r.of <= now /\ r.hash <= now

RecordsInv ==
    /\ jira \in [Tickets -> Nat]
    /\ record = [t \in Tickets |-> record[t]]
    /\ \A t \in Tickets : IsRow(record[t]) /\ Known(record[t], jira[t])

\* A thread has the fields of one, with an outcome for each ticket.
IsThread(r) ==
    /\ r \in [pc : {r.pc}, run : {r.run}, force : {r.force}, todo : {r.todo}, busy : {r.busy},
              seen : {r.seen}, got : {r.got}, read : {r.read}]
    /\ r.got = [t \in Tickets |-> r.got[t]]

\* A verdict an analysis holds is not older than the version it has read; before it has
\* read anything it holds none.
Answered == {"success", "cached"}
Holds(got, seen, now) ==
    /\ seen \in Nat /\ seen <= now
    /\ got.kind \in Answered => got.of \in Nat /\ seen <= got.of /\ got.of <= now
HoldsVerdicts(r) ==
    /\ r.pc \in {"lock", "reserve", "fetch"} => \A t \in Tickets : r.got[t].kind \notin Answered
    /\ r.pc = "analyse" => \A t \in Tickets : Holds(r.got[t], r.seen[t], jira[t])

ThreadsInv ==
    /\ thread = [p \in Threads |-> thread[p]]
    /\ \A p \in Threads : IsThread(thread[p]) /\ HoldsVerdicts(thread[p])

\* What the first theorem needs: how verdicts and versions go together in the rows and
\* on their way there.
VerdictInv == RecordsInv /\ ThreadsInv

----------------------------------------------------------------------------
(* Verdicts. *)

LEMMA IdleHolds == IsThread(Idle) /\ HoldsVerdicts(Idle)
BY DEF IsThread, HoldsVerdicts, Idle, Waiting, Answered

LEMMA ThreadGoesOn ==
    ASSUME ThreadsInv, NEW p \in Threads, NEW new, Go(p, new), IsThread(new), HoldsVerdicts(new),
           jira' = jira
    PROVE  ThreadsInv'
<1>1. thread' = [q \in Threads |-> thread'[q]]
      /\ \A q \in Threads : thread'[q] = IF q = p THEN new ELSE thread[q]
  BY DEF ThreadsInv, Go
<1>2. QED
  BY <1>1 DEF ThreadsInv, IsThread, HoldsVerdicts

LEMMA ThreadOnly ==
    ASSUME VerdictInv, NEW p \in Threads, NEW new, Go(p, new), IsThread(new),
           HoldsVerdicts(new), record' = record, jira' = jira
    PROVE  VerdictInv'
BY ThreadGoesOn DEF VerdictInv, RecordsInv

LEMMA FreshThreads ==
    ASSUME NEW pc, pc # "analyse", NEW run, NEW force
    PROVE  LET new == [Idle EXCEPT !.pc = pc, !.run = run, !.force = force]
           IN  IsThread(new) /\ HoldsVerdicts(new)
BY DEF IsThread, HoldsVerdicts, Idle, Waiting, Answered

LEMMA StartStep ==
    ASSUME VerdictInv, NEW p \in Threads,
           \/ \E force \in BOOLEAN : Request(p, force)
           \/ Scheduled(p) \/ Scan(p) \/ RefreshCommunications(p)
    PROVE  VerdictInv'
<1>1. ASSUME NEW force, Request(p, force) PROVE VerdictInv'
  <2> DEFINE new == [Idle EXCEPT !.pc = "lock", !.run = NextRun, !.force = force]
  <2>1. IsThread(new) /\ HoldsVerdicts(new)
    BY FreshThreads
  <2>2. Go(p, new) /\ record' = record /\ jira' = jira
    BY <1>1 DEF Request
  <2> HIDE DEF new
  <2>3. QED
    BY <2>1, <2>2, ThreadOnly
<1>2. ASSUME NEW pc, pc # "analyse", Go(p, [Idle EXCEPT !.pc = pc]), record' = record,
             jira' = jira
      PROVE  VerdictInv'
  <2> DEFINE new == [Idle EXCEPT !.pc = pc]
  <2>1. IsThread(new) /\ HoldsVerdicts(new)
    BY <1>2 DEF IsThread, HoldsVerdicts, Idle, Waiting, Answered
  <2>2. Go(p, new)
    BY <1>2
  <2> HIDE DEF new
  <2>3. QED
    BY <1>2, <2>1, <2>2, ThreadOnly
<1>3. CASE Scheduled(p)
  BY <1>2, <1>3 DEF Scheduled, rows
<1>4. CASE RefreshCommunications(p)
  BY <1>2, <1>4 DEF RefreshCommunications, rows
<1>5. CASE Scan(p)
  BY <1>2, <1>5 DEF Scan, rows
<1>6. QED
  BY <1>1, <1>3, <1>4, <1>5

\* Steps to and from the analysis that leave the records alone.
LEMMA AroundStep ==
    ASSUME VerdictInv, NEW p \in Threads,
           \/ AcquireLock(p) \/ ReserveLate(p) \/ GiveUp(p) \/ Fetch(p) \/ PipelineFails(p)
           \/ RequestFails(p) \/ Qualify(p) \/ Complete(p)
    PROVE  VerdictInv'
<1> DEFINE me == thread[p]
<1>1. IsThread(me) /\ HoldsVerdicts(me)
  BY DEF VerdictInv, ThreadsInv
<1>2. CASE AcquireLock(p)
  <2> DEFINE pc  == IF me.run = 0 THEN "reserve" ELSE "fetch"
             new == [me EXCEPT !.pc = pc]
  <2>1. Go(p, new) /\ UNCHANGED <<record, jira>> /\ me.pc = "lock"
    BY <1>2 DEF AcquireLock, rows
  <2>2. IsThread(new) /\ new.pc = pc /\ new.got = me.got
    BY <1>1 DEF IsThread
  <2> HIDE DEF new
  <2>3. HoldsVerdicts(new)
    BY <1>1, <2>1, <2>2 DEF HoldsVerdicts
  <2>4. QED
    BY <2>1, <2>2, <2>3, ThreadOnly
<1>3. CASE ReserveLate(p)
  <2> DEFINE id  == NextRun
             new == [me EXCEPT !.pc = "fetch", !.run = id]
  <2>1. Go(p, new) /\ UNCHANGED <<record, jira>> /\ me.pc = "reserve"
    BY <1>3 DEF ReserveLate
  <2> HIDE DEF id
  <2>2. IsThread(new) /\ new.pc = "fetch" /\ new.got = me.got
    BY <1>1 DEF IsThread
  <2> HIDE DEF new
  <2>3. HoldsVerdicts(new)
    BY <1>1, <2>1, <2>2 DEF HoldsVerdicts
  <2>4. QED
    BY <2>1, <2>2, <2>3, ThreadOnly
<1>4. CASE GiveUp(p)
  BY <1>4, IdleHolds, ThreadOnly DEF GiveUp, rows
<1>5. CASE Fetch(p)
  <2> DEFINE new == [me EXCEPT !.pc = "analyse", !.seen = jira, !.todo = Tickets]
  <2>1. Go(p, new) /\ UNCHANGED <<record, jira>> /\ me.pc = "fetch"
    BY <1>5 DEF Fetch, rows
  <2>2. IsThread(new) /\ new.pc = "analyse" /\ new.got = me.got /\ new.seen = jira
    BY <1>1 DEF IsThread
  <2> HIDE DEF new
  <2>3. \A t \in Tickets : new.got[t].kind \notin Answered
    BY <1>1, <2>1, <2>2 DEF HoldsVerdicts
  <2>4. HoldsVerdicts(new)
    BY <2>2, <2>3 DEF HoldsVerdicts, Holds, VerdictInv, RecordsInv
  <2>5. QED
    BY <2>1, <2>2, <2>4, ThreadOnly
<1>6. CASE PipelineFails(p)
  BY <1>6, IdleHolds, ThreadOnly DEF PipelineFails, End
<1>7. CASE Qualify(p)
  <2> DEFINE new == [me EXCEPT !.pc = "propose", !.read = record]
  <2>1. Go(p, new) /\ UNCHANGED <<record, jira>>
    BY <1>7 DEF Qualify, rows
  <2>2. IsThread(new) /\ new.pc = "propose"
    BY <1>1 DEF IsThread
  <2> HIDE DEF new
  <2>3. HoldsVerdicts(new)
    BY <2>2 DEF HoldsVerdicts
  <2>4. QED
    BY <2>1, <2>2, <2>3, ThreadOnly
<1>8. CASE Complete(p)
  BY <1>8, IdleHolds, ThreadOnly DEF Complete, End
<1>9. CASE RequestFails(p)
  BY <1>9, IdleHolds, ThreadOnly DEF RequestFails, rows
<1>10. QED
  BY <1>2, <1>3, <1>4, <1>5, <1>6, <1>7, <1>8, <1>9

\* A ticket is taken, or an outcome received.
LEMMA OutcomeReceived ==
    ASSUME VerdictInv, NEW p \in Threads, NEW t \in Tickets, NEW todo, NEW busy, NEW outcome,
           thread[p].pc = "analyse", Holds(outcome, thread[p].seen[t], jira[t]),
           Go(p, [thread[p] EXCEPT !.todo = todo, !.busy = busy, !.got[t] = outcome]),
           UNCHANGED <<record, jira>>
    PROVE  VerdictInv'
<1> DEFINE me  == thread[p]
           new == [me EXCEPT !.todo = todo, !.busy = busy, !.got[t] = outcome]
<1>1. IsThread(me) /\ HoldsVerdicts(me)
  BY DEF VerdictInv, ThreadsInv
<1>2. /\ IsThread(new) /\ new.pc = "analyse" /\ new.seen = me.seen
      /\ new.got = [me.got EXCEPT ![t] = outcome]
  BY <1>1 DEF IsThread
<1>3. Go(p, new)
  OBVIOUS
<1> HIDE DEF new
<1>4. \A u \in Tickets : new.got[u] = IF u = t THEN outcome ELSE me.got[u]
  BY <1>1, <1>2 DEF IsThread
<1>5. HoldsVerdicts(new)
  BY <1>1, <1>2, <1>4 DEF HoldsVerdicts
<1>6. QED
  BY <1>2, <1>3, <1>5, ThreadOnly

LEMMA AnalysisStep ==
    ASSUME VerdictInv, NEW p \in Threads, NEW t \in Tickets,
           TakeTicket(p, t) \/ AgentAnswers(p, t) \/ AgentFails(p, t) \/ AgentTimesOut(p, t)
    PROVE  VerdictInv'
<1> DEFINE me == thread[p]
<1>1. IsThread(me) /\ HoldsVerdicts(me)
  BY DEF VerdictInv, ThreadsInv
<1>2. ASSUME NEW outcome, Receive(p, t, outcome), UNCHANGED <<record, jira>>,
             outcome.kind \in Answered => outcome.of = me.seen[t]
      PROVE  VerdictInv'
  <2>1. [me EXCEPT !.busy = @ \ {t}, !.got[t] = outcome]
        = [me EXCEPT !.todo = me.todo, !.busy = me.busy \ {t}, !.got[t] = outcome]
    BY <1>1 DEF IsThread
  <2>2. Holds(outcome, me.seen[t], jira[t])
    BY <1>1, <1>2 DEF Receive, HoldsVerdicts, Holds
  <2>3. QED
    BY <1>2, <2>1, <2>2, OutcomeReceived DEF Receive
<1>3. CASE TakeTicket(p, t)
  <2>1. me.pc = "analyse" /\ UNCHANGED <<record, jira>>
    BY <1>3 DEF TakeTicket, rows
  <2>2. CASE Hit(p, t) /\ Go(p, [me EXCEPT !.todo = @ \ {t}, !.got[t] = Cached(t)])
    <3>1. /\ IsRow(record[t]) /\ Known(record[t], jira[t]) /\ Reusable(t)
          /\ record[t].hash = me.seen[t] /\ Cached(t).of = record[t].of
      BY <2>2 DEF VerdictInv, RecordsInv, Hit, Cached
    <3>2. record[t].of >= me.seen[t] /\ record[t].of \in Nat /\ record[t].of <= jira[t]
      BY <3>1 DEF IsRow, Known, Reusable
    <3>3. me.seen[t] \in Nat /\ me.seen[t] <= jira[t]
      BY <1>1, <2>1 DEF HoldsVerdicts, Holds
    <3> DEFINE outcome == Cached(t)
    <3>4. outcome.of = record[t].of
      BY <3>1
    <3> HIDE DEF outcome
    <3>5. Holds(outcome, me.seen[t], jira[t])
      BY <3>2, <3>3, <3>4 DEF Holds
    <3>6. [me EXCEPT !.todo = @ \ {t}, !.got[t] = outcome]
          = [me EXCEPT !.todo = me.todo \ {t}, !.busy = me.busy, !.got[t] = outcome]
      BY <1>1 DEF IsThread
    <3>7. Go(p, [me EXCEPT !.todo = @ \ {t}, !.got[t] = outcome])
      BY <2>2 DEF outcome
    <3>8. Go(p, [me EXCEPT !.todo = me.todo \ {t}, !.busy = me.busy, !.got[t] = outcome])
      BY <3>6, <3>7
    <3>9. QED
      BY <2>1, <3>5, <3>8, OutcomeReceived
  <2>3. CASE Go(p, [me EXCEPT !.todo = @ \ {t}, !.busy = @ \cup {t}])
    <3> DEFINE new == [me EXCEPT !.todo = @ \ {t}, !.busy = @ \cup {t}]
    <3>1. IsThread(new) /\ new.pc = me.pc /\ new.got = me.got /\ new.seen = me.seen
      BY <1>1 DEF IsThread
    <3>2. Go(p, new)
      BY <2>3
    <3> HIDE DEF new
    <3>3. HoldsVerdicts(new)
      BY <1>1, <3>1 DEF HoldsVerdicts
    <3>4. QED
      BY <2>1, <3>1, <3>2, <3>3, ThreadOnly
  <2>4. QED
    BY <1>3, <2>2, <2>3 DEF TakeTicket
<1>4. CASE AgentAnswers(p, t)
  <2>1. PICK answer \in Answers :
           Receive(p, t, [kind |-> "success", status |-> answer[1], of |-> me.seen[t],
                          days |-> answer[2]])
    BY <1>4 DEF AgentAnswers
  <2>2. UNCHANGED <<record, jira>>
    BY <1>4 DEF AgentAnswers, rows
  <2>3. QED
    BY <1>2, <2>1, <2>2
<1>5. ASSUME Receive(p, t, [Waiting EXCEPT !.kind = "failed"]), UNCHANGED <<record, jira>>
      PROVE  VerdictInv'
  <2>1. [Waiting EXCEPT !.kind = "failed"].kind \notin Answered
    BY DEF Waiting, Answered
  <2>2. QED
    BY <1>2, <1>5, <2>1
<1>6. CASE AgentFails(p, t)
  BY <1>5, <1>6 DEF AgentFails, rows
<1>7. CASE AgentTimesOut(p, t)
  BY <1>5, <1>7 DEF AgentTimesOut, rows
<1>8. QED
  BY <1>3, <1>4, <1>6, <1>7

----------------------------------------------------------------------------
(* Steps that write records. *)

\* What is stored of an outcome keeps verdict and hash in order.
LEMMA StoredIsRow ==
    ASSUME NEW t \in Tickets, NEW got, NEW seen, IsRow(record[t]), Known(record[t], jira[t]),
           jira[t] \in Nat, Holds(got, seen, jira[t])
    PROVE  IsRow(Stored(t, got, seen)) /\ Known(Stored(t, got, seen), jira[t])
<1>1. CASE got.kind \in Answered
  BY <1>1 DEF Stored, IsRow, Known, Holds, Answered
<1>2. CASE got.kind \notin Answered /\ record[t].status = "none"
  BY <1>2 DEF Stored, IsRow, Known, Holds, NoRecord, Answered
<1>3. CASE got.kind \notin Answered /\ record[t].status # "none"
  BY <1>3 DEF Stored, IsRow, Known, Holds, Answered
<1>4. QED
  BY <1>1, <1>2, <1>3

LEMMA StoreStep ==
    ASSUME VerdictInv, NEW p \in Threads, StoreOutcomes(p)
    PROVE  VerdictInv'
<1> DEFINE me   == thread[p]
           next == [Idle EXCEPT !.pc = "qualify", !.run = me.run]
           new  == IF me.run = 0 THEN Idle ELSE next
<1>1. /\ me.pc = "analyse" /\ Go(p, new) /\ jira' = jira
      /\ record' = [t \in Tickets |-> Stored(t, me.got[t], me.seen[t])]
  BY DEF StoreOutcomes
<1>2. ASSUME NEW t \in Tickets
      PROVE  /\ IsRow(Stored(t, me.got[t], me.seen[t]))
             /\ Known(Stored(t, me.got[t], me.seen[t]), jira[t])
  <2>1. /\ IsRow(record[t]) /\ Known(record[t], jira[t]) /\ jira[t] \in Nat
        /\ Holds(me.got[t], me.seen[t], jira[t])
    BY <1>1 DEF VerdictInv, RecordsInv, ThreadsInv, HoldsVerdicts
  <2>2. QED
    BY <2>1, StoredIsRow
<1>3. RecordsInv'
  BY <1>1, <1>2 DEF RecordsInv, VerdictInv
<1>4. IsThread(next) /\ HoldsVerdicts(next)
  BY DEF IsThread, HoldsVerdicts, Idle
<1> HIDE DEF next
<1>5. ThreadsInv'
  BY <1>1, <1>4, IdleHolds, ThreadGoesOn DEF VerdictInv
<1>6. QED
  BY <1>3, <1>5 DEF VerdictInv

\* An estimate alone does not touch what the verdict is of.
LEMMA EstimateKeepsRow ==
    ASSUME NEW r, NEW now, IsRow(r), Known(r, now), NEW days
    PROVE  LET new == [r EXCEPT !.days = days]
           IN  IsRow(new) /\ Known(new, now) /\ new.of = r.of
BY DEF IsRow, Known

LEMMA ProposeStep ==
    ASSUME VerdictInv, NEW p \in Threads, Propose(p)
    PROVE  VerdictInv' /\ \A t \in Tickets : record'[t].of = record[t].of
<1> DEFINE read == thread[p].read
           next == [Idle EXCEPT !.pc = "complete", !.run = thread[p].run]
           new  == IF thread[p].run = 0 THEN Idle ELSE next
<1>1. /\ record' = [t \in Tickets |-> IF Estimable(t, read)
                                      THEN [record[t] EXCEPT !.days = EstimateOf(read[t])]
                                      ELSE record[t]]
      /\ Go(p, new) /\ jira' = jira
  BY DEF Propose
<1>2. \A t \in Tickets : record'[t] = record[t]
                         \/ record'[t] = [record[t] EXCEPT !.days = EstimateOf(read[t])]
  BY <1>1
<1>3. ASSUME NEW t \in Tickets
      PROVE  IsRow(record'[t]) /\ Known(record'[t], jira[t]) /\ record'[t].of = record[t].of
  <2> DEFINE days == EstimateOf(read[t])
  <2>1. IsRow(record[t]) /\ Known(record[t], jira[t])
    BY DEF VerdictInv, RecordsInv
  <2>2. record'[t] = record[t] \/ record'[t] = [record[t] EXCEPT !.days = days]
    BY <1>2
  <2> HIDE DEF days
  <2> DEFINE row == [record[t] EXCEPT !.days = days]
  <2>3. IsRow(row) /\ Known(row, jira[t]) /\ row.of = record[t].of
    BY <2>1, EstimateKeepsRow
  <2> HIDE DEF row
  <2>4. record'[t] = record[t] \/ record'[t] = row
    BY <2>2 DEF row
  <2>5. QED
    BY <2>1, <2>3, <2>4
<1>4. RecordsInv'
  BY <1>1, <1>3 DEF RecordsInv, VerdictInv
<1>5. IsThread(next) /\ HoldsVerdicts(next)
  BY DEF IsThread, HoldsVerdicts, Idle
<1> HIDE DEF next
<1>6. ThreadsInv'
  BY <1>1, <1>5, IdleHolds, ThreadGoesOn DEF VerdictInv
<1>7. QED
  BY <1>3, <1>4, <1>6 DEF VerdictInv

\* One record is written, by a human's estimate or by a reanalysis.
LEMMA OneRowWritten ==
    ASSUME VerdictInv, NEW t \in Tickets, NEW new, record' = [record EXCEPT ![t] = new],
           IsRow(new), Known(new, jira[t]), UNCHANGED <<thread, jira>>
    PROVE  VerdictInv'
<1>1. /\ record' = [u \in Tickets |-> record'[u]]
      /\ \A u \in Tickets : record'[u] = IF u = t THEN new ELSE record[u]
  BY DEF VerdictInv, RecordsInv
<1>2. RecordsInv'
  BY <1>1 DEF VerdictInv, RecordsInv
<1>3. ThreadsInv'
  BY DEF VerdictInv, ThreadsInv, IsThread, HoldsVerdicts
<1>4. QED
  BY <1>2, <1>3 DEF VerdictInv

LEMMA HumanStep ==
    ASSUME VerdictInv, NEW t \in Tickets, EstimateByHand(t)
    PROVE  VerdictInv' /\ \A u \in Tickets : record'[u].of = record[u].of
<1> DEFINE new == [record[t] EXCEPT !.days = "human"]
<1>1. record' = [record EXCEPT ![t] = new] /\ UNCHANGED <<thread, jira>>
  BY DEF EstimateByHand
<1>2. IsRow(new) /\ Known(new, jira[t]) /\ new.of = record[t].of
  BY EstimateKeepsRow DEF VerdictInv, RecordsInv
<1> HIDE DEF new
<1>3. \A u \in Tickets : record'[u].of = record[u].of
  BY <1>1, <1>2 DEF VerdictInv, RecordsInv
<1>4. QED
  BY <1>1, <1>2, <1>3, OneRowWritten

\* A reanalysis stores a verdict of what it has read under the hash that was there.
LEMMA ReanalyzeWrites ==
    ASSUME NEW t \in Tickets, Reanalyze(t)
    PROVE  \E version \in {jira[t], record[t].of} : \E status, days :
              record' = [record EXCEPT ![t].status = status, ![t].of = version, ![t].days = days]
<1>1. PICK version \in {jira[t], record[t].of},
           answer \in Answers \cup {<<"analysis_failed", "analyst">>} :
         record' = [record EXCEPT ![t].status = answer[1], ![t].of = version,
                       ![t].days = Persistable([status |-> answer[1], days |-> answer[2]])]
  BY DEF Reanalyze
<1> DEFINE status == answer[1]
           days   == Persistable([status |-> answer[1], days |-> answer[2]])
<1>2. record' = [record EXCEPT ![t].status = status, ![t].of = version, ![t].days = days]
  BY <1>1
<1> HIDE DEF status, days
<1>3. QED
  BY <1>2

LEMMA ReanalyzedIsRow ==
    ASSUME NEW r, NEW now \in Nat, IsRow(r), Known(r, now), r.status # "none",
           NEW status, NEW days, NEW version \in {now, r.of}
    PROVE  LET new == [r EXCEPT !.status = status, !.of = version, !.days = days]
           IN  IsRow(new) /\ Known(new, now) /\ new.of >= r.of
<1> DEFINE new == [r EXCEPT !.status = status, !.of = version, !.days = days]
<1>1. /\ r.of \in Nat /\ r.hash \in Nat /\ r.of <= now /\ r.hash <= now
      /\ r.error = FALSE => r.of >= r.hash
  BY DEF IsRow, Known
<1>2. version \in Nat /\ version >= r.of /\ version <= now /\ (r.error = FALSE => version >= r.hash)
  BY <1>1
<1>3. /\ new.of = version /\ new.hash = r.hash /\ new.error = r.error
      /\ new \in [status : {new.status}, of : Nat, hash : Nat, error : BOOLEAN, days : {new.days}]
  BY <1>2 DEF IsRow
<1> HIDE DEF new
<1>4. IsRow(new) /\ Known(new, now) /\ new.of >= r.of
  BY <1>1, <1>2, <1>3 DEF IsRow, Known
<1>5. QED
  BY <1>4 DEF new

LEMMA ReanalyzeStep ==
    ASSUME VerdictInv, NEW t \in Tickets, Reanalyze(t)
    PROVE  VerdictInv' /\ \A u \in Tickets : record'[u].of >= record[u].of
<1>1. PICK version \in {jira[t], record[t].of} : \E status, days :
         record' = [record EXCEPT ![t].status = status, ![t].of = version, ![t].days = days]
  BY ReanalyzeWrites
<1>0. PICK status, days :
         record' = [record EXCEPT ![t].status = status, ![t].of = version, ![t].days = days]
  BY <1>1
<1> DEFINE new == [record[t] EXCEPT !.status = status, !.of = version, !.days = days]
<1>2. record' = [record EXCEPT ![t] = new]
  BY <1>0 DEF VerdictInv, RecordsInv
<1>3. /\ IsRow(record[t]) /\ Known(record[t], jira[t]) /\ jira[t] \in Nat
      /\ record[t].status # "none"
  BY DEF VerdictInv, RecordsInv, Reanalyze
<1>4. IsRow(new) /\ Known(new, jira[t]) /\ new.of >= record[t].of
  BY <1>3, ReanalyzedIsRow
<1> HIDE DEF new
<1>5. \A u \in Tickets : record'[u].of >= record[u].of
  <2>1. \A u \in Tickets : record'[u] = IF u = t THEN new ELSE record[u]
    BY <1>2 DEF VerdictInv, RecordsInv
  <2>2. \A u \in Tickets : record[u].of \in Nat
    BY DEF VerdictInv, RecordsInv, IsRow
  <2>3. QED
    BY <1>4, <2>1, <2>2
<1>6. UNCHANGED <<thread, jira>>
  BY DEF Reanalyze
<1>7. QED
  BY <1>2, <1>4, <1>5, <1>6, OneRowWritten

\* Edited tickets only move on.
LEMMA EditStep ==
    ASSUME VerdictInv, NEW t \in Tickets, ChangeTicket(t)
    PROVE  VerdictInv'
<1>1. jira' = [jira EXCEPT ![t] = @ + 1] /\ UNCHANGED <<record, thread>>
  BY DEF ChangeTicket, rows
<1>2. jira' \in [Tickets -> Nat] /\ \A u \in Tickets : jira[u] \in Nat /\ jira[u] <= jira'[u]
  BY <1>1 DEF VerdictInv, RecordsInv
<1>3. \A u \in Tickets : Known(record[u], jira'[u])
  BY <1>2 DEF VerdictInv, RecordsInv, IsRow, Known
<1>4. \A u \in Tickets : \A got, seen : Holds(got, seen, jira[u]) => Holds(got, seen, jira'[u])
  BY <1>2 DEF Holds
<1>5. RecordsInv'
  BY <1>1, <1>2, <1>3 DEF VerdictInv, RecordsInv
<1>6. ASSUME NEW p \in Threads PROVE IsThread(thread[p])' /\ HoldsVerdicts(thread[p])'
  <2>1. IsThread(thread[p]) /\ HoldsVerdicts(thread[p]) /\ thread'[p] = thread[p]
    BY <1>1 DEF VerdictInv, ThreadsInv
  <2>2. QED
    BY <1>4, <2>1 DEF IsThread, HoldsVerdicts
<1>7. QED
  BY <1>1, <1>5, <1>6 DEF VerdictInv, ThreadsInv

LEMMA VerdictStep ==
    ASSUME VerdictInv, [Next]_vars
    PROVE  VerdictInv'
<1>1. ASSUME NEW p \in Threads, ThreadStep(p) PROVE VerdictInv'
  BY <1>1, AroundStep, AnalysisStep, StoreStep, ProposeStep DEF ThreadStep
<1>2. ASSUME NEW p \in Threads,
             \/ \E force \in BOOLEAN : Request(p, force)
             \/ Scheduled(p) \/ Scan(p) \/ RefreshCommunications(p)
      PROVE  VerdictInv'
  BY <1>2, StartStep
<1>3. ASSUME NEW t \in Tickets, EstimateByHand(t) \/ Reanalyze(t) \/ ChangeTicket(t)
      PROVE  VerdictInv'
  BY <1>3, HumanStep, ReanalyzeStep, EditStep
<1>4. CASE UNCHANGED <<record, thread, jira>>
  BY <1>4 DEF VerdictInv, RecordsInv, ThreadsInv, IsThread, HoldsVerdicts
<1>5. CASE Crash
  <2>1. thread' = [q \in Threads |-> Idle] /\ UNCHANGED <<record, jira>>
    BY <1>5 DEF Crash, rows
  <2>2. RecordsInv'
    BY <2>1 DEF VerdictInv, RecordsInv
  <2>3. ThreadsInv'
    BY <2>1 DEF ThreadsInv, IsThread, HoldsVerdicts, Idle, Waiting, Answered
  <2>4. QED
    BY <2>2, <2>3 DEF VerdictInv
<1>6. \/ \E p \in Threads : \/ ThreadStep(p) \/ \E force \in BOOLEAN : Request(p, force)
                            \/ Scheduled(p) \/ Scan(p) \/ RefreshCommunications(p)
      \/ \E t \in Tickets : EstimateByHand(t) \/ Reanalyze(t) \/ ChangeTicket(t)
      \/ Crash \/ UNCHANGED <<record, thread, jira>>
  BY DEF Next, vars, rows, observers, PollInbox, NewDay, GrowOld, StrayEnds, WriteDecision,
         ReadProposal
<1>7. QED
  BY <1>1, <1>2, <1>3, <1>4, <1>5, <1>6

LEMMA VerdictInit == Init => VerdictInv
<1> SUFFICES ASSUME Init PROVE VerdictInv
  OBVIOUS
<1>1. PICK known \in SUBSET Tickets :
         record = [t \in Tickets |-> IF t \in known
                     THEN [NoRecord EXCEPT !.status = "ready", !.days = "analyst"]
                     ELSE NoRecord]
  BY DEF Init
<1>2. /\ IsRow(NoRecord) /\ Known(NoRecord, 0)
      /\ IsRow([NoRecord EXCEPT !.status = "ready", !.days = "analyst"])
      /\ Known([NoRecord EXCEPT !.status = "ready", !.days = "analyst"], 0)
  <2>1. IsRow(NoRecord) /\ Known(NoRecord, 0)
    BY DEF IsRow, Known, NoRecord
  <2> DEFINE ready == [NoRecord EXCEPT !.status = "ready", !.days = "analyst"]
  <2>2. /\ ready \in [status : {"ready"}, of : Nat, hash : Nat, error : BOOLEAN, days : {"analyst"}]
        /\ ready.status = "ready" /\ ready.of = 0 /\ ready.hash = 0
        /\ ready.error = FALSE /\ ready.days = "analyst"
    BY DEF NoRecord
  <2> HIDE DEF ready
  <2>3. IsRow(ready) /\ Known(ready, 0)
    BY <2>2 DEF IsRow, Known
  <2>4. QED
    BY <2>1, <2>3 DEF ready
<1>3. jira = [t \in Tickets |-> 0]
  BY DEF Init
<1>4. RecordsInv
  BY <1>1, <1>2, <1>3 DEF RecordsInv
<1>5. ThreadsInv
  BY IdleHolds DEF Init, ThreadsInv
<1>6. QED
  BY <1>4, <1>5 DEF VerdictInv

\* A verdict without an error is never older than the text its hash stands for
\* (_upsert_record, _record_analysis_failure, the cache of the dispatcher, reanalyze),
\* however runs, scans and reanalyses overlap, fail and reuse each other's verdicts.
THEOREM NoVerdictIsOutdated == Spec => []NoOutdatedVerdict
<1>1. VerdictInv => NoOutdatedVerdict
  <2> SUFFICES ASSUME VerdictInv, NEW t \in Tickets, record[t].status # "none", ~record[t].error
               PROVE  record[t].of >= record[t].hash
    BY DEF NoOutdatedVerdict
  <2>1. IsRow(record[t])
    BY DEF VerdictInv, RecordsInv
  <2>2. record[t].error = FALSE
    BY <2>1 DEF IsRow
  <2>3. QED
    BY <2>1, <2>2 DEF IsRow
<1>2. QED
  BY <1>1, VerdictInit, VerdictStep, PTL DEF Spec

----------------------------------------------------------------------------
(* Newer verdicts. *)

\* A thread of a run that has got the lock and not given it back.
WithLock(r) ==
    \/ r.pc \in {"reserve", "complete"}
    \/ r.pc \in {"fetch", "analyse", "qualify", "propose"} /\ r.run # 0

LockInv == \A p \in Threads : WithLock(thread[p]) => lock = p

\* As long as nothing interferes, one thread analyses, and what it has read and found is
\* not older than what is stored.
NotOlder(r, t) ==
    /\ record[t].of <= r.seen[t]
    /\ r.got[t].kind \in Answered => record[t].of <= r.got[t].of

AloneInv ==
    "interference" \notin incidents =>
        \A p \in Threads : Analysing(p) =>
            /\ \A q \in Threads : Analysing(q) => q = p
            /\ \A t \in Tickets : NotOlder(thread[p], t)

NewerInv == VerdictInv /\ LockInv /\ AloneInv

\* The lock.
LEMMA LockGoesOn ==
    ASSUME VerdictInv, LockInv, NEW p \in Threads, NEW new, Go(p, new),
           \/ lock' = lock /\ (WithLock(new) => lock = p)
           \/ lock = NoThread /\ lock' = p
           \/ lock' = NoThread /\ WithLock(thread[p]) /\ ~WithLock(new)
    PROVE  LockInv'
<1>1. \A q \in Threads : thread'[q] = IF q = p THEN new ELSE thread[q]
  BY DEF VerdictInv, ThreadsInv, Go
<1>2. NoThread \notin Threads
  BY AnalysisAssumption
<1>3. QED
  BY <1>1, <1>2 DEF LockInv, WithLock

\* What a ticket that is taken, or an outcome, changes in the thread that analyses.
Moved(p, new) ==
    /\ Go(p, new) /\ thread[p].pc = "analyse" /\ new.pc = "analyse"
    /\ new.run = thread[p].run /\ new.seen = thread[p].seen
    /\ \A u \in Tickets :
          \/ new.got[u] = thread[p].got[u]
          \/ new.got[u].kind \in Answered => new.got[u].of \in {thread[p].seen[u], record[u].of}

LEMMA TicketMoves ==
    ASSUME VerdictInv, NEW p \in Threads, NEW t \in Tickets,
           TakeTicket(p, t) \/ AgentAnswers(p, t) \/ AgentFails(p, t) \/ AgentTimesOut(p, t)
    PROVE  \E new : Moved(p, new)
<1> DEFINE me == thread[p]
<1>1. IsThread(me) /\ me.pc = "analyse"
  BY DEF VerdictInv, ThreadsInv, TakeTicket, AgentAnswers, AgentFails, AgentTimesOut, Receive
<1>2. ASSUME NEW todo, NEW busy, NEW outcome,
             Go(p, [me EXCEPT !.todo = todo, !.busy = busy, !.got[t] = outcome]),
             outcome.kind \in Answered => outcome.of \in {me.seen[t], record[t].of}
      PROVE  \E new : Moved(p, new)
  <2> DEFINE new == [me EXCEPT !.todo = todo, !.busy = busy, !.got[t] = outcome]
  <2>1. /\ new.pc = "analyse" /\ new.run = me.run /\ new.seen = me.seen
        /\ new.got = [me.got EXCEPT ![t] = outcome] /\ Go(p, new)
    BY <1>1, <1>2 DEF IsThread
  <2> HIDE DEF new
  <2>2. \A u \in Tickets : new.got[u] = IF u = t THEN outcome ELSE me.got[u]
    BY <1>1, <2>1 DEF IsThread
  <2>3. Moved(p, new)
    BY <1>1, <1>2, <2>1, <2>2 DEF Moved
  <2>4. QED
    BY <2>3
<1>3. ASSUME NEW outcome, Receive(p, t, outcome),
             outcome.kind \in Answered => outcome.of = me.seen[t]
      PROVE  \E new : Moved(p, new)
  <2>1. [me EXCEPT !.busy = @ \ {t}, !.got[t] = outcome]
        = [me EXCEPT !.todo = me.todo, !.busy = me.busy \ {t}, !.got[t] = outcome]
    BY <1>1 DEF IsThread
  <2>2. Go(p, [me EXCEPT !.todo = me.todo, !.busy = me.busy \ {t}, !.got[t] = outcome])
    BY <1>3, <2>1 DEF Receive
  <2>3. QED
    BY <1>2, <1>3, <2>2
<1>4. CASE TakeTicket(p, t)
  <2>1. CASE Go(p, [me EXCEPT !.todo = @ \ {t}, !.got[t] = Cached(t)])
    <3> DEFINE outcome == Cached(t)
    <3>1. outcome.of = record[t].of
      BY DEF Cached
    <3>2. Go(p, [me EXCEPT !.todo = @ \ {t}, !.got[t] = outcome])
      BY <2>1
    <3> HIDE DEF outcome
    <3>3. [me EXCEPT !.todo = @ \ {t}, !.got[t] = outcome]
          = [me EXCEPT !.todo = me.todo \ {t}, !.busy = me.busy, !.got[t] = outcome]
      BY <1>1 DEF IsThread
    <3>4. Go(p, [me EXCEPT !.todo = me.todo \ {t}, !.busy = me.busy, !.got[t] = outcome])
      BY <3>2, <3>3
    <3>5. QED
      BY <1>2, <3>1, <3>4
  <2>2. CASE Go(p, [me EXCEPT !.todo = @ \ {t}, !.busy = @ \cup {t}])
    <3> DEFINE new == [me EXCEPT !.todo = @ \ {t}, !.busy = @ \cup {t}]
    <3>1. /\ new.pc = "analyse" /\ new.run = me.run /\ new.seen = me.seen /\ new.got = me.got
          /\ Go(p, new)
      BY <1>1, <2>2 DEF IsThread
    <3> HIDE DEF new
    <3>2. Moved(p, new)
      BY <1>1, <3>1 DEF Moved
    <3>3. QED
      BY <3>2
  <2>3. QED
    BY <1>4, <2>1, <2>2 DEF TakeTicket
<1>5. CASE AgentAnswers(p, t)
  <2>1. PICK answer \in Answers :
           Receive(p, t, [kind |-> "success", status |-> answer[1], of |-> me.seen[t],
                          days |-> answer[2]])
    BY <1>5 DEF AgentAnswers
  <2>2. QED
    BY <1>3, <2>1
<1>6. CASE Receive(p, t, [Waiting EXCEPT !.kind = "failed"])
  <2>1. [Waiting EXCEPT !.kind = "failed"].kind \notin Answered
    BY DEF Waiting, Answered
  <2>2. QED
    BY <1>3, <1>6, <2>1
<1>7. QED
  BY <1>4, <1>5, <1>6 DEF AgentFails, AgentTimesOut

LEMMA LockStep ==
    ASSUME VerdictInv, LockInv, [Next]_vars
    PROVE  LockInv'
<1>1. ASSUME NEW p \in Threads, Go(p, Idle),
             \/ lock' = lock
             \/ lock' = NoThread /\ WithLock(thread[p])
      PROVE  LockInv'
  <2>1. ~WithLock(Idle)
    BY DEF WithLock, Idle
  <2>2. QED
    BY <1>1, <2>1, LockGoesOn
<1>3. ASSUME NEW p \in Threads, NEW new, Go(p, new), lock' = lock,
             WithLock(new) => WithLock(thread[p])
      PROVE  LockInv'
  BY <1>3, LockGoesOn DEF LockInv
<1>4. ASSUME NEW p \in Threads, ThreadStep(p) PROVE LockInv'
  <2> DEFINE me == thread[p]
  <2>1. IsThread(me)
    BY DEF VerdictInv, ThreadsInv
  <2>2. CASE AcquireLock(p)
    <3> DEFINE new == [me EXCEPT !.pc = IF me.run = 0 THEN "reserve" ELSE "fetch"]
    <3>1. Go(p, new) /\ lock = NoThread /\ lock' = p
      BY <2>2 DEF AcquireLock, LockIsFree
    <3> HIDE DEF new
    <3>2. QED
      BY <3>1, LockGoesOn
  <2>3. CASE ReserveLate(p)
    <3> DEFINE new == [me EXCEPT !.pc = "fetch", !.run = NextRun]
    <3>1. Go(p, new) /\ lock' = lock /\ WithLock(me)
      BY <2>3 DEF ReserveLate, WithLock
    <3> HIDE DEF new
    <3>2. QED
      BY <1>3, <3>1
  <2>4. CASE GiveUp(p)
    BY <1>1, <2>4 DEF GiveUp, WithLock
  <2>5. CASE Fetch(p)
    <3> DEFINE new == [me EXCEPT !.pc = "analyse", !.seen = jira, !.todo = Tickets]
    <3>1. Go(p, new) /\ lock' = lock /\ me.pc = "fetch"
      BY <2>5 DEF Fetch
    <3>2. new.pc = "analyse" /\ new.run = me.run
      BY <2>1 DEF IsThread
    <3> HIDE DEF new
    <3>3. WithLock(new) => WithLock(me)
      BY <3>1, <3>2 DEF WithLock
    <3>4. QED
      BY <1>3, <3>1, <3>3
  <2>6. CASE PipelineFails(p)
    BY <1>1, <2>6 DEF PipelineFails, End, WithLock
  <2>7. CASE RequestFails(p)
    BY <1>1, <2>7 DEF RequestFails
  <2>8. ASSUME NEW t \in Tickets,
               TakeTicket(p, t) \/ AgentAnswers(p, t) \/ AgentFails(p, t) \/ AgentTimesOut(p, t)
        PROVE  LockInv'
    <3>1. lock' = lock
      BY <2>8 DEF TakeTicket, AgentAnswers, AgentFails, AgentTimesOut
    <3>2. PICK new : Moved(p, new)
      BY <2>8, TicketMoves
    <3>3. WithLock(new) => WithLock(me)
      BY <3>2 DEF WithLock, Moved
    <3>4. QED
      BY <1>3, <3>1, <3>2, <3>3 DEF Moved
  <2>9. CASE StoreOutcomes(p)
    <3> DEFINE next == [Idle EXCEPT !.pc = "qualify", !.run = me.run]
               new  == IF me.run = 0 THEN Idle ELSE next
    <3>1. Go(p, new) /\ lock' = lock /\ me.pc = "analyse"
      BY <2>9 DEF StoreOutcomes
    <3>2. WithLock(new) => WithLock(me)
      BY <3>1 DEF WithLock, Idle
    <3> HIDE DEF new
    <3>3. QED
      BY <1>3, <3>1, <3>2
  <2>10. CASE Qualify(p)
    <3> DEFINE new == [me EXCEPT !.pc = "propose", !.read = record]
    <3>1. Go(p, new) /\ lock' = lock /\ me.pc = "qualify"
      BY <2>10 DEF Qualify
    <3>2. new.pc = "propose" /\ new.run = me.run
      BY <2>1 DEF IsThread
    <3> HIDE DEF new
    <3>3. WithLock(new) => WithLock(me)
      BY <3>1, <3>2 DEF WithLock
    <3>4. QED
      BY <1>3, <3>1, <3>3
  <2>11. CASE Propose(p)
    <3> DEFINE next == [Idle EXCEPT !.pc = "complete", !.run = me.run]
               new  == IF me.run = 0 THEN Idle ELSE next
    <3>1. Go(p, new) /\ lock' = lock /\ me.pc = "propose"
      BY <2>11 DEF Propose
    <3>2. WithLock(new) => WithLock(me)
      BY <3>1 DEF WithLock, Idle
    <3> HIDE DEF new
    <3>3. QED
      BY <1>3, <3>1, <3>2
  <2>12. CASE Complete(p)
    BY <1>1, <2>12 DEF Complete, End, WithLock
  <2>13. QED
    BY <1>4, <2>2, <2>3, <2>4, <2>5, <2>6, <2>7, <2>8, <2>9, <2>10, <2>11, <2>12 DEF ThreadStep
<1>5. ASSUME NEW p \in Threads,
             \/ \E force \in BOOLEAN : Request(p, force)
             \/ Scheduled(p) \/ Scan(p) \/ RefreshCommunications(p)
      PROVE  LockInv'
  <2>1. ASSUME NEW pc \in {"lock", "fetch", "qualify"}, Go(p, [Idle EXCEPT !.pc = pc]), lock' = lock
        PROVE  LockInv'
    <3>1. ~WithLock([Idle EXCEPT !.pc = pc])
      BY <2>1 DEF WithLock, Idle
    <3>2. QED
      BY <1>3, <2>1, <3>1
  <2>2. ASSUME NEW force, Request(p, force) PROVE LockInv'
    <3>1. ~WithLock([Idle EXCEPT !.pc = "lock", !.run = NextRun, !.force = force])
      BY DEF WithLock, Idle
    <3>2. Go(p, [Idle EXCEPT !.pc = "lock", !.run = NextRun, !.force = force]) /\ lock' = lock
      BY <2>2 DEF Request
    <3>3. QED
      BY <1>3, <3>1, <3>2
  <2>3. QED
    BY <1>5, <2>1, <2>2 DEF Scheduled, Scan, RefreshCommunications
<1>6. CASE UNCHANGED <<thread, lock>>
  BY <1>6 DEF LockInv
<1>7. CASE Crash
  <2>1. \A q \in Threads : thread'[q] = Idle
    BY <1>7 DEF Crash
  <2>2. ~WithLock(Idle)
    BY DEF WithLock, Idle
  <2>3. QED
    BY <2>1, <2>2 DEF LockInv
<1>8. \/ \E p \in Threads : \/ ThreadStep(p) \/ \E force \in BOOLEAN : Request(p, force)
                            \/ Scheduled(p) \/ Scan(p) \/ RefreshCommunications(p)
      \/ Crash \/ UNCHANGED <<thread, lock>>
  BY DEF Next, vars, PollInbox, NewDay, GrowOld, StrayEnds, EstimateByHand, Reanalyze,
         ChangeTicket, WriteDecision, ReadProposal
<1>9. QED
  BY <1>4, <1>5, <1>6, <1>7, <1>8

\* Versions are numbers wherever a ticket and what is known of it meet.
LEMMA VersionsAreNumbers ==
    ASSUME VerdictInv, NEW t \in Tickets
    PROVE  /\ jira[t] \in Nat /\ record[t].of \in Nat /\ record[t].of <= jira[t]
           /\ \A p \in Threads : Analysing(p) =>
                 /\ thread[p].seen[t] \in Nat
                 /\ thread[p].got[t].kind \in Answered => thread[p].got[t].of \in Nat
BY DEF VerdictInv, RecordsInv, ThreadsInv, IsRow, Known, Analysing, HoldsVerdicts, Holds

\* What a thread that analyses, or begins to, holds is not older; others hold nothing.
LEMMA AloneGoesOn ==
    ASSUME VerdictInv, AloneInv, NEW p \in Threads, NEW new, Go(p, new),
           incidents \subseteq incidents',
           \A t \in Tickets : record'[t].of = record[t].of,
           new.pc = "analyse" /\ "interference" \notin incidents' =>
              /\ \A q \in Threads \ {p} : ~Analysing(q)
              /\ \A t \in Tickets : NotOlder(new, t)
    PROVE  AloneInv'
<1>1. \A q \in Threads : thread'[q] = IF q = p THEN new ELSE thread[q]
  BY DEF VerdictInv, ThreadsInv, Go
<1>2. \A r, t : t \in Tickets /\ NotOlder(r, t) => NotOlder(r, t)'
  BY DEF NotOlder
<1>3. QED
  BY <1>1, <1>2 DEF AloneInv, Analysing, NotOlder

\* A thread that stops analysing leaves nobody who does.
LEMMA AloneStep ==
    ASSUME VerdictInv, LockInv, AloneInv, [Next]_vars
    PROVE  /\ AloneInv'
           /\ "interference" \notin incidents' =>
                 \A t \in Tickets : record'[t].of >= record[t].of
<1>1. (\A t \in Tickets : record'[t].of = record[t].of)
         => \A t \in Tickets : record'[t].of >= record[t].of
  BY VersionsAreNumbers
<1>2. ASSUME NEW p \in Threads, NEW new, Go(p, new), incidents \subseteq incidents',
             \A t \in Tickets : record'[t].of = record[t].of, new.pc # "analyse"
      PROVE  AloneInv'
  BY <1>2, AloneGoesOn
<1>3. ASSUME NEW p \in Threads, NEW pc, pc # "analyse", Go(p, [Idle EXCEPT !.pc = pc]),
             incidents \subseteq incidents', record' = record
      PROVE  AloneInv'
  <2>1. [Idle EXCEPT !.pc = pc].pc # "analyse"
    BY <1>3 DEF Idle
  <2>2. QED
    BY <1>2, <1>3, <2>1
<1>4. ASSUME NEW p \in Threads,
             \/ \E force \in BOOLEAN : Request(p, force)
             \/ Scheduled(p) \/ Scan(p) \/ RefreshCommunications(p)
      PROVE  AloneInv' /\ record' = record
  <2>1. ASSUME NEW force, Request(p, force) PROVE AloneInv' /\ record' = record
    <3> DEFINE new == [Idle EXCEPT !.pc = "lock", !.run = NextRun, !.force = force]
    <3>1. Go(p, new) /\ UNCHANGED <<record, incidents>>
      BY <2>1 DEF Request, observers
    <3>2. new.pc # "analyse"
      BY DEF Idle
    <3> HIDE DEF new
    <3>3. QED
      BY <1>2, <3>1, <3>2
  <2>2. QED
    BY <1>3, <1>4, <2>1 DEF Scheduled, Scan, RefreshCommunications, rows, observers
<1>5. ASSUME NEW p \in Threads, GiveUp(p) \/ PipelineFails(p) \/ RequestFails(p) \/ Complete(p)
      PROVE  AloneInv' /\ record' = record
  <2>1. Go(p, Idle) /\ record' = record /\ incidents \subseteq incidents'
    BY <1>5 DEF GiveUp, PipelineFails, RequestFails, Complete, End, rows, observers
  <2>2. Idle.pc # "analyse"
    BY DEF Idle
  <2>3. QED
    BY <1>2, <2>1, <2>2
<1>6. ASSUME NEW p \in Threads, AcquireLock(p) \/ ReserveLate(p) \/ Qualify(p)
      PROVE  AloneInv' /\ record' = record
  <2> DEFINE me == thread[p]
  <2>1. IsThread(me)
    BY DEF VerdictInv, ThreadsInv
  <2>2. UNCHANGED <<record, incidents>>
    BY <1>6 DEF AcquireLock, ReserveLate, Qualify, rows, observers
  <2>3. ASSUME NEW pc, pc # "analyse", Go(p, [me EXCEPT !.pc = pc]) PROVE AloneInv'
    <3>1. [me EXCEPT !.pc = pc].pc # "analyse"
      BY <2>1, <2>3 DEF IsThread
    <3>2. QED
      BY <1>2, <2>2, <2>3, <3>1
  <2>4. CASE AcquireLock(p)
    <3> DEFINE pc == IF me.run = 0 THEN "reserve" ELSE "fetch"
    <3>1. Go(p, [me EXCEPT !.pc = pc]) /\ pc # "analyse"
      BY <2>4 DEF AcquireLock
    <3> HIDE DEF pc
    <3>2. QED
      BY <2>2, <2>3, <3>1
  <2>5. CASE ReserveLate(p)
    <3> DEFINE id == NextRun
    <3>1. Go(p, [me EXCEPT !.pc = "fetch", !.run = id])
      BY <2>5 DEF ReserveLate
    <3> HIDE DEF id
    <3>2. [me EXCEPT !.pc = "fetch", !.run = id].pc # "analyse"
      BY <2>1 DEF IsThread
    <3>3. QED
      BY <1>2, <2>2, <3>1, <3>2
  <2>6. CASE Qualify(p)
    <3>1. Go(p, [me EXCEPT !.pc = "propose", !.read = record])
      BY <2>6 DEF Qualify
    <3>2. [me EXCEPT !.pc = "propose", !.read = record].pc # "analyse"
      BY <2>1 DEF IsThread
    <3>3. QED
      BY <1>2, <2>2, <3>1, <3>2
  <2>7. QED
    BY <1>6, <2>4, <2>5, <2>6
<1>7. ASSUME NEW p \in Threads, Fetch(p) PROVE AloneInv' /\ record' = record
  <2> DEFINE me  == thread[p]
             new == [me EXCEPT !.pc = "analyse", !.seen = jira, !.todo = Tickets]
  <2>1. /\ me.pc = "fetch" /\ Go(p, new) /\ record' = record /\ incidents \subseteq incidents'
        /\ "interference" \notin incidents' => ~Interferes(p)
    BY <1>7 DEF Fetch, Interference, rows
  <2>2. IsThread(me) /\ HoldsVerdicts(me)
    BY DEF VerdictInv, ThreadsInv
  <2>3. new.got = me.got /\ new.seen = jira
    BY <2>2 DEF IsThread
  <2> HIDE DEF new
  <2>4. \A t \in Tickets : NotOlder(new, t)
    BY <2>1, <2>2, <2>3, VersionsAreNumbers DEF NotOlder, HoldsVerdicts
  <2>5. ASSUME "interference" \notin incidents', NEW q \in Threads \ {p} PROVE ~Analysing(q)
    <3> SUFFICES ASSUME Analysing(q) PROVE FALSE
      OBVIOUS
    <3>1. me.run # 0 /\ thread[q].run # 0
      BY <2>1, <2>5 DEF Interferes
    <3>2. lock = p /\ lock = q
      BY <2>1, <3>1 DEF LockInv, WithLock, Analysing
    <3>3. QED
      BY <3>2
  <2>6. QED
    BY <2>1, <2>4, <2>5, AloneGoesOn
<1>8. ASSUME NEW p \in Threads, NEW t \in Tickets,
             TakeTicket(p, t) \/ AgentAnswers(p, t) \/ AgentFails(p, t) \/ AgentTimesOut(p, t)
      PROVE  AloneInv' /\ record' = record
  <2>1. UNCHANGED <<record, incidents>>
    BY <1>8 DEF TakeTicket, AgentAnswers, AgentFails, AgentTimesOut, rows, observers
  <2>2. PICK new : Moved(p, new)
    BY <1>8, TicketMoves
  <2>3. ASSUME "interference" \notin incidents
        PROVE  /\ \A q \in Threads \ {p} : ~Analysing(q)
               /\ \A u \in Tickets : NotOlder(new, u)
    <3>1. /\ \A q \in Threads \ {p} : ~Analysing(q)
          /\ \A u \in Tickets : NotOlder(thread[p], u)
      BY <2>2, <2>3 DEF AloneInv, Moved, Analysing
    <3>2. \A u \in Tickets : record[u].of \in Nat
      BY VersionsAreNumbers
    <3>3. QED
      BY <2>2, <3>1, <3>2 DEF Moved, NotOlder
  <2>4. QED
    BY <2>1, <2>2, <2>3, AloneGoesOn DEF Moved
<1>9. ASSUME NEW p \in Threads, StoreOutcomes(p)
      PROVE  AloneInv' /\ ("interference" \notin incidents' =>
                               \A t \in Tickets : record'[t].of >= record[t].of)
  <2> DEFINE me   == thread[p]
             next == [Idle EXCEPT !.pc = "qualify", !.run = me.run]
             new  == IF me.run = 0 THEN Idle ELSE next
  <2>1. /\ Analysing(p) /\ Go(p, new) /\ incidents' = incidents
        /\ record' = [t \in Tickets |-> Stored(t, me.got[t], me.seen[t])]
    BY <1>9 DEF StoreOutcomes, Analysing
  <2>2. new.pc # "analyse"
    BY DEF Idle
  <2> HIDE DEF new
  <2>3. \A q \in Threads : thread'[q] = IF q = p THEN new ELSE thread[q]
    BY <2>1 DEF VerdictInv, ThreadsInv, Go
  <2>4. AloneInv'
    BY <2>1, <2>2, <2>3 DEF AloneInv, Analysing
  <2>5. ASSUME "interference" \notin incidents', NEW t \in Tickets
        PROVE  record'[t].of >= record[t].of
    <3>1. NotOlder(me, t) /\ IsRow(record[t])
      BY <2>1, <2>5 DEF AloneInv, VerdictInv, RecordsInv
    <3>2. me.seen[t] \in Nat /\ (me.got[t].kind \in Answered => me.got[t].of \in Nat)
      BY <2>1, VersionsAreNumbers
    <3>3. \/ record'[t].of \in {me.seen[t], record[t].of}
          \/ me.got[t].kind \in Answered /\ record'[t].of = me.got[t].of
      <4>1. record'[t] = Stored(t, me.got[t], me.seen[t])
        BY <2>1
      <4>2. CASE me.got[t].kind \in Answered
        BY <4>1, <4>2 DEF Stored, Answered
      <4>3. CASE me.got[t].kind \notin Answered /\ record[t].status = "none"
        <5>1. record'[t] = [NoRecord EXCEPT !.status = "analysis_failed", !.of = me.seen[t],
                                            !.hash = me.seen[t], !.error = TRUE]
          BY <4>1, <4>3 DEF Stored, Answered
        <5>2. QED
          BY <5>1 DEF NoRecord
      <4>4. CASE me.got[t].kind \notin Answered /\ record[t].status # "none"
        <5>1. record'[t] = [record[t] EXCEPT !.hash = me.seen[t], !.error = TRUE]
          BY <4>1, <4>4 DEF Stored, Answered
        <5>2. QED
          BY <5>1, <3>1 DEF IsRow
      <4>5. QED
        BY <4>2, <4>3, <4>4
    <3>4. record[t].of \in Nat
      BY <3>1 DEF IsRow
    <3>5. QED
      BY <3>1, <3>2, <3>3, <3>4 DEF NotOlder
  <2>6. QED
    BY <2>4, <2>5
<1>10. ASSUME NEW p \in Threads, Propose(p)
       PROVE  AloneInv' /\ \A t \in Tickets : record'[t].of = record[t].of
  <2> DEFINE next == [Idle EXCEPT !.pc = "complete", !.run = thread[p].run]
             new  == IF thread[p].run = 0 THEN Idle ELSE next
  <2>1. Go(p, new) /\ incidents' = incidents
    BY <1>10 DEF Propose, observers
  <2>2. new.pc # "analyse"
    BY DEF Idle
  <2> HIDE DEF new
  <2>3. \A t \in Tickets : record'[t].of = record[t].of
    BY <1>10, ProposeStep
  <2>4. QED
    BY <1>2, <2>1, <2>2, <2>3
<1>11. ASSUME UNCHANGED <<thread, incidents>>, \A t \in Tickets : record'[t].of = record[t].of
       PROVE  AloneInv'
  BY <1>11 DEF AloneInv, Analysing, NotOlder
<1>12. ASSUME NEW t \in Tickets, EstimateByHand(t)
       PROVE  AloneInv' /\ \A u \in Tickets : record'[u].of = record[u].of
  BY <1>11, <1>12, HumanStep DEF EstimateByHand
<1>13. ASSUME NEW t \in Tickets, Reanalyze(t)
       PROVE  AloneInv' /\ \A u \in Tickets : record'[u].of >= record[u].of
  <2>1. /\ thread' = thread
        /\ "interference" \notin incidents' => \A p \in Threads : ~Analysing(p)
    BY <1>13 DEF Reanalyze, Interference
  <2>2. AloneInv'
    BY <2>1 DEF AloneInv, Analysing
  <2>3. QED
    BY <1>13, <2>2, ReanalyzeStep
<1>14. CASE Crash
  <2>1. \A q \in Threads : thread'[q] = Idle
    BY <1>14 DEF Crash
  <2>2. record' = record /\ AloneInv'
    BY <1>14, <2>1 DEF AloneInv, Analysing, Idle, Crash, rows
  <2>3. QED
    BY <1>1, <2>2
<1>15. ASSUME UNCHANGED <<thread, record>>, incidents \subseteq incidents'
       PROVE  AloneInv'
  BY <1>15 DEF AloneInv, Analysing, NotOlder
<1>16. \/ \E p \in Threads : \/ ThreadStep(p) \/ \E force \in BOOLEAN : Request(p, force)
                             \/ Scheduled(p) \/ Scan(p) \/ RefreshCommunications(p)
       \/ \E t \in Tickets : EstimateByHand(t) \/ Reanalyze(t)
       \/ Crash \/ (UNCHANGED <<thread, record>> /\ incidents \subseteq incidents')
  BY DEF Next, vars, rows, observers, PollInbox, NewDay, GrowOld, StrayEnds, ChangeTicket,
         WriteDecision, ReadProposal
<1>17. ASSUME NEW p \in Threads, ThreadStep(p)
       PROVE  AloneInv' /\ ("interference" \notin incidents' =>
                                \A t \in Tickets : record'[t].of >= record[t].of)
  BY <1>1, <1>5, <1>6, <1>7, <1>8, <1>9, <1>10, <1>17 DEF ThreadStep
<1>18. QED
  BY <1>1, <1>4, <1>12, <1>13, <1>14, <1>15, <1>16, <1>17

\* What is stored of an older text never replaces the verdict of a newer one, although a run
\* that was given up for lost after ninety minutes works on (fail_stale_daily_runs), as long
\* as no scan or reanalysis meets an analysis: the lock of the process is what keeps the
\* next run from reading the tickets meanwhile (_ANALYSIS_LOCK).
THEOREM NewerVerdictsStand == Spec => VerdictsOnlyGetNewer
<1>1. Init => NewerInv
  <2> SUFFICES ASSUME Init PROVE NewerInv
    OBVIOUS
  <2>1. \A p \in Threads : thread[p] = Idle
    BY DEF Init
  <2>2. QED
    BY <2>1, VerdictInit DEF NewerInv, LockInv, AloneInv, WithLock, Analysing, Idle
<1>2. NewerInv /\ [Next]_vars => NewerInv'
  BY VerdictStep, LockStep, AloneStep DEF NewerInv
<1>3. NewerInv /\ [Next]_vars =>
         [incidents' \cap {"interference"} = {} =>
             \A t \in Tickets : record'[t].of >= record[t].of]_vars
  BY AloneStep DEF NewerInv
<1>4. QED
  BY <1>1, <1>2, <1>3, PTL DEF Spec, VerdictsOnlyGetNewer

----------------------------------------------------------------------------
(* Estimates by hand. *)

\* Where an estimate is told from a row, it is the human's.
ByHand(row) == row.status \in {"ready", "not_ready"} => row.days = "human"

\* While a ticket is kept, its record and what analyses and refreshed proposals hold of
\* it say the same.
KeptInv ==
    /\ VerdictInv
    /\ latest = [t \in Tickets |-> latest[t]] /\ kept \subseteq Tickets
    /\ \A t \in kept :
          /\ latest[t] = "human" /\ record[t].status # "none" /\ ByHand(record[t])
          /\ \A p \in Threads :
                /\ thread[p].pc = "analyse" /\ thread[p].got[t].kind = "cached" =>
                      thread[p].got[t].status # "none" /\ ByHand(thread[p].got[t])
                /\ thread[p].pc = "propose" => ByHand(thread[p].read[t])

\* One thread goes on, and what it holds of kept tickets is the human's.
LEMMA KeptGoesOn ==
    ASSUME KeptInv, VerdictInv', NEW p \in Threads, NEW new, Go(p, new),
           UNCHANGED <<record, latest, kept>>,
           \A t \in kept :
              /\ new.pc = "analyse" /\ new.got[t].kind = "cached" =>
                    new.got[t].status # "none" /\ ByHand(new.got[t])
              /\ new.pc = "propose" => ByHand(new.read[t])
    PROVE  KeptInv'
<1>1. \A q \in Threads : thread'[q] = IF q = p THEN new ELSE thread[q]
  BY DEF KeptInv, VerdictInv, ThreadsInv, Go
<1>2. QED
  BY <1>1 DEF KeptInv

\* A thread that is neither analysing nor about to propose holds nothing.
LEMMA KeptElsewhere ==
    ASSUME KeptInv, VerdictInv', NEW p \in Threads, NEW new, Go(p, new),
           UNCHANGED <<record, latest, kept>>, new.pc \notin {"analyse", "propose"}
    PROVE  KeptInv'
BY KeptGoesOn

\* Starting and ending an analysis, and reading what it begins with.
LEMMA KeptAround ==
    ASSUME KeptInv, VerdictInv', NEW p \in Threads,
           \/ \E force \in BOOLEAN : Request(p, force)
           \/ Scheduled(p) \/ Scan(p) \/ RefreshCommunications(p)
           \/ AcquireLock(p) \/ ReserveLate(p) \/ GiveUp(p) \/ Fetch(p) \/ PipelineFails(p)
           \/ RequestFails(p) \/ Qualify(p) \/ Complete(p)
    PROVE  KeptInv'
<1> DEFINE me == thread[p]
<1>1. IsThread(me) /\ HoldsVerdicts(me)
  BY DEF KeptInv, VerdictInv, ThreadsInv
<1>2. ASSUME NEW force \in BOOLEAN, Request(p, force) PROVE KeptInv'
  <2> DEFINE new == [Idle EXCEPT !.pc = "lock", !.run = NextRun, !.force = force]
  <2>1. Go(p, new) /\ UNCHANGED <<record, latest, kept>>
    BY <1>2 DEF Request, observers
  <2>2. new.pc = "lock"
    BY DEF Idle
  <2> HIDE DEF new
  <2>3. QED
    BY <2>1, <2>2, KeptElsewhere
<1>3. ASSUME NEW pc, Go(p, [Idle EXCEPT !.pc = pc]), UNCHANGED <<record, latest, kept>>,
             pc \notin {"analyse", "propose"}
      PROVE  KeptInv'
  <2> DEFINE new == [Idle EXCEPT !.pc = pc]
  <2>1. new.pc = pc /\ Go(p, new)
    BY <1>3 DEF Idle
  <2> HIDE DEF new
  <2>2. QED
    BY <1>3, <2>1, KeptElsewhere
<1>4. CASE Scheduled(p)
  BY <1>3, <1>4 DEF Scheduled, rows, observers
<1>5. CASE RefreshCommunications(p)
  BY <1>3, <1>5 DEF RefreshCommunications, rows
<1>6. CASE AcquireLock(p)
  <2> DEFINE pc  == IF me.run = 0 THEN "reserve" ELSE "fetch"
             new == [me EXCEPT !.pc = pc]
  <2>1. Go(p, new) /\ UNCHANGED <<record, latest, kept>>
    BY <1>6 DEF AcquireLock, rows, observers
  <2>2. new.pc = pc
    BY <1>1 DEF IsThread
  <2> HIDE DEF new
  <2>3. QED
    BY <2>1, <2>2, KeptElsewhere
<1>7. CASE ReserveLate(p)
  <2> DEFINE id  == NextRun
             new == [me EXCEPT !.pc = "fetch", !.run = id]
  <2>1. Go(p, new) /\ UNCHANGED <<record, latest, kept>>
    BY <1>7 DEF ReserveLate, observers
  <2> HIDE DEF id
  <2>2. new.pc = "fetch"
    BY <1>1 DEF IsThread
  <2> HIDE DEF new
  <2>3. QED
    BY <2>1, <2>2, KeptElsewhere
<1>8. ASSUME GiveUp(p) \/ PipelineFails(p) \/ RequestFails(p) \/ Complete(p) PROVE KeptInv'
  <2>1. Go(p, Idle) /\ UNCHANGED <<record, latest, kept>>
    BY <1>8 DEF GiveUp, PipelineFails, RequestFails, Complete, End, rows, observers
  <2>2. Idle.pc = "idle"
    BY DEF Idle
  <2>3. QED
    BY <2>1, <2>2, KeptElsewhere
<1>9. CASE Fetch(p)
  <2> DEFINE new == [me EXCEPT !.pc = "analyse", !.seen = jira, !.todo = Tickets]
  <2>1. Go(p, new) /\ UNCHANGED <<record, latest, kept>> /\ me.pc = "fetch"
    BY <1>9 DEF Fetch, rows, observers
  <2>2. new.pc = "analyse" /\ new.got = me.got
    BY <1>1 DEF IsThread
  <2> HIDE DEF new
  <2>3. \A t \in kept : new.got[t].kind # "cached"
    BY <1>1, <2>1, <2>2 DEF HoldsVerdicts, Answered, KeptInv
  <2>4. QED
    BY <2>1, <2>2, <2>3, KeptGoesOn
<1>10. CASE Qualify(p)
  <2> DEFINE new == [me EXCEPT !.pc = "propose", !.read = record]
  <2>1. Go(p, new) /\ UNCHANGED <<record, latest, kept>>
    BY <1>10 DEF Qualify, rows, observers
  <2>2. new.pc = "propose" /\ new.read = record
    BY <1>1 DEF IsThread
  <2> HIDE DEF new
  <2>3. \A t \in kept : ByHand(new.read[t])
    BY <2>2 DEF KeptInv
  <2>4. QED
    BY <2>1, <2>2, <2>3, KeptGoesOn
<1>11. CASE Scan(p)
  BY <1>3, <1>11 DEF Scan, rows, observers
<1>12. QED
  BY <1>2, <1>4, <1>5, <1>6, <1>7, <1>8, <1>9, <1>10, <1>11

\* An outcome that is no cached one, or the record of the ticket itself.
LEMMA KeptOutcome ==
    ASSUME KeptInv, VerdictInv', NEW p \in Threads, NEW t \in Tickets, NEW todo, NEW busy,
           NEW outcome, thread[p].pc = "analyse",
           outcome.kind = "cached" => outcome = Cached(t) /\ record[t].status # "none",
           Go(p, [thread[p] EXCEPT !.todo = todo, !.busy = busy, !.got[t] = outcome]),
           UNCHANGED <<record, latest, kept>>
    PROVE  KeptInv'
<1> DEFINE me  == thread[p]
           new == [me EXCEPT !.todo = todo, !.busy = busy, !.got[t] = outcome]
<1>1. IsThread(me)
  BY DEF KeptInv, VerdictInv, ThreadsInv
<1>2. new.pc = "analyse" /\ new.got = [me.got EXCEPT ![t] = outcome]
  BY <1>1 DEF IsThread
<1>3. Go(p, new)
  OBVIOUS
<1> HIDE DEF new
<1>4. \A u \in Tickets : new.got[u] = IF u = t THEN outcome ELSE me.got[u]
  BY <1>1, <1>2 DEF IsThread
<1>5. ASSUME NEW u \in kept, new.got[u].kind = "cached"
      PROVE  new.got[u].status # "none" /\ ByHand(new.got[u])
  <2>1. CASE u # t
    BY <1>4, <1>5, <2>1 DEF KeptInv
  <2>2. CASE u = t
    <3>1. new.got[u] = Cached(t) /\ record[t].status # "none" /\ ByHand(record[t])
      BY <1>4, <1>5, <2>2 DEF KeptInv
    <3>2. QED
      BY <3>1 DEF Cached, ByHand
  <2>3. QED
    BY <2>1, <2>2
<1>6. QED
  BY <1>2, <1>3, <1>5, KeptGoesOn

\* A ticket is taken, or an outcome received.
LEMMA KeptAnalysis ==
    ASSUME KeptInv, VerdictInv', NEW p \in Threads, NEW t \in Tickets,
           TakeTicket(p, t) \/ AgentAnswers(p, t) \/ AgentFails(p, t) \/ AgentTimesOut(p, t)
    PROVE  KeptInv'
<1> DEFINE me == thread[p]
<1>1. IsThread(me)
  BY DEF KeptInv, VerdictInv, ThreadsInv
<1>2. ASSUME NEW outcome, Receive(p, t, outcome), UNCHANGED <<record, latest, kept>>,
             outcome.kind # "cached"
      PROVE  KeptInv'
  <2>1. [me EXCEPT !.busy = @ \ {t}, !.got[t] = outcome]
        = [me EXCEPT !.todo = me.todo, !.busy = me.busy \ {t}, !.got[t] = outcome]
    BY <1>1 DEF IsThread
  <2>2. Go(p, [me EXCEPT !.todo = me.todo, !.busy = me.busy \ {t}, !.got[t] = outcome])
        /\ me.pc = "analyse"
    BY <1>2, <2>1 DEF Receive
  <2>3. outcome.kind = "cached" => outcome = Cached(t) /\ record[t].status # "none"
    BY <1>2
  <2>4. QED
    BY <1>2, <2>2, <2>3, KeptOutcome
<1>3. CASE TakeTicket(p, t)
  <2>1. me.pc = "analyse" /\ UNCHANGED <<record, latest, kept>>
    BY <1>3 DEF TakeTicket, rows, observers
  <2>2. CASE Hit(p, t) /\ Go(p, [me EXCEPT !.todo = @ \ {t}, !.got[t] = Cached(t)])
    <3>1. record[t].status # "none"
      BY <2>2 DEF Hit, Reusable
    <3> DEFINE outcome == Cached(t)
    <3>2. Go(p, [me EXCEPT !.todo = @ \ {t}, !.got[t] = outcome]) /\ outcome = Cached(t)
      BY <2>2
    <3> HIDE DEF outcome
    <3>3. [me EXCEPT !.todo = @ \ {t}, !.got[t] = outcome]
          = [me EXCEPT !.todo = me.todo \ {t}, !.busy = me.busy, !.got[t] = outcome]
      BY <1>1 DEF IsThread
    <3>4. Go(p, [me EXCEPT !.todo = me.todo \ {t}, !.busy = me.busy, !.got[t] = outcome])
      BY <3>2, <3>3
    <3>5. outcome.kind = "cached" => outcome = Cached(t) /\ record[t].status # "none"
      BY <3>1, <3>2
    <3>6. QED
      BY <2>1, <3>4, <3>5, KeptOutcome
  <2>3. CASE Go(p, [me EXCEPT !.todo = @ \ {t}, !.busy = @ \cup {t}])
    <3> DEFINE new == [me EXCEPT !.todo = @ \ {t}, !.busy = @ \cup {t}]
    <3>1. new.pc = me.pc /\ new.got = me.got
      BY <1>1 DEF IsThread
    <3>2. Go(p, new)
      BY <2>3
    <3> HIDE DEF new
    <3>3. new.pc = "analyse"
      BY <2>1, <3>1
    <3>4. \A u \in kept : new.got[u].kind = "cached" =>
             new.got[u].status # "none" /\ ByHand(new.got[u])
      BY <2>1, <3>1 DEF KeptInv
    <3>5. QED
      BY <2>1, <3>2, <3>3, <3>4, KeptGoesOn
  <2>4. QED
    BY <1>3, <2>2, <2>3 DEF TakeTicket
<1>4. CASE AgentAnswers(p, t)
  <2>1. PICK answer \in Answers :
           Receive(p, t, [kind |-> "success", status |-> answer[1], of |-> me.seen[t],
                          days |-> answer[2]])
    BY <1>4 DEF AgentAnswers
  <2>2. UNCHANGED <<record, latest, kept>>
    BY <1>4 DEF AgentAnswers, rows, observers
  <2>3. QED
    BY <1>2, <2>1, <2>2
<1>5. ASSUME Receive(p, t, [Waiting EXCEPT !.kind = "failed"]), UNCHANGED <<record, latest, kept>>
      PROVE  KeptInv'
  <2>1. [Waiting EXCEPT !.kind = "failed"].kind # "cached"
    BY DEF Waiting
  <2>2. QED
    BY <1>2, <1>5, <2>1
<1>6. CASE AgentFails(p, t)
  BY <1>5, <1>6 DEF AgentFails, rows, observers
<1>7. CASE AgentTimesOut(p, t)
  BY <1>5, <1>7 DEF AgentTimesOut, rows, observers
<1>8. QED
  BY <1>3, <1>4, <1>6, <1>7

\* A stored outcome that is not a new verdict leaves the estimate.
LEMMA KeptStored ==
    ASSUME KeptInv, VerdictInv', NEW p \in Threads, StoreOutcomes(p)
    PROVE  KeptInv'
<1> DEFINE me   == thread[p]
           next == [Idle EXCEPT !.pc = "qualify", !.run = me.run]
           new  == IF me.run = 0 THEN Idle ELSE next
<1>1. /\ me.pc = "analyse" /\ Go(p, new) /\ latest' = latest
      /\ record' = [t \in Tickets |-> Stored(t, me.got[t], me.seen[t])]
      /\ kept' = {t \in kept : me.got[t].kind # "success"}
  BY DEF StoreOutcomes
<1>2. new.pc \notin {"analyse", "propose"}
  BY DEF Idle
<1> HIDE DEF new
<1>3. \A q \in Threads : thread'[q] = IF q = p THEN new ELSE thread[q]
  BY <1>1 DEF KeptInv, VerdictInv, ThreadsInv, Go
<1>4. ASSUME NEW t \in kept' PROVE record'[t].status # "none" /\ ByHand(record'[t])
  <2>1. /\ t \in kept /\ t \in Tickets /\ me.got[t].kind # "success"
        /\ record'[t] = Stored(t, me.got[t], me.seen[t])
        /\ record[t].status # "none" /\ ByHand(record[t]) /\ IsRow(record[t])
        /\ me.got[t].kind = "cached" => me.got[t].status # "none" /\ ByHand(me.got[t])
    BY <1>1 DEF KeptInv, VerdictInv, RecordsInv
  <2>2. CASE me.got[t].kind = "cached"
    <3>1. record'[t] = [status |-> me.got[t].status, of |-> me.got[t].of, hash |-> me.seen[t],
                        error |-> FALSE, days |-> Persistable(me.got[t])]
      BY <2>1, <2>2 DEF Stored
    <3>2. record'[t].status = me.got[t].status /\ record'[t].days = Persistable(me.got[t])
      BY <3>1
    <3>3. QED
      BY <2>1, <2>2, <3>2 DEF Persistable, ByHand
  <2>3. CASE me.got[t].kind # "cached"
    <3>1. record'[t] = [record[t] EXCEPT !.hash = me.seen[t], !.error = TRUE]
      BY <2>1, <2>3 DEF Stored
    <3>2. record'[t].status = record[t].status /\ record'[t].days = record[t].days
      BY <2>1, <3>1 DEF IsRow
    <3>3. QED
      BY <2>1, <3>2 DEF ByHand
  <2>4. QED
    BY <2>2, <2>3
<1>5. ASSUME NEW t \in kept', NEW q \in Threads
      PROVE  /\ thread'[q].pc = "analyse" /\ thread'[q].got[t].kind = "cached" =>
                   thread'[q].got[t].status # "none" /\ ByHand(thread'[q].got[t])
             /\ thread'[q].pc = "propose" => ByHand(thread'[q].read[t])
  BY <1>1, <1>2, <1>3, <1>5 DEF KeptInv
<1>6. /\ kept' \subseteq Tickets /\ \A t \in kept' : latest'[t] = "human"
      /\ latest' = [t \in Tickets |-> latest'[t]]
  BY <1>1 DEF KeptInv
<1> HIDE DEF next
<1>7. QED
  BY <1>4, <1>5, <1>6 DEF KeptInv

\* Estimations written from rows that were read keep the human's.
LEMMA KeptProposed ==
    ASSUME KeptInv, VerdictInv', NEW p \in Threads, Propose(p)
    PROVE  KeptInv'
<1> DEFINE me   == thread[p]
           read == me.read
           next == [Idle EXCEPT !.pc = "complete", !.run = me.run]
           new  == IF me.run = 0 THEN Idle ELSE next
<1>1. /\ me.pc = "propose" /\ Go(p, new) /\ kept' = kept
      /\ latest' = [t \in Tickets |-> IF Estimable(t, read) THEN EstimateOf(read[t]) ELSE latest[t]]
      /\ record' = [t \in Tickets |-> IF Estimable(t, read)
                                      THEN [record[t] EXCEPT !.days = EstimateOf(read[t])]
                                      ELSE record[t]]
  BY DEF Propose, observers
<1>2. new.pc \notin {"analyse", "propose"}
  BY DEF Idle
<1> HIDE DEF new
<1>3. \A q \in Threads : thread'[q] = IF q = p THEN new ELSE thread[q]
  BY <1>1 DEF KeptInv, VerdictInv, ThreadsInv, Go
<1>4. ASSUME NEW t \in kept
      PROVE  latest'[t] = "human" /\ record'[t].status # "none" /\ ByHand(record'[t])
  <2>1. /\ t \in Tickets /\ latest[t] = "human" /\ record[t].status # "none"
        /\ ByHand(record[t]) /\ ByHand(read[t]) /\ IsRow(record[t])
    BY <1>1 DEF KeptInv, VerdictInv, RecordsInv
  <2>2. CASE Estimable(t, read)
    <3>1. EstimateOf(read[t]) = "human"
      BY <2>1, <2>2 DEF Estimable, EstimateOf, ByHand
    <3>2. latest'[t] = "human" /\ record'[t] = [record[t] EXCEPT !.days = "human"]
      BY <1>1, <2>1, <2>2, <3>1
    <3>3. record'[t].status = record[t].status /\ record'[t].days = "human"
      BY <2>1, <3>2 DEF IsRow
    <3>4. QED
      BY <2>1, <3>2, <3>3 DEF ByHand
  <2>3. CASE ~Estimable(t, read)
    BY <1>1, <2>1, <2>3
  <2>4. QED
    BY <2>2, <2>3
<1>5. latest' = [t \in Tickets |-> latest'[t]] /\ kept' \subseteq Tickets
  BY <1>1 DEF KeptInv
<1>6. ASSUME NEW t \in kept, NEW q \in Threads
      PROVE  /\ thread'[q].pc = "analyse" /\ thread'[q].got[t].kind = "cached" =>
                   thread'[q].got[t].status # "none" /\ ByHand(thread'[q].got[t])
             /\ thread'[q].pc = "propose" => ByHand(thread'[q].read[t])
  BY <1>2, <1>3, <1>6 DEF KeptInv
<1>7. kept' = kept
  BY <1>1
<1> HIDE DEF read, next
<1>8. QED
  BY <1>4, <1>5, <1>6, <1>7 DEF KeptInv

\* A ticket is kept when nobody analyses or proposes.
LEMMA KeptEstimated ==
    ASSUME KeptInv, VerdictInv', NEW t \in Tickets, EstimateByHand(t)
    PROVE  KeptInv'
<1>1. /\ record[t].status # "none" /\ latest' = [latest EXCEPT ![t] = "human"]
      /\ record' = [record EXCEPT ![t].days = "human"] /\ thread' = thread
      /\ kept' = IF AllIdle THEN kept \cup {t} ELSE kept \ {t}
  BY DEF EstimateByHand
<1>2. /\ \A u \in Tickets : latest'[u] = IF u = t THEN "human" ELSE latest[u]
      /\ latest' = [u \in Tickets |-> latest'[u]]
  BY <1>1 DEF KeptInv
<1>3. \A u \in Tickets : record'[u] = IF u = t THEN [record[u] EXCEPT !.days = "human"]
                                      ELSE record[u]
  BY <1>1 DEF KeptInv, VerdictInv, RecordsInv
<1>4. record'[t].status = record[t].status /\ record'[t].days = "human"
  BY <1>3 DEF KeptInv, VerdictInv, RecordsInv, IsRow
<1>5. ASSUME NEW u \in kept'
      PROVE  /\ latest'[u] = "human" /\ record'[u].status # "none" /\ ByHand(record'[u])
             /\ \A p \in Threads :
                   /\ thread'[p].pc = "analyse" /\ thread'[p].got[u].kind = "cached" =>
                         thread'[p].got[u].status # "none" /\ ByHand(thread'[p].got[u])
                   /\ thread'[p].pc = "propose" => ByHand(thread'[p].read[u])
  <2>1. CASE u = t
    <3>1. AllIdle
      BY <1>1, <2>1
    <3>2. \A p \in Threads : thread'[p].pc = "idle"
      BY <1>1, <3>1 DEF AllIdle
    <3>3. QED
      BY <1>1, <1>2, <1>4, <2>1, <3>2 DEF ByHand
  <2>2. CASE u # t
    <3>1. u \in kept /\ u \in Tickets
      BY <1>1, <2>2 DEF KeptInv
    <3>2. latest'[u] = latest[u] /\ record'[u] = record[u]
      BY <1>2, <1>3, <2>2, <3>1
    <3>3. QED
      BY <1>1, <3>1, <3>2 DEF KeptInv
  <2>3. QED
    BY <2>1, <2>2
<1>6. kept' \subseteq Tickets
  BY <1>1 DEF KeptInv
<1>7. QED
  BY <1>2, <1>5, <1>6 DEF KeptInv

\* A ticket that is reanalysed is not kept.
LEMMA KeptReanalyzed ==
    ASSUME KeptInv, VerdictInv', NEW t \in Tickets, Reanalyze(t)
    PROVE  KeptInv'
<1>1. /\ UNCHANGED <<thread, latest>> /\ kept' = kept \ {t}
      /\ \E new : record' = [record EXCEPT ![t] = new]
  <2>0. PICK version \in {jira[t], record[t].of} : \E status, days :
           record' = [record EXCEPT ![t].status = status, ![t].of = version, ![t].days = days]
    BY ReanalyzeWrites
  <2>1. PICK status, days :
           record' = [record EXCEPT ![t].status = status, ![t].of = version, ![t].days = days]
    BY <2>0
  <2> DEFINE new == [record[t] EXCEPT !.status = status, !.of = version, !.days = days]
  <2>2. record' = [record EXCEPT ![t] = new]
    BY <2>1 DEF KeptInv, VerdictInv, RecordsInv
  <2> HIDE DEF new
  <2>3. QED
    BY <2>2 DEF Reanalyze
<1>2. \A u \in kept' : u \in kept /\ record'[u] = record[u]
  BY <1>1 DEF KeptInv, VerdictInv, RecordsInv
<1>3. QED
  BY <1>1, <1>2 DEF KeptInv

\* The invariant is inductive.
LEMMA KeptStep ==
    ASSUME KeptInv, [Next]_vars
    PROVE  KeptInv'
<1>1. VerdictInv'
  BY VerdictStep DEF KeptInv
<1>2. ASSUME NEW p \in Threads,
             \/ ThreadStep(p) \/ \E force \in BOOLEAN : Request(p, force)
             \/ Scheduled(p) \/ Scan(p) \/ RefreshCommunications(p)
      PROVE  KeptInv'
  BY <1>1, <1>2, KeptAround, KeptAnalysis, KeptStored, KeptProposed DEF ThreadStep
<1>3. ASSUME NEW t \in Tickets, EstimateByHand(t) \/ Reanalyze(t) PROVE KeptInv'
  BY <1>1, <1>3, KeptEstimated, KeptReanalyzed
<1>4. CASE UNCHANGED <<record, latest, thread, kept>>
  BY <1>1, <1>4 DEF KeptInv
<1>5. CASE Crash
  <2>1. thread' = [q \in Threads |-> Idle] /\ UNCHANGED <<record, latest, kept>>
    BY <1>5 DEF Crash, rows
  <2>2. \A q \in Threads : thread'[q].pc = "idle"
    BY <2>1 DEF Idle
  <2>3. QED
    BY <1>1, <2>1, <2>2 DEF KeptInv
<1>6. \/ \E p \in Threads : \/ ThreadStep(p) \/ \E force \in BOOLEAN : Request(p, force)
                            \/ Scheduled(p) \/ Scan(p) \/ RefreshCommunications(p)
      \/ \E t \in Tickets : EstimateByHand(t) \/ Reanalyze(t)
      \/ Crash \/ UNCHANGED <<record, latest, thread, kept>>
  BY DEF Next, vars, rows, observers, PollInbox, NewDay, GrowOld, StrayEnds, ChangeTicket,
         WriteDecision, ReadProposal
<1>7. QED
  BY <1>2, <1>3, <1>4, <1>5, <1>6

\* A human's estimate given between two runs (update_ticket_estimation) stands until the
\* ticket is analysed anew, whatever runs reuse, fail or refresh meanwhile.
THEOREM EstimatesStand == Spec => []ManualEstimateStands
<1>1. Init => KeptInv
  <2> SUFFICES ASSUME Init PROVE KeptInv
    OBVIOUS
  <2>1. VerdictInv
    BY VerdictInit
  <2>2. kept = {} /\ latest = [t \in Tickets |-> latest[t]]
    BY DEF Init
  <2>3. QED
    BY <2>1, <2>2 DEF KeptInv
<1>2. KeptInv => ManualEstimateStands
  BY DEF KeptInv, ManualEstimateStands
<1>3. QED
  BY <1>1, <1>2, KeptStep, PTL DEF Spec
----------------------------------------------------------------------------
(* Decisions. *)

Proposals == [ticket : Tickets, status : {"pending", "approved", "rejected"},
              body : {"template", "edited"}]

\* A request has the fields of one, and one that decides has read a proposal.
IsRequest(r) ==
    /\ r \in [pc : {r.pc}, id : {r.id}, action : {r.action}, body : {r.body}]
    /\ r.pc = "decide" => r.id \in 1 .. Len(proposals) /\ r.body \in {"template", "edited"}

\* As long as no two decisions overlapped, one request decides, and nobody else
\* has decided what it has read.
DecisionInv ==
    /\ proposals \in Seq(Proposals)
    /\ request = [h \in Humans |-> request[h]] /\ \A h \in Humans : IsRequest(request[h])
    /\ "overlap" \notin incidents =>
          \A h \in Humans : request[h].pc = "decide" =>
              /\ proposals[request[h].id].status = "pending"
              /\ \A g \in Humans : request[g].pc = "decide" => g = h
    /\ \A h \in Humans : request[h].pc \in {"idle", "decide"}

\* Every ticket in scope gets its place: SetToSeq lists a set of tickets.
LEMMA TicketsInOrder ==
    ASSUME NEW S \in SUBSET Tickets
    PROVE  SetToSeq(S) \in [1 .. Cardinality(S) -> S] /\ Cardinality(S) \in Nat
<1>1. IsFiniteSet(S)
  BY AnalysisAssumption, FS_Subset
<1>2. Cardinality(S) \in Nat /\ ExistsBijection(1 .. Cardinality(S), S)
  BY <1>1, FS_CardinalityType
<1>3. \E f \in [1 .. Cardinality(S) -> S] : IsInjective(f)
  BY <1>2 DEF ExistsBijection, Bijection, Injection
<1>4. QED
  BY <1>2, <1>3 DEF SetToSeq

\* A refreshed proposal keeps its ticket and its status, and one that is decided its body.
LEMMA RefreshKeeps ==
    ASSUME NEW list \in Seq(Proposals), NEW asking
    PROVE  /\ Refreshed(list, asking) \in Seq(Proposals)
           /\ Len(Refreshed(list, asking)) = Len(list)
           /\ \A i \in 1 .. Len(list) :
                 /\ Refreshed(list, asking)[i].status = list[i].status
                 /\ list[i].status # "pending" => Refreshed(list, asking)[i] = list[i]
<1> DEFINE reused == {CHOOSE i \in PendingOf(list, t) : TRUE :
                         t \in {u \in asking : PendingOf(list, u) # {}}}
           n   == Len(list)
           new == [i \in DOMAIN list |-> IF i \in reused THEN [list[i] EXCEPT !.body = "template"]
                                         ELSE list[i]]
<1>1. n \in Nat /\ DOMAIN list = 1 .. n /\ \A i \in 1 .. n : list[i] \in Proposals
  OBVIOUS
<1>2. \A i \in reused : list[i].status = "pending"
  <2>1. ASSUME NEW t, PendingOf(list, t) # {}
        PROVE  list[CHOOSE i \in PendingOf(list, t) : TRUE].status = "pending"
    <3>1. (CHOOSE i \in PendingOf(list, t) : TRUE) \in PendingOf(list, t)
      BY <2>1
    <3>2. QED
      BY <3>1 DEF PendingOf
  <2>2. QED
    BY <2>1
<1>3. Refreshed(list, asking) = new
  BY DEF Refreshed
<1> HIDE DEF reused
<1>4. ASSUME NEW i \in 1 .. n
      PROVE  /\ new[i] \in Proposals /\ new[i].status = list[i].status
             /\ list[i].status # "pending" => new[i] = list[i]
  <2>1. CASE i \in reused
    <3>1. new[i] = [list[i] EXCEPT !.body = "template"] /\ list[i].status = "pending"
      BY <1>1, <1>2, <2>1
    <3>2. QED
      BY <1>1, <3>1 DEF Proposals
  <2>2. CASE i \notin reused
    BY <1>1, <2>2
  <2>3. QED
    BY <2>1, <2>2
<1>5. DOMAIN new = 1 .. n /\ new = [i \in 1 .. n |-> new[i]]
  BY <1>1
<1> HIDE DEF new
<1>6. new \in [1 .. n -> Proposals]
  BY <1>4, <1>5
<1>7. new \in Seq(Proposals) /\ Len(new) = n
  BY <1>1, <1>6
<1>8. QED
  BY <1>3, <1>4, <1>7

\* What is inserted are pending proposals.
LEMMA InsertedArePending ==
    ASSUME NEW list, NEW asking \in SUBSET Tickets
    PROVE  Inserted(list, asking) \in Seq(Proposals)
<1> DEFINE fresh == {t \in asking : PendingOf(list, t) = {}}
           order == SetToSeq(fresh)
           n     == Cardinality(fresh)
           new   == [i \in DOMAIN order |-> [ticket |-> order[i], status |-> "pending",
                                             body |-> "template"]]
<1>1. order \in [1 .. n -> fresh] /\ n \in Nat
  BY TicketsInOrder
<1>2. Inserted(list, asking) = new
  BY DEF Inserted
<1>3. fresh \subseteq Tickets
  OBVIOUS
<1> HIDE DEF fresh, order, n
<1>4. new \in [1 .. n -> Proposals]
  BY <1>1, <1>3 DEF Proposals
<1> HIDE DEF new
<1>5. QED
  BY <1>1, <1>2, <1>4

\* The first of two joined sequences is found where it was.
LEMMA OneAfterTheOther ==
    ASSUME NEW S, NEW first \in Seq(S), NEW rest \in Seq(S)
    PROVE  /\ first \o rest \in Seq(S) /\ Len(first \o rest) >= Len(first)
           /\ \A i \in 1 .. Len(first) : (first \o rest)[i] = first[i]
OBVIOUS

\* A run or a refresh that proposes leaves every status as it was.
LEMMA ProposeKeeps ==
    ASSUME proposals \in Seq(Proposals), NEW p \in Threads, Propose(p)
    PROVE  /\ proposals' \in Seq(Proposals) /\ Len(proposals') >= Len(proposals)
           /\ \A i \in 1 .. Len(proposals) :
                 /\ proposals'[i].status = proposals[i].status
                 /\ proposals[i].status # "pending" => proposals'[i] = proposals[i]
<1> DEFINE asking == Asking(thread[p].read)
           old    == Refreshed(proposals, asking)
           more   == Inserted(proposals, asking)
<1>1. proposals' = old \o more
  BY DEF Propose
<1>2. asking \in SUBSET Tickets
  BY DEF Asking
<1> HIDE DEF asking
<1>3. /\ old \in Seq(Proposals) /\ Len(old) = Len(proposals)
      /\ \A i \in 1 .. Len(proposals) :
            /\ old[i].status = proposals[i].status
            /\ proposals[i].status # "pending" => old[i] = proposals[i]
  BY RefreshKeeps
<1>4. more \in Seq(Proposals)
  BY <1>2, InsertedArePending
<1> HIDE DEF old, more
<1>5. /\ old \o more \in Seq(Proposals) /\ Len(old \o more) >= Len(old)
      /\ \A i \in 1 .. Len(old) : (old \o more)[i] = old[i]
  BY <1>3, <1>4, OneAfterTheOther
<1>6. QED
  BY <1>1, <1>3, <1>5

\* What a step of the analysis does to proposals and to the requests that decide them.
LEMMA ProposalsMove ==
    ASSUME [Next]_vars
    PROVE  \/ UNCHANGED <<proposals, request>> /\ incidents \subseteq incidents'
           \/ \E p \in Threads : Propose(p) /\ UNCHANGED <<request, incidents>>
           \/ \E h \in Humans : WriteDecision(h) /\ UNCHANGED incidents
           \/ \E h \in Humans, i \in 1 .. MaxProposals, action \in {"approve", "reject", "edit"} :
                 ReadProposal(h, i, action)
           \/ Crash
<1>1. CASE UNCHANGED vars
  BY <1>1 DEF vars
<1>2. ASSUME NEW p \in Threads, Propose(p)
      PROVE  Propose(p) /\ UNCHANGED <<request, incidents>>
  BY <1>2 DEF Propose, observers
<1>3. ASSUME NEW h \in Humans, WriteDecision(h) PROVE WriteDecision(h) /\ UNCHANGED incidents
  BY <1>3 DEF WriteDecision, observers
<1>4. ASSUME NEW p \in Threads, ThreadStep(p) \/ Scheduled(p) \/ Scan(p)
                                \/ RefreshCommunications(p)
                                \/ \E force \in BOOLEAN : Request(p, force)
      PROVE  Propose(p) \/ (UNCHANGED <<proposals, request>> /\ incidents \subseteq incidents')
  BY <1>4 DEF ThreadStep, rows, observers, Request, Scheduled, Scan, RefreshCommunications,
         AcquireLock, ReserveLate, GiveUp, Fetch, Interference, PipelineFails, RequestFails,
         TakeTicket, AgentAnswers,
         AgentFails, AgentTimesOut, StoreOutcomes, Qualify, Complete
<1>5. ASSUME PollInbox \/ NewDay \/ (\E r \in RunIds : GrowOld(r))
             \/ \E t \in Tickets : StrayEnds(t) \/ EstimateByHand(t) \/ Reanalyze(t)
                                  \/ ChangeTicket(t)
      PROVE  UNCHANGED <<proposals, request>> /\ incidents \subseteq incidents'
  BY <1>5 DEF rows, observers, PollInbox, NewDay, GrowOld, StrayEnds, EstimateByHand,
         Reanalyze, Interference, ChangeTicket
<1>6. QED
  BY <1>1, <1>2, <1>3, <1>4, <1>5 DEF Next

\* A decision is about one proposal, and takes a status the form has.
LEMMA DecisionWrites ==
    ASSUME DecisionInv, NEW h \in Humans, WriteDecision(h)
    PROVE  /\ proposals' \in Seq(Proposals) /\ Len(proposals') = Len(proposals)
           /\ request[h].pc = "decide" /\ request[h].id \in 1 .. Len(proposals)
           /\ \A i \in 1 .. Len(proposals) : i # request[h].id => proposals'[i] = proposals[i]
           /\ \A g \in Humans : request'[g] = IF g = h THEN NoRequest ELSE request[g]
           /\ request' = [g \in Humans |-> request'[g]]
<1> DEFINE me  == request[h]
           id  == me.id
           new == Decided(proposals[id], me)
<1>1. me.pc = "decide" /\ proposals' = [proposals EXCEPT ![id] = new]
      /\ request' = [request EXCEPT ![h] = NoRequest]
  BY DEF WriteDecision
<1>2. id \in 1 .. Len(proposals) /\ me.body \in {"template", "edited"}
  BY <1>1 DEF DecisionInv, IsRequest
<1>3. proposals \in Seq(Proposals) /\ proposals[id] \in Proposals
  BY <1>2 DEF DecisionInv
<1>4. new \in Proposals
  BY <1>2, <1>3 DEF Decided, Proposals
<1> HIDE DEF new, id
<1>5. /\ proposals' \in Seq(Proposals) /\ Len(proposals') = Len(proposals)
      /\ \A i \in 1 .. Len(proposals) : i # id => proposals'[i] = proposals[i]
  BY <1>1, <1>2, <1>3, <1>4
<1>6. /\ \A g \in Humans : request'[g] = IF g = h THEN NoRequest ELSE request[g]
      /\ request' = [g \in Humans |-> request'[g]]
  BY <1>1 DEF DecisionInv
<1>7. QED
  BY <1>1, <1>2, <1>5, <1>6 DEF id

\* A request that decides has read a pending proposal.
LEMMA DecisionReads ==
    ASSUME DecisionInv, NEW h \in Humans, NEW i, NEW action, ReadProposal(h, i, action)
    PROVE  DecisionInv'
<1> DEFINE new == [pc |-> "decide", id |-> i, action |-> action, body |-> proposals[i].body]
           others == {g \in Humans \ {h} : request[g].pc # "idle"}
<1>1. /\ request' = [request EXCEPT ![h] = new] /\ proposals' = proposals
      /\ i \in DOMAIN proposals /\ proposals[i].status = "pending"
      /\ incidents' = incidents \cup (IF others = {} THEN {} ELSE {"overlap"})
  BY DEF ReadProposal, rows
<1>2. i \in 1 .. Len(proposals) /\ proposals[i].body \in {"template", "edited"}
  <2>1. proposals \in Seq(Proposals)
    BY DEF DecisionInv
  <2>2. i \in 1 .. Len(proposals) /\ proposals[i] \in Proposals
    BY <1>1, <2>1
  <2>3. QED
    BY <2>2 DEF Proposals
<1>3. /\ new.pc = "decide" /\ new.id = i /\ new.body = proposals[i].body
      /\ new \in [pc : {new.pc}, id : {new.id}, action : {new.action}, body : {new.body}]
  OBVIOUS
<1> HIDE DEF new
<1>4. /\ \A g \in Humans : request'[g] = IF g = h THEN new ELSE request[g]
      /\ request' = [g \in Humans |-> request'[g]]
  BY <1>1 DEF DecisionInv
<1>5. ASSUME NEW g \in Humans PROVE IsRequest(request[g])' /\ request'[g].pc \in {"idle", "decide"}
  <2>1. CASE g = h
    BY <1>1, <1>2, <1>3, <1>4, <2>1 DEF IsRequest
  <2>2. CASE g # h
    BY <1>1, <1>4, <2>2 DEF IsRequest, DecisionInv
  <2>3. QED
    BY <2>1, <2>2
<1>6. ASSUME "overlap" \notin incidents', NEW g \in Humans, request'[g].pc = "decide"
      PROVE  g = h /\ proposals'[request'[g].id].status = "pending"
  <2>1. others = {}
    BY <1>1, <1>6
  <2>2. g = h
    BY <1>4, <1>6, <2>1
  <2>3. QED
    BY <1>1, <1>3, <1>4, <2>2
<1>7. QED
  BY <1>1, <1>4, <1>5, <1>6 DEF DecisionInv

\* The invariant is inductive.
LEMMA DecisionStep ==
    ASSUME DecisionInv, [Next]_vars
    PROVE  DecisionInv'
<1>1. CASE UNCHANGED <<proposals, request>> /\ incidents \subseteq incidents'
  BY <1>1 DEF DecisionInv, IsRequest
<1>2. ASSUME NEW p \in Threads, Propose(p), UNCHANGED <<request, incidents>>
      PROVE  DecisionInv'
  <2>1. /\ proposals' \in Seq(Proposals) /\ Len(proposals') >= Len(proposals)
        /\ \A i \in 1 .. Len(proposals) : proposals'[i].status = proposals[i].status
    BY <1>2, ProposeKeeps DEF DecisionInv
  <2>2. Len(proposals) \in Nat /\ Len(proposals') \in Nat
    BY <2>1 DEF DecisionInv
  <2>3. \A h \in Humans : IsRequest(request[h])'
    BY <1>2, <2>1, <2>2 DEF DecisionInv, IsRequest
  <2>4. ASSUME "overlap" \notin incidents, NEW h \in Humans, request[h].pc = "decide"
        PROVE  proposals'[request[h].id].status = "pending"
    BY <2>1, <2>4 DEF DecisionInv, IsRequest
  <2>5. QED
    BY <1>2, <2>1, <2>3, <2>4 DEF DecisionInv
<1>3. ASSUME NEW h \in Humans, WriteDecision(h), UNCHANGED incidents PROVE DecisionInv'
  <2>1. /\ proposals' \in Seq(Proposals) /\ Len(proposals') = Len(proposals)
        /\ request[h].pc = "decide"
        /\ \A g \in Humans : request'[g] = IF g = h THEN NoRequest ELSE request[g]
        /\ request' = [g \in Humans |-> request'[g]]
    BY <1>3, DecisionWrites
  <2>2. ASSUME NEW g \in Humans
        PROVE  IsRequest(request[g])' /\ request'[g].pc \in {"idle", "decide"}
    <3>1. CASE g = h
      BY <2>1, <3>1 DEF IsRequest, NoRequest
    <3>2. CASE g # h
      BY <2>1, <3>2 DEF IsRequest, DecisionInv
    <3>3. QED
      BY <3>1, <3>2
  <2>3. ASSUME "overlap" \notin incidents PROVE \A g \in Humans : request'[g].pc # "decide"
    BY <2>1, <2>3 DEF DecisionInv, NoRequest
  <2>4. QED
    BY <1>3, <2>1, <2>2, <2>3 DEF DecisionInv
<1>4. CASE Crash
  <2>1. request' = [h \in Humans |-> NoRequest] /\ proposals' = proposals
    BY <1>4 DEF Crash, rows
  <2>2. /\ request' = [h \in Humans |-> request'[h]]
        /\ \A h \in Humans : IsRequest(request[h])' /\ request'[h].pc = "idle"
    BY <2>1 DEF IsRequest, NoRequest
  <2>3. QED
    BY <2>1, <2>2 DEF DecisionInv
<1>5. QED
  BY <1>1, <1>2, <1>3, <1>4, DecisionReads, ProposalsMove

\* A step leaves what is decided as it is.
LEMMA StepKeepsDecisions ==
    ASSUME DecisionInv, DecisionInv', [Next]_vars, incidents' \cap {"overlap"} = {},
           NEW i \in DOMAIN proposals, proposals[i].status # "pending"
    PROVE  proposals'[i] = proposals[i]
<1>1. i \in 1 .. Len(proposals) /\ proposals \in Seq(Proposals)
  BY DEF DecisionInv
<1>2. ASSUME NEW h \in Humans, WriteDecision(h), UNCHANGED incidents
      PROVE  proposals'[i] = proposals[i]
  <2>1. /\ request[h].pc = "decide"
        /\ \A j \in 1 .. Len(proposals) : j # request[h].id => proposals'[j] = proposals[j]
    BY <1>2, DecisionWrites
  <2>2. proposals[request[h].id].status = "pending"
    BY <1>2, <2>1 DEF DecisionInv
  <2>3. QED
    BY <1>1, <2>1, <2>2
<1>3. ASSUME NEW p \in Threads, Propose(p) PROVE proposals'[i] = proposals[i]
  BY <1>1, <1>3, ProposeKeeps
<1>4. ASSUME Crash \/ \E h \in Humans, j \in 1 .. MaxProposals,
                         action \in {"approve", "reject", "edit"} : ReadProposal(h, j, action)
      PROVE  proposals' = proposals
  BY <1>4 DEF Crash, ReadProposal, rows
<1>5. QED
  BY <1>2, <1>3, <1>4, ProposalsMove

\* A proposal that was approved or rejected (decide_comment_proposal) stays so: runs and
\* refreshes rewrite only pending ones (upsert_comment_proposal), a restart forgets who
\* was deciding; two decisions that overlap are excluded.
THEOREM DecisionsAreKept == Spec => DecisionsStand
<1>1. Init => DecisionInv
  BY DEF Init, DecisionInv, IsRequest, NoRequest
<1>2. DecisionInv /\ [Next]_vars => DecisionInv'
  BY DecisionStep
<1>3. DecisionInv /\ DecisionInv' /\ [Next]_vars =>
         [incidents' \cap {"overlap"} = {} =>
            \A i \in DOMAIN proposals :
               proposals[i].status # "pending" => proposals'[i] = proposals[i]]_vars
  BY StepKeepsDecisions
<1>4. QED
  BY <1>1, <1>2, <1>3, PTL DEF Spec, DecisionsStand
=============================================================================
