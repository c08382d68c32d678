------------------------- MODULE TeamWorkspace_proofs -------------------------
(***************************************************************************)
(* Theorems about a team, for every set of users and every environment:    *)
(* what is marked as flushed arrived, an admin stays, the snapshot never   *)
(* goes back and the index of a user agrees with the members.  The proofs  *)
(* need what a request carries, and not the type of every document.        *)
(***************************************************************************)
EXTENDS TeamWorkspace, WellFoundedInduction, TLAPS

\* Steps at which a request gives or takes a role.
WithMember == {"add", "join", "remove"}

\* Where a request may go on after the index is written.
Nexts == {"idle", "joinable", "accepted"}

\* A request has the fields of one, whatever they hold, and is about a user
\* when it gives or takes a role.
IsRequest(r) ==
    /\ r \in [pc : {r.pc}, who : {r.who}, as : {r.as}, org : {r.org}, add : {r.add},
              orgs : {r.orgs}, then : {r.then}, batch : {r.batch}, accepted : {r.accepted},
              event : {r.event}]
    /\ r.then \in Nexts
    /\ r.pc \in WithMember => r.who \in Users

\* What a request counts as accepted is in the log already, and so is the event
\* whose snapshot it is about to write.
Acknowledges(r, events) ==
    /\ r.accepted \subseteq events
    /\ r.pc = "reconcile_snapshot" => r.event[1].id \in events

\* The inductive invariant for the queue.
FlushInv ==
    /\ request = [v \in Users |-> request[v]]
    /\ \A v \in Users : IsRequest(request[v]) /\ Acknowledges(request[v], log)
    /\ flushed \subseteq log

----------------------------------------------------------------------------
(* Requests. *)

LEMMA GoOn ==
    ASSUME request = [v \in Users |-> request[v]], NEW u \in Users, NEW new, Go(u, new)
    PROVE  /\ request' = [v \in Users |-> request'[v]]
           /\ \A v \in Users : request'[v] = IF v = u THEN new ELSE request[v]
BY DEF Go

\* A step that takes one request on, and only adds to the log.
LEMMA FlushKept ==
    ASSUME FlushInv, NEW u \in Users, NEW new, Go(u, new),
           IsRequest(new), Acknowledges(new, log'), log \subseteq log', flushed' \subseteq log'
    PROVE  FlushInv'
<1>1. \A r : Acknowledges(r, log) => Acknowledges(r, log')
  BY DEF Acknowledges
<1>2. QED
  BY <1>1, GoOn DEF FlushInv

LEMMA IdleRequest ==
    /\ IsRequest(Idle) /\ Idle.pc = "idle" /\ Idle.accepted = {}
    /\ \A events : Acknowledges(Idle, events)
BY DEF IsRequest, Idle, WithMember, Nexts, Acknowledges

\* A new request has accepted nothing.
LEMMA NewRequest ==
    ASSUME NEW pc, pc \notin WithMember, pc # "reconcile_snapshot", NEW who, NEW as, NEW events
    PROVE  /\ IsRequest([Idle EXCEPT !.pc = pc, !.who = who, !.as = as])
           /\ IsRequest([Idle EXCEPT !.pc = pc, !.who = who])
           /\ IsRequest([Idle EXCEPT !.pc = pc])
           /\ Acknowledges([Idle EXCEPT !.pc = pc, !.who = who, !.as = as], events)
           /\ Acknowledges([Idle EXCEPT !.pc = pc, !.who = who], events)
           /\ Acknowledges([Idle EXCEPT !.pc = pc], events)
           /\ [Idle EXCEPT !.pc = pc].pc = pc
BY DEF IsRequest, Idle, Nexts, Acknowledges

LEMMA NewMemberRequest ==
    ASSUME NEW pc \in WithMember, NEW who \in Users, NEW as, NEW events
    PROVE  /\ IsRequest([Idle EXCEPT !.pc = pc, !.who = who, !.as = as])
           /\ IsRequest([Idle EXCEPT !.pc = pc, !.who = who])
           /\ Acknowledges([Idle EXCEPT !.pc = pc, !.who = who, !.as = as], events)
           /\ Acknowledges([Idle EXCEPT !.pc = pc, !.who = who], events)
BY DEF IsRequest, Idle, WithMember, Nexts, Acknowledges

\* Writing the index keeps what was accepted.
LEMMA SyncRequest ==
    ASSUME NEW r, IsRequest(r), NEW who, NEW org, NEW add, NEW then \in Nexts, NEW events,
           Acknowledges(r, events)
    PROVE  /\ IsRequest(Sync(r, who, org, add, then))
           /\ Acknowledges(Sync(r, who, org, add, then), events)
           /\ Sync(r, who, org, add, then).pc = "sync_read"
BY DEF IsRequest, Sync, WithMember, Acknowledges

----------------------------------------------------------------------------
(* The queue. *)

LEMMA BeginFlush ==
    ASSUME FlushInv, NEW u \in Users, NEW new, Begin(u, new), IsRequest(new),
           Acknowledges(new, log), UNCHANGED <<order, flushed>>
    PROVE  FlushInv'
<1>1. Go(u, new) /\ log' = log /\ flushed' = flushed
  BY DEF Begin, order
<1>2. Acknowledges(new, log')
  BY <1>1
<1>3. QED
  BY <1>1, <1>2, FlushKept DEF FlushInv

LEMMA CallFlush ==
    ASSUME FlushInv, NEW u \in Users, Call(u)
    PROVE  FlushInv'
<1>1. ASSUME NEW t \in Users, NEW as \in Roles, InviteMember(u, t, as) PROVE FlushInv'
  <2>1. /\ IsRequest([Idle EXCEPT !.pc = "add", !.who = t, !.as = as])
        /\ IsRequest([Idle EXCEPT !.pc = "invite", !.who = t, !.as = as])
        /\ Acknowledges([Idle EXCEPT !.pc = "add", !.who = t, !.as = as], log)
        /\ Acknowledges([Idle EXCEPT !.pc = "invite", !.who = t, !.as = as], log)
    BY NewRequest, NewMemberRequest DEF WithMember
  <2>2. QED
    BY <1>1, <2>1, BeginFlush DEF InviteMember
<1>2. ASSUME NEW t \in Users, RevokeInvite(u, t) PROVE FlushInv'
  <2>1. /\ IsRequest([Idle EXCEPT !.pc = "revoke", !.who = t])
        /\ Acknowledges([Idle EXCEPT !.pc = "revoke", !.who = t], log)
    BY NewRequest DEF WithMember
  <2>2. QED
    BY <1>2, <2>1, BeginFlush DEF RevokeInvite
<1>3. ASSUME NEW t \in Users, RemoveMember(u, t) PROVE FlushInv'
  <2>1. /\ IsRequest([Idle EXCEPT !.pc = "remove", !.who = t])
        /\ Acknowledges([Idle EXCEPT !.pc = "remove", !.who = t], log)
    BY NewMemberRequest DEF WithMember
  <2>2. QED
    BY <1>3, <2>1, BeginFlush DEF RemoveMember
<1>4. CASE Bootstrap(u)
  <2>1. IsRequest([Idle EXCEPT !.pc = "profile"]) /\ Acknowledges([Idle EXCEPT !.pc = "profile"], log)
    BY NewRequest DEF WithMember
  <2>2. QED
    BY <1>4, <2>1, BeginFlush DEF Bootstrap
<1>5. CASE SetActiveOrg(u)
  <2>1. IsRequest([Idle EXCEPT !.pc = "active"]) /\ Acknowledges([Idle EXCEPT !.pc = "active"], log)
    BY NewRequest DEF WithMember
  <2>2. QED
    BY <1>5, <2>1, BeginFlush DEF SetActiveOrg
<1>6. CASE AcquireLock(u)
  <2>1. IsRequest([Idle EXCEPT !.pc = "lock"]) /\ Acknowledges([Idle EXCEPT !.pc = "lock"], log)
    BY NewRequest DEF WithMember
  <2>2. QED
    BY <1>6, <2>1, BeginFlush DEF AcquireLock
<1>7. CASE ReleaseLock(u)
  <2>1. IsRequest([Idle EXCEPT !.pc = "unlock"]) /\ Acknowledges([Idle EXCEPT !.pc = "unlock"], log)
    BY NewRequest DEF WithMember
  <2>2. QED
    BY <1>7, <2>1, BeginFlush DEF ReleaseLock
<1>8. ASSUME NEW open \in BOOLEAN, Change(u, open) PROVE FlushInv'
  <2> DEFINE pc == IF open THEN "mirror_open" ELSE "mirror"
             e  == <<[id |-> clock + 1, version |-> IF open THEN local[u] ELSE clock + 1]>>
             new == [Idle EXCEPT !.pc = pc, !.event = e]
  <2>1. Go(u, new) /\ UNCHANGED <<log, flushed>>
    BY <1>8 DEF Change, order
  <2>2. pc \in {"mirror", "mirror_open"}
    OBVIOUS
  <2> HIDE DEF pc, e
  <2>3. IsRequest(new) /\ Acknowledges(new, log)
    BY <2>2 DEF IsRequest, Idle, WithMember, Nexts, Acknowledges
  <2> HIDE DEF new
  <2>4. QED
    BY <2>1, <2>3, FlushKept DEF FlushInv
<1>9. CASE Flush(u)
  <2>1. /\ IsRequest([Idle EXCEPT !.pc = "reconcile", !.batch = queue[u]])
        /\ Acknowledges([Idle EXCEPT !.pc = "reconcile", !.batch = queue[u]], log)
    BY DEF IsRequest, Idle, WithMember, Nexts, Acknowledges
  <2>2. QED
    BY <1>9, <2>1, BeginFlush DEF Flush
<1>10. QED
  BY <1>1, <1>2, <1>3, <1>4, <1>5, <1>6, <1>7, <1>8, <1>9 DEF Call

\* The steps that do not touch the log or the queue.
LEMMA MembershipFlush ==
    ASSUME FlushInv, NEW u \in Users,
           \/ SyncRead(u) \/ SyncWrite(u)
           \/ WriteInvite(u) \/ AddMember(u) \/ WriteRevoke(u) \/ DeleteMember(u)
           \/ UpsertUser(u) \/ EnsurePersonalOrg(u) \/ AcceptPendingInvites(u) \/ MarkAccepted(u)
           \/ ResolveActiveOrg(u) \/ WriteActiveOrg(u)
           \/ WriteLock(u) \/ DeleteLock(u)
           \/ PostChecked(u) \/ PostFails(u) \/ BatchFails(u) \/ ReplyLost(u) \/ Crash(u)
    PROVE  FlushInv'
<1> DEFINE req == request[u]
<1>a. IsRequest(req) /\ Acknowledges(req, log)
  BY DEF FlushInv
<1>b. req.then \in Nexts
  BY <1>a DEF IsRequest
<1>c. ASSUME NEW new, IsRequest(new), Acknowledges(new, log), Go(u, new), UNCHANGED <<log, flushed>>
      PROVE  FlushInv'
  BY <1>c, FlushKept DEF FlushInv
<1>1. CASE \/ WriteInvite(u) \/ WriteRevoke(u) \/ ResolveActiveOrg(u) \/ WriteActiveOrg(u)
           \/ WriteLock(u) \/ DeleteLock(u) \/ PostFails(u) \/ BatchFails(u) \/ ReplyLost(u)
           \/ Crash(u)
  <2>1. Go(u, Idle) /\ UNCHANGED <<log, flushed>>
    BY <1>1 DEF WriteInvite, WriteRevoke, ResolveActiveOrg, WriteActiveOrg, WriteLock, DeleteLock,
                PostFails, BatchFails, ReplyLost, Crash, order, observers
  <2>2. QED
    BY <1>c, <2>1, IdleRequest
<1>2. CASE SyncRead(u)
  <2> DEFINE new == [req EXCEPT !.pc = "sync_write", !.orgs = profile[req.who].orgs]
  <2>1. IsRequest(new) /\ Acknowledges(new, log)
    BY <1>a DEF IsRequest, Acknowledges, WithMember
  <2>2. Go(u, new) /\ UNCHANGED <<log, flushed>>
    BY <1>2 DEF SyncRead, order, observers
  <2> HIDE DEF new
  <2>3. QED
    BY <1>c, <2>1, <2>2
<1>3. CASE SyncWrite(u)
  <2> DEFINE new == IF req.then = "idle" THEN Idle ELSE [Idle EXCEPT !.pc = req.then]
  <2>1. IsRequest(new) /\ Acknowledges(new, log)
    BY <1>b, IdleRequest, NewRequest DEF WithMember, Nexts
  <2>2. Go(u, new) /\ UNCHANGED <<log, flushed>>
    BY <1>3 DEF SyncWrite, order, observers
  <2> HIDE DEF new
  <2>3. QED
    BY <1>c, <2>1, <2>2
<1>4. CASE AddMember(u)
  <2> DEFINE new == Sync(req, req.who, "team", TRUE, IF req.pc = "join" THEN "accepted" ELSE "idle")
  <2>1. IsRequest(new) /\ Acknowledges(new, log)
    BY <1>a, SyncRequest DEF Nexts
  <2>2. Go(u, new) /\ UNCHANGED <<log, flushed>>
    BY <1>4 DEF AddMember, order, observers
  <2> HIDE DEF new
  <2>3. QED
    BY <1>c, <2>1, <2>2
<1>5. CASE DeleteMember(u)
  <2> DEFINE new == Sync(req, req.who, "team", FALSE, "idle")
  <2>1. IsRequest(new) /\ Acknowledges(new, log)
    BY <1>a, SyncRequest DEF Nexts
  <2>2. Go(u, new) /\ UNCHANGED <<log, flushed>>
    BY <1>5 DEF DeleteMember, order, observers
  <2> HIDE DEF new
  <2>3. QED
    BY <1>c, <2>1, <2>2
<1>6. CASE UpsertUser(u)
  <2> DEFINE new == [Idle EXCEPT !.pc = IF u \in personal THEN "joinable" ELSE "personal"]
  <2>1. IsRequest(new) /\ Acknowledges(new, log)
    BY NewRequest DEF WithMember
  <2>2. Go(u, new) /\ UNCHANGED <<log, flushed>>
    BY <1>6 DEF UpsertUser, order, observers
  <2> HIDE DEF new
  <2>3. QED
    BY <1>c, <2>1, <2>2
<1>7. CASE EnsurePersonalOrg(u)
  <2> DEFINE new == Sync(req, u, "personal", TRUE, "joinable")
  <2>1. IsRequest(new) /\ Acknowledges(new, log)
    BY <1>a, SyncRequest DEF Nexts
  <2>2. Go(u, new) /\ UNCHANGED <<log, flushed>>
    BY <1>7 DEF EnsurePersonalOrg, order, observers
  <2> HIDE DEF new
  <2>3. QED
    BY <1>c, <2>1, <2>2
<1>8. CASE AcceptPendingInvites(u)
  <2> DEFINE new == CASE invite[u] = "none" -> [Idle EXCEPT !.pc = "resolve"]
                      [] IsMember(u)        -> [Idle EXCEPT !.pc = "accepted"]
                      [] OTHER -> [Idle EXCEPT !.pc = "join", !.who = u, !.as = invite[u]]
  <2>1. IsRequest(new) /\ Acknowledges(new, log)
    BY NewRequest, NewMemberRequest DEF WithMember
  <2>2. Go(u, new) /\ UNCHANGED <<log, flushed>>
    BY <1>8 DEF AcceptPendingInvites, order, observers
  <2> HIDE DEF new
  <2>3. QED
    BY <1>c, <2>1, <2>2
<1>9. CASE MarkAccepted(u)
  <2> DEFINE new == [Idle EXCEPT !.pc = "resolve"]
  <2>1. IsRequest(new) /\ Acknowledges(new, log)
    BY NewRequest DEF WithMember
  <2>2. Go(u, new) /\ UNCHANGED <<log, flushed>>
    BY <1>9 DEF MarkAccepted, order, observers
  <2> HIDE DEF new
  <2>3. QED
    BY <1>c, <2>1, <2>2
<1>10. CASE PostChecked(u)
  <2> DEFINE new == [req EXCEPT !.pc = "append"]
  <2>1. IsRequest(new) /\ Acknowledges(new, log)
    BY <1>a DEF IsRequest, Acknowledges, WithMember
  <2>2. Go(u, new) /\ UNCHANGED <<log, flushed>>
    BY <1>10 DEF PostChecked, order, observers
  <2> HIDE DEF new
  <2>3. QED
    BY <1>c, <2>1, <2>2
<1>11. QED
  BY <1>1, <1>2, <1>3, <1>4, <1>5, <1>6, <1>7, <1>8, <1>9, <1>10

\* The steps of an event towards the log, and of a flush.
LEMMA EventFlush ==
    ASSUME FlushInv, NEW u \in Users,
           AppendEvent(u) \/ WriteSnapshot(u) \/ Reconcile(u) \/ MarkFlushed(u)
    PROVE  FlushInv'
<1> DEFINE req == request[u]
<1>a. IsRequest(req) /\ Acknowledges(req, log) /\ flushed \subseteq log
  BY DEF FlushInv
<1>1. CASE AppendEvent(u)
  <2> DEFINE pc  == IF req.pc = "append" THEN "snapshot" ELSE "reconcile_snapshot"
             new == [req EXCEPT !.pc = pc]
  <2>1. Go(u, new) /\ log' = log \cup {req.event[1].id} /\ flushed' = flushed
    BY <1>1 DEF AppendEvent, Appended
  <2>2. pc \notin WithMember
    BY DEF WithMember
  <2>3. IsRequest(new) /\ new.accepted = req.accepted /\ new.event = req.event
    BY <1>a, <2>2 DEF IsRequest
  <2>4. Acknowledges(new, log')
    BY <1>a, <2>1, <2>3 DEF Acknowledges
  <2> HIDE DEF new
  <2>5. QED
    BY <1>a, <2>1, <2>3, <2>4, FlushKept
<1>2. CASE WriteSnapshot(u)
  <2> DEFINE ids  == req.accepted \cup {req.event[1].id}
             next == [req EXCEPT !.pc = "reconcile", !.event = <<>>, !.accepted = ids]
             new  == IF req.pc = "snapshot" THEN Idle ELSE next
  <2>1. Go(u, new) /\ UNCHANGED <<log, flushed>>
    BY <1>2 DEF WriteSnapshot, observers
  <2>2. req.pc # "snapshot" => ids \subseteq log
    BY <1>2, <1>a DEF WriteSnapshot, Acknowledges
  <2> HIDE DEF ids
  <2>3. IsRequest(next) /\ next.accepted = ids /\ next.pc = "reconcile"
    BY <1>a DEF IsRequest, WithMember
  <2> HIDE DEF next
  <2>4. IsRequest(new) /\ Acknowledges(new, log)
    BY <2>2, <2>3, IdleRequest DEF Acknowledges
  <2> HIDE DEF new
  <2>5. QED
    BY <1>a, <2>1, <2>4, FlushKept
<1>3. CASE Reconcile(u)
  <2> DEFINE e    == Oldest(req.batch)
             rest == req.batch \ {e}
             skip == [req EXCEPT !.batch = rest]
             take == [req EXCEPT !.batch = rest, !.pc = "reconcile_append", !.event = <<e>>]
  <2>1. Go(u, skip) \/ Go(u, take)
    BY <1>3 DEF Reconcile
  <2>2. UNCHANGED <<log, flushed>> /\ req.pc = "reconcile"
    BY <1>3 DEF Reconcile, order, observers
  <2> HIDE DEF e, rest
  <2>3. IsRequest(skip) /\ Acknowledges(skip, log)
    BY <1>a DEF IsRequest, Acknowledges
  <2>4. IsRequest(take) /\ Acknowledges(take, log)
    BY <1>a DEF IsRequest, Acknowledges, WithMember
  <2> HIDE DEF skip, take
  <2>5. QED
    BY <1>a, <2>1, <2>2, <2>3, <2>4, FlushKept
<1>4. CASE MarkFlushed(u)
  <2>1. Go(u, Idle) /\ log' = log /\ flushed' = flushed \cup req.accepted
    BY <1>4 DEF MarkFlushed, order
  <2>2. QED
    BY <1>a, <2>1, IdleRequest, FlushKept DEF Acknowledges
<1>5. QED
  BY <1>1, <1>2, <1>3, <1>4

LEMMA InitFlush == Init => FlushInv
BY IdleRequest DEF Init, FlushInv

LEMMA StutterFlush == FlushInv /\ UNCHANGED vars => FlushInv'
BY DEF FlushInv, vars

LEMMA StepFlush == FlushInv /\ [Next]_vars => FlushInv'
BY CallFlush, MembershipFlush, EventFlush, StutterFlush DEF Next, Step

LEMMA AlwaysFlush == Spec => []FlushInv
BY InitFlush, StepFlush, PTL DEF Spec

\* A queued event is marked as flushed only once it is in the team's log, however many
\* users flush at the same time and whatever is lost, refused or stopped in between
\* (reconcile_pending_events, mark_pending_events_flushed).
THEOREM FlushedArrives == Spec => []FlushedMeansDelivered
<1>1. FlushInv => FlushedMeansDelivered
  BY DEF FlushInv, FlushedMeansDelivered
<1>2. QED
  BY <1>1, AlwaysFlush, PTL

----------------------------------------------------------------------------
(* The admins. *)

\* As long as nothing overlapped one request is under way at most, and the
\* role it gives or takes leaves an admin.
AdminInv ==
    /\ role = [v \in Users |-> role[v]]
    /\ "overlap" \notin incidents =>
          /\ \A u, v \in Users : u # v => request[u].pc = "idle" \/ request[v].pc = "idle"
          /\ Admins # {}
          /\ \A u \in Users :
                /\ request[u].pc = "remove" => Admins \ {request[u].who} # {}
                /\ request[u].pc \in {"add", "join"} => request[u].who \notin Admins

\* A request goes on, or begins while nobody else has one.
LEMMA AloneKept ==
    ASSUME FlushInv, AdminInv, NEW u \in Users, NEW new, Go(u, new), incidents \subseteq incidents',
           "overlap" \notin incidents' => request[u].pc # "idle" \/ Quiet
    PROVE  "overlap" \notin incidents' =>
              /\ \A v \in Users : v # u => request'[v].pc = "idle"
              /\ \A v, w \in Users : v # w => request'[v].pc = "idle" \/ request'[w].pc = "idle"
<1> SUFFICES ASSUME "overlap" \notin incidents'
             PROVE  \A v \in Users : v # u => request'[v].pc = "idle"
  OBVIOUS
<1>1. \A v \in Users : v # u => request[v].pc = "idle"
  BY DEF AdminInv, Quiet
<1>2. QED
  BY <1>1, GoOn DEF FlushInv

\* What neither gives nor takes a role keeps the admins.
LEMMA AdminKept ==
    ASSUME FlushInv, AdminInv, NEW u \in Users, NEW new, Go(u, new), incidents \subseteq incidents',
           "overlap" \notin incidents' => request[u].pc # "idle" \/ Quiet,
           role' = role, new.pc \notin WithMember
    PROVE  AdminInv'
<1>1. Admins' = Admins
  BY DEF Admins, IsAdmin
<1>2. request'[u] = new
  BY GoOn DEF FlushInv
<1>3. QED
  BY <1>1, <1>2, AloneKept, GoOn DEF AdminInv, WithMember

\* A new request, when it overlaps no other or is recorded as an overlap.
LEMMA BeginAlone ==
    ASSUME NEW u \in Users, NEW new, Begin(u, new)
    PROVE  /\ Go(u, new) /\ incidents \subseteq incidents'
           /\ "overlap" \notin incidents' => Quiet
BY DEF Begin, Overlaps

LEMMA CallAdmin ==
    ASSUME FlushInv, AdminInv, NEW u \in Users, Call(u)
    PROVE  AdminInv'
<1>1. ASSUME NEW t \in Users, NEW as \in Roles, InviteMember(u, t, as) PROVE AdminInv'
  <2> DEFINE add    == [Idle EXCEPT !.pc = "add", !.who = t, !.as = as]
             invited == [Idle EXCEPT !.pc = "invite", !.who = t, !.as = as]
  <2>1. invited.pc = "invite" /\ add.pc = "add" /\ add.who = t
    BY DEF Idle
  <2>2. /\ Begin(u, add) \/ Begin(u, invited)
        /\ role' = role /\ t \notin Admins
    BY <1>1 DEF InviteMember, team, IsMember, Admins, IsAdmin
  <2> HIDE DEF add, invited
  <2>3. CASE Begin(u, invited)
    BY <2>1, <2>2, <2>3, BeginAlone, AdminKept DEF WithMember
  <2>4. CASE Begin(u, add)
    <3>1. Go(u, add) /\ incidents \subseteq incidents' /\ ("overlap" \notin incidents' => Quiet)
      BY <2>4, BeginAlone
    <3>2. request'[u] = add /\ Admins' = Admins
      BY <3>1, <2>2, GoOn DEF FlushInv, Admins, IsAdmin
    <3>3. QED
      BY <2>1, <2>2, <3>1, <3>2, AloneKept, GoOn DEF AdminInv
  <2>5. QED
    BY <2>2, <2>3, <2>4
<1>2. ASSUME NEW t \in Users, RemoveMember(u, t) PROVE AdminInv'
  <2> DEFINE new == [Idle EXCEPT !.pc = "remove", !.who = t]
  <2>1. new.pc = "remove" /\ new.who = t
    BY DEF Idle
  <2>2. Begin(u, new) /\ role' = role /\ u \in Admins /\ u # t
    BY <1>2 DEF RemoveMember, MayRemove, team, Admins
  <2> HIDE DEF new
  <2>3. Go(u, new) /\ incidents \subseteq incidents' /\ ("overlap" \notin incidents' => Quiet)
    BY <2>2, BeginAlone
  <2>4. request'[u] = new /\ Admins' = Admins
    BY <2>2, <2>3, GoOn DEF FlushInv, Admins, IsAdmin
  <2>5. QED
    BY <2>1, <2>2, <2>3, <2>4, AloneKept, GoOn DEF AdminInv
<1>3. ASSUME NEW new, new.pc \notin WithMember, Begin(u, new), role' = role PROVE AdminInv'
  BY <1>3, BeginAlone, AdminKept
<1>4. ASSUME NEW t \in Users, RevokeInvite(u, t) PROVE AdminInv'
  <2>1. [Idle EXCEPT !.pc = "revoke", !.who = t].pc = "revoke"
    BY DEF Idle
  <2>2. QED
    BY <1>3, <1>4, <2>1 DEF RevokeInvite, WithMember, team
<1>5. CASE \/ Bootstrap(u) \/ SetActiveOrg(u) \/ AcquireLock(u) \/ ReleaseLock(u) \/ Flush(u)
  <2>1. \A pc : [Idle EXCEPT !.pc = pc].pc = pc
    BY DEF Idle
  <2>2. [Idle EXCEPT !.pc = "reconcile", !.batch = queue[u]].pc = "reconcile"
    BY DEF Idle
  <2>3. QED
    BY <1>3, <1>5, <2>1, <2>2
       DEF Bootstrap, SetActiveOrg, AcquireLock, ReleaseLock, Flush, WithMember, team
<1>6. ASSUME NEW open \in BOOLEAN, Change(u, open) PROVE AdminInv'
  <2> DEFINE pc == IF open THEN "mirror_open" ELSE "mirror"
             e  == <<[id |-> clock + 1, version |-> IF open THEN local[u] ELSE clock + 1]>>
             new == [Idle EXCEPT !.pc = pc, !.event = e]
  <2>1. Go(u, new) /\ role' = role
    BY <1>6 DEF Change, team
  <2>2. incidents \subseteq incidents' /\ ("overlap" \notin incidents' => Quiet)
    BY <1>6 DEF Change, Overlaps
  <2>3. new.pc = pc /\ pc \notin WithMember
    BY DEF Idle, WithMember
  <2> HIDE DEF new, pc
  <2>4. QED
    BY <2>1, <2>2, <2>3, AdminKept
<1>7. QED
  BY <1>1, <1>2, <1>4, <1>5, <1>6 DEF Call

\* Steps of a request under way that leave the roles alone.
LEMMA StepAdmin ==
    ASSUME FlushInv, AdminInv, NEW u \in Users,
           \/ SyncRead(u) \/ SyncWrite(u) \/ WriteInvite(u) \/ WriteRevoke(u)
           \/ UpsertUser(u) \/ EnsurePersonalOrg(u) \/ MarkAccepted(u)
           \/ ResolveActiveOrg(u) \/ WriteActiveOrg(u) \/ WriteLock(u) \/ DeleteLock(u)
           \/ PostChecked(u) \/ PostFails(u) \/ AppendEvent(u) \/ WriteSnapshot(u)
           \/ Reconcile(u) \/ BatchFails(u) \/ ReplyLost(u) \/ MarkFlushed(u) \/ Crash(u)
    PROVE  AdminInv'
<1> DEFINE req == request[u]
<1>a. IsRequest(req)
  BY DEF FlushInv
<1>b. ASSUME NEW new, new.pc \notin WithMember, Go(u, new), req.pc # "idle", role' = role,
             incidents \subseteq incidents'
      PROVE  AdminInv'
  BY <1>b, AdminKept
<1>c. \A pc : [Idle EXCEPT !.pc = pc].pc = pc /\ [req EXCEPT !.pc = pc].pc = pc
  BY <1>a DEF Idle, IsRequest
<1>1. CASE \/ WriteInvite(u) \/ WriteRevoke(u) \/ ResolveActiveOrg(u) \/ WriteActiveOrg(u)
           \/ WriteLock(u) \/ DeleteLock(u) \/ PostFails(u) \/ BatchFails(u) \/ ReplyLost(u)
           \/ Crash(u) \/ MarkFlushed(u)
  <2>1. /\ Go(u, Idle) /\ req.pc # "idle" /\ role' = role /\ incidents \subseteq incidents'
    BY <1>1 DEF WriteInvite, WriteRevoke, ResolveActiveOrg, WriteActiveOrg, WriteLock, DeleteLock,
                PostFails, BatchFails, ReplyLost, Crash, MarkFlushed, team, observers
  <2>2. QED
    BY <1>b, <2>1, IdleRequest DEF WithMember
<1>2. CASE SyncRead(u)
  <2> DEFINE new == [req EXCEPT !.pc = "sync_write", !.orgs = profile[req.who].orgs]
  <2>1. Go(u, new) /\ req.pc # "idle" /\ role' = role /\ incidents' = incidents
    BY <1>2 DEF SyncRead, team, observers
  <2>2. new.pc = "sync_write"
    BY <1>a DEF IsRequest
  <2>3. QED
    BY <1>b, <2>1, <2>2 DEF WithMember
<1>3. CASE SyncWrite(u)
  <2> DEFINE new == IF req.then = "idle" THEN Idle ELSE [Idle EXCEPT !.pc = req.then]
  <2>1. Go(u, new) /\ req.pc # "idle" /\ role' = role /\ incidents' = incidents
    BY <1>3 DEF SyncWrite, observers
  <2>2. new.pc \in Nexts
    BY <1>a, <1>c, IdleRequest DEF IsRequest, Nexts
  <2> HIDE DEF new
  <2>3. QED
    BY <1>b, <2>1, <2>2 DEF WithMember, Nexts
<1>4. CASE UpsertUser(u) \/ MarkAccepted(u)
  <2> DEFINE pc  == IF UpsertUser(u) THEN IF u \in personal THEN "joinable" ELSE "personal"
                                     ELSE "resolve"
             new == [Idle EXCEPT !.pc = pc]
  <2>1. Go(u, new) /\ req.pc # "idle" /\ role' = role /\ incidents' = incidents
    BY <1>4 DEF UpsertUser, MarkAccepted, observers
  <2>2. new.pc = pc /\ pc \notin WithMember
    BY <1>c DEF WithMember
  <2> HIDE DEF new, pc
  <2>3. QED
    BY <1>b, <2>1, <2>2
<1>5. CASE EnsurePersonalOrg(u)
  <2>1. /\ Go(u, Sync(req, u, "personal", TRUE, "joinable"))
        /\ req.pc # "idle" /\ role' = role /\ incidents' = incidents
    BY <1>5 DEF EnsurePersonalOrg, observers
  <2>2. Sync(req, u, "personal", TRUE, "joinable").pc = "sync_read"
    BY <1>a DEF Sync, IsRequest
  <2>3. QED
    BY <1>b, <2>1, <2>2 DEF WithMember
<1>6. CASE PostChecked(u) \/ AppendEvent(u)
  <2> DEFINE pc == CASE PostChecked(u) -> "append"
                     [] req.pc = "append" -> "snapshot"
                     [] OTHER -> "reconcile_snapshot"
  <2>1. PostChecked(u) => req.pc # "append"
    BY DEF PostChecked
  <2>2. Go(u, [req EXCEPT !.pc = pc]) /\ req.pc # "idle" /\ role' = role /\ incidents' = incidents
    BY <1>6, <2>1 DEF PostChecked, AppendEvent, team, observers
  <2>3. pc \notin WithMember
    BY DEF WithMember
  <2> HIDE DEF pc
  <2>4. QED
    BY <1>b, <1>c, <2>2, <2>3
<1>7. CASE WriteSnapshot(u)
  <2> DEFINE next == [req EXCEPT !.pc = "reconcile", !.event = <<>>,
                                 !.accepted = @ \cup {req.event[1].id}]
             new  == IF req.pc = "snapshot" THEN Idle ELSE next
  <2>1. Go(u, new) /\ req.pc # "idle" /\ role' = role /\ incidents' = incidents
    BY <1>7 DEF WriteSnapshot, team, observers
  <2>2. next.pc = "reconcile"
    BY <1>a DEF IsRequest
  <2> HIDE DEF next
  <2>3. QED
    BY <1>b, <2>1, <2>2, IdleRequest DEF WithMember
<1>8. CASE Reconcile(u)
  <2> DEFINE e    == Oldest(req.batch)
             rest == req.batch \ {e}
             skip == [req EXCEPT !.batch = rest]
             take == [req EXCEPT !.batch = rest, !.pc = "reconcile_append", !.event = <<e>>]
  <2>1. /\ Go(u, skip) \/ Go(u, take)
        /\ req.pc = "reconcile" /\ role' = role /\ incidents' = incidents
    BY <1>8 DEF Reconcile, team, observers
  <2>2. skip.pc = req.pc /\ take.pc = "reconcile_append"
    BY <1>a DEF IsRequest
  <2> HIDE DEF skip, take
  <2>3. QED
    BY <1>b, <2>1, <2>2 DEF WithMember
<1>9. QED
  BY <1>1, <1>2, <1>3, <1>4, <1>5, <1>6, <1>7, <1>8

\* Steps that give or take a role.
LEMMA RoleAdmin ==
    ASSUME FlushInv, AdminInv, NEW u \in Users,
           AddMember(u) \/ DeleteMember(u) \/ AcceptPendingInvites(u)
    PROVE  AdminInv'
<1> DEFINE req == request[u]
<1>a. IsRequest(req)
  BY DEF FlushInv
<1>1. CASE AddMember(u) \/ DeleteMember(u)
  <2> DEFINE then == IF req.pc = "join" THEN "accepted" ELSE "idle"
             new  == IF AddMember(u) THEN Sync(req, req.who, "team", TRUE, then)
                                     ELSE Sync(req, req.who, "team", FALSE, "idle")
             to   == IF AddMember(u) THEN req.as ELSE "none"
  <2>1. /\ Go(u, new) /\ role' = [role EXCEPT ![req.who] = to] /\ incidents' = incidents
        /\ IF AddMember(u) THEN req.pc \in {"add", "join"} ELSE req.pc = "remove"
    BY <1>1 DEF AddMember, DeleteMember, observers
  <2>2. new.pc = "sync_read"
    BY <1>a DEF Sync, IsRequest
  <2>3. req.who \in Users
    BY <1>a, <2>1 DEF IsRequest, WithMember
  <2>4. AddMember(u) \/ to = "none"
    OBVIOUS
  <2> HIDE DEF new, to
  <2>5. \A v \in Users : role'[v] = IF v = req.who THEN to ELSE role[v]
    BY <2>1 DEF AdminInv
  <2>6. role' = [v \in Users |-> role'[v]]
    BY <2>1 DEF AdminInv
  <2>7. Admins \ {req.who} \subseteq Admins'
    BY <2>5 DEF Admins, IsAdmin
  <2>8. "overlap" \notin incidents' => Admins' # {}
    BY <2>1, <2>7 DEF AdminInv
  <2>9. request'[u] = new
    BY <2>1, GoOn DEF FlushInv
  <2>10. QED
    BY <2>1, <2>2, <2>6, <2>8, <2>9, AloneKept DEF AdminInv
<1>2. CASE AcceptPendingInvites(u)
  <2> DEFINE join == [Idle EXCEPT !.pc = "join", !.who = u, !.as = invite[u]]
             new  == CASE invite[u] = "none" -> [Idle EXCEPT !.pc = "resolve"]
                       [] IsMember(u)        -> [Idle EXCEPT !.pc = "accepted"]
                       [] OTHER -> join
  <2>1. Go(u, new) /\ req.pc # "idle" /\ role' = role /\ incidents' = incidents
    BY <1>2 DEF AcceptPendingInvites, team, observers
  <2>2. join.pc = "join" /\ join.who = u
    BY DEF Idle
  <2>3. new.pc \notin WithMember \/ (new = join /\ ~IsMember(u))
    <3>1. /\ [Idle EXCEPT !.pc = "resolve"].pc = "resolve"
          /\ [Idle EXCEPT !.pc = "accepted"].pc = "accepted"
      BY DEF Idle
    <3> HIDE DEF join
    <3>2. QED
      BY <3>1 DEF WithMember
  <2> HIDE DEF join, new
  <2>4. CASE new.pc \notin WithMember
    BY <2>1, <2>4, AdminKept
  <2>5. CASE new = join /\ ~IsMember(u)
    <3>1. u \notin Admins /\ Admins' = Admins
      BY <2>1, <2>5 DEF Admins, IsAdmin, IsMember
    <3>2. request'[u] = join
      BY <2>1, <2>5, GoOn DEF FlushInv
    <3>3. QED
      BY <2>1, <2>2, <3>1, <3>2, AloneKept, GoOn DEF AdminInv
  <2>6. QED
    BY <2>3, <2>4, <2>5
<1>3. QED
  BY <1>1, <1>2

LEMMA InitAdmin == Init => AdminInv
BY TeamAssumption, IdleRequest DEF Init, AdminInv, Admins, IsAdmin

LEMMA StutterAdmin == AdminInv /\ UNCHANGED vars => AdminInv'
BY DEF AdminInv, vars, Admins, IsAdmin

LEMMA StepAdmins == FlushInv /\ AdminInv /\ [Next]_vars => AdminInv'
BY CallAdmin, StepAdmin, RoleAdmin, StutterAdmin DEF Next, Step

\* As long as requests do not overlap, a team keeps an admin: whatever is invited, joined,
\* removed, lost or stopped in between (remove_member, accept_pending_invites).
THEOREM TeamKeepsAnAdmin == Spec => []TeamHasAnAdmin
<1>1. AdminInv => TeamHasAnAdmin
  BY DEF AdminInv, TeamHasAnAdmin
<1>2. QED
  BY <1>1, InitAdmin, StepAdmins, AlwaysFlush, PTL DEF Spec

----------------------------------------------------------------------------
(* The snapshot. *)

Ordered == incidents \cap {"overlap", "open_transaction"} = {}

\* An event whose version some change up to now has made.
Past(e, now) == e.id \in Nat /\ e.version \in Nat /\ e.version <= now

\* Steps at which a request carries an event.
WithEvent == {"mirror", "mirror_open", "append", "snapshot", "reconcile_append", "reconcile_snapshot"}

\* An event on its way is of the latest version, or was found not to be outdated.
Carries(r, now, cloud) ==
    /\ \A e \in r.batch : Past(e, now)
    /\ r.pc # "mirror_open"
    /\ r.pc \in {"mirror", "append", "snapshot"} =>
          r.event[1].id \in Nat /\ r.event[1].version = now
    /\ r.pc \in {"reconcile_append", "reconcile_snapshot"} =>
          Past(r.event[1], now) /\ (r.event[1].version > 0 => cloud <= r.event[1].version)

\* The inductive invariant for the snapshot.
VersionsInv ==
    /\ queue = [v \in Users |-> queue[v]]
    /\ Ordered =>
          /\ clock \in Nat /\ snapshot \in Nat /\ snapshot <= clock
          /\ \A v \in Users : /\ Carries(request[v], clock, snapshot)
                              /\ \A e \in queue[v] : Past(e, clock)

\* What a request posts next is one of the events it has read.
LEMMA Smallest ==
    ASSUME NEW S \in SUBSET Nat, S # {}
    PROVE  \E m \in S : \A n \in S : m <= n
<1>1. \E m \in S : \A n \in S : ~(<<n, m>> \in OpToRel(<, Nat))
  BY NatLessThanWellFounded, WFMin
<1>2. ASSUME NEW m \in S, NEW n \in S, ~(<<n, m>> \in OpToRel(<, Nat)) PROVE m <= n
  <2>1. ~(n < m)
    BY <1>2 DEF OpToRel
  <2>2. QED
    BY <2>1
<1>3. QED
  BY <1>1, <1>2

LEMMA OldestIsOne ==
    ASSUME NEW batch, batch # {}, \A e \in batch : e.id \in Nat
    PROVE  Oldest(batch) \in batch
<1> DEFINE ids == {e.id : e \in batch}
<1>1. \E m \in ids : \A n \in ids : m <= n
  BY Smallest
<1>2. \E e \in batch : \A f \in batch : e.id <= f.id
  BY <1>1
<1>3. QED
  BY <1>2 DEF Oldest

\* One request goes on; the others are not under way, or nothing they are about changes.
LEMMA VersionsKept ==
    ASSUME FlushInv, VersionsInv, NEW u \in Users, NEW new, Go(u, new), incidents \subseteq incidents',
           queue' = [v \in Users |-> queue'[v]],
           \A v \in Users : v # u => queue'[v] = queue[v],
           Ordered' =>
              /\ clock' \in Nat /\ clock <= clock' /\ snapshot' \in Nat /\ snapshot' <= clock'
              /\ Carries(new, clock', snapshot')
              /\ \A e \in queue'[u] : Past(e, clock')
              /\ \/ UNCHANGED <<clock, snapshot>>
                 \/ \A v \in Users : v # u => request[v].pc = "idle"
    PROVE  VersionsInv'
<1> SUFFICES ASSUME Ordered', NEW v \in Users
             PROVE  /\ Carries(request'[v], clock', snapshot')
                    /\ \A e \in queue'[v] : Past(e, clock')
  BY DEF VersionsInv
<1>1. Ordered /\ clock \in Nat
      /\ Carries(request[v], clock, snapshot) /\ \A e \in queue[v] : Past(e, clock)
  BY DEF Ordered, VersionsInv
<1>2. \A e : Past(e, clock) => Past(e, clock')
  BY <1>1 DEF Past
<1>3. request'[v] = IF v = u THEN new ELSE request[v]
  BY GoOn DEF FlushInv
<1>4. CASE v = u
  BY <1>3, <1>4
<1>5. CASE v # u
  <2>1. request'[v] = request[v] /\ \A e \in queue'[v] : Past(e, clock')
    BY <1>1, <1>2, <1>3, <1>5
  <2>2. CASE UNCHANGED <<clock, snapshot>>
    BY <1>1, <2>1, <2>2
  <2>3. CASE request[v].pc = "idle"
    BY <1>1, <1>2, <2>1, <2>3 DEF Carries
  <2>4. QED
    BY <1>5, <2>1, <2>2, <2>3
<1>6. QED
  BY <1>4, <1>5

\* A request that carries no event leaves the versions alone.
LEMMA VersionsElsewhere ==
    ASSUME FlushInv, VersionsInv, NEW u \in Users, NEW new, Go(u, new), incidents \subseteq incidents',
           UNCHANGED <<clock, snapshot, queue>>, new.pc \notin WithEvent,
           new.batch = {} \/ new.batch = request[u].batch
    PROVE  VersionsInv'
<1>1. Ordered' => Ordered
  BY DEF Ordered
<1>2. Ordered => \A e \in new.batch : Past(e, clock)
  BY DEF VersionsInv, Carries
<1>3. Ordered => Carries(new, clock, snapshot)
  BY <1>2 DEF Carries, WithEvent
<1>4. Ordered' => /\ clock' \in Nat /\ clock <= clock' /\ snapshot' \in Nat /\ snapshot' <= clock'
                  /\ Carries(new, clock', snapshot')
                  /\ \A e \in queue'[u] : Past(e, clock')
  BY <1>1, <1>3 DEF VersionsInv
<1>5. queue' = [v \in Users |-> queue'[v]] /\ \A v \in Users : v # u => queue'[v] = queue[v]
  BY DEF VersionsInv
<1>6. QED
  BY <1>4, <1>5, VersionsKept

\* The fields of the requests that steps make.
LEMMA RequestFields ==
    ASSUME NEW pc, NEW who, NEW as
    PROVE  /\ Idle.pc = "idle" /\ Idle.batch = {}
           /\ [Idle EXCEPT !.pc = pc].pc = pc /\ [Idle EXCEPT !.pc = pc].batch = {}
           /\ [Idle EXCEPT !.pc = pc, !.who = who].pc = pc
           /\ [Idle EXCEPT !.pc = pc, !.who = who].batch = {}
           /\ [Idle EXCEPT !.pc = pc, !.who = who, !.as = as].pc = pc
           /\ [Idle EXCEPT !.pc = pc, !.who = who, !.as = as].batch = {}
BY DEF Idle

LEMMA CallVersions ==
    ASSUME FlushInv, AdminInv, VersionsInv, NEW u \in Users, Call(u)
    PROVE  VersionsInv'
<1>1. ASSUME NEW new, Begin(u, new), UNCHANGED <<clock, snapshot, queue>>,
             new.pc \notin WithEvent, new.batch = {}
      PROVE  VersionsInv'
  BY <1>1, BeginAlone, VersionsElsewhere
<1>2. ASSUME NEW pc, pc \notin WithEvent, Begin(u, [Idle EXCEPT !.pc = pc]),
             UNCHANGED <<clock, snapshot, queue>>
      PROVE  VersionsInv'
  <2> DEFINE new == [Idle EXCEPT !.pc = pc]
  <2>1. new.pc = pc /\ new.batch = {}
    BY DEF Idle
  <2>2. Begin(u, new)
    BY <1>2
  <2> HIDE DEF new
  <2>3. QED
    BY <1>1, <1>2, <2>1, <2>2
<1>3. ASSUME NEW t \in Users, NEW as \in Roles, InviteMember(u, t, as) PROVE VersionsInv'
  <2> DEFINE add     == [Idle EXCEPT !.pc = "add", !.who = t, !.as = as]
             invited == [Idle EXCEPT !.pc = "invite", !.who = t, !.as = as]
  <2>1. add.pc = "add" /\ add.batch = {} /\ invited.pc = "invite" /\ invited.batch = {}
    BY DEF Idle
  <2>2. /\ Begin(u, add) \/ Begin(u, invited)
        /\ UNCHANGED <<clock, snapshot, queue>>
    BY <1>3 DEF InviteMember, desktop, order
  <2> HIDE DEF add, invited
  <2>3. QED
    BY <1>1, <2>1, <2>2 DEF WithEvent
<1>4. ASSUME NEW t \in Users, RevokeInvite(u, t) \/ RemoveMember(u, t) PROVE VersionsInv'
  <2> DEFINE revoke == [Idle EXCEPT !.pc = "revoke", !.who = t]
             remove == [Idle EXCEPT !.pc = "remove", !.who = t]
  <2>1. revoke.pc = "revoke" /\ revoke.batch = {} /\ remove.pc = "remove" /\ remove.batch = {}
    BY DEF Idle
  <2>2. /\ Begin(u, revoke) \/ Begin(u, remove)
        /\ UNCHANGED <<clock, snapshot, queue>>
    BY <1>4 DEF RevokeInvite, RemoveMember, desktop, order
  <2> HIDE DEF revoke, remove
  <2>3. QED
    BY <1>1, <2>1, <2>2 DEF WithEvent
<1>5. CASE Bootstrap(u) \/ SetActiveOrg(u) \/ AcquireLock(u) \/ ReleaseLock(u)
  BY <1>2, <1>5 DEF Bootstrap, SetActiveOrg, AcquireLock, ReleaseLock, desktop, order, WithEvent
<1>6. ASSUME NEW open \in BOOLEAN, Change(u, open) PROVE VersionsInv'
  <2> DEFINE pc == IF open THEN "mirror_open" ELSE "mirror"
             e  == [id |-> clock + 1, version |-> IF open THEN local[u] ELSE clock + 1]
             new == [Idle EXCEPT !.pc = pc, !.event = <<e>>]
  <2>1. /\ Go(u, new) /\ clock' = clock + 1 /\ queue' = queue /\ snapshot' = snapshot
        /\ incidents' = incidents \cup Overlaps \cup (IF open THEN {"open_transaction"} ELSE {})
    BY <1>6 DEF Change, order
  <2>2. new.pc = pc /\ new.batch = {} /\ new.event = <<e>>
    BY DEF Idle
  <2>3. e.id = clock + 1 /\ (~open => e.version = clock + 1)
    OBVIOUS
  <2> HIDE DEF new, e
  <2>4. ASSUME Ordered'
        PROVE  /\ clock' \in Nat /\ clock <= clock' /\ snapshot' \in Nat /\ snapshot' <= clock'
               /\ Carries(new, clock', snapshot')
               /\ \A f \in queue'[u] : Past(f, clock')
               /\ \A v \in Users : v # u => request[v].pc = "idle"
    <3>1. Ordered /\ ~open /\ Quiet
      BY <2>1, <2>4 DEF Ordered, Overlaps
    <3>2. clock \in Nat /\ snapshot \in Nat /\ snapshot <= clock /\ \A f \in queue[u] : Past(f, clock)
      BY <3>1 DEF VersionsInv
    <3>3. \A f \in queue'[u] : Past(f, clock')
      BY <2>1, <3>2 DEF Past
    <3>4. new.pc = "mirror" /\ new.event[1].id \in Nat /\ new.event[1].version = clock'
      BY <2>1, <2>2, <2>3, <3>1, <3>2
    <3>5. Carries(new, clock', snapshot')
      BY <2>2, <3>4 DEF Carries
    <3>6. QED
      BY <2>1, <3>1, <3>2, <3>3, <3>5 DEF Quiet
  <2>5. queue' = [v \in Users |-> queue'[v]]
    BY <2>1 DEF VersionsInv
  <2>6. QED
    BY <2>1, <2>4, <2>5, VersionsKept
<1>7. CASE Flush(u)
  <2> DEFINE new == [Idle EXCEPT !.pc = "reconcile", !.batch = queue[u]]
  <2>1. new.pc = "reconcile" /\ new.batch = queue[u]
    BY DEF Idle
  <2>2. Begin(u, new) /\ UNCHANGED <<clock, snapshot, queue>>
    BY <1>7 DEF Flush, desktop, order
  <2> HIDE DEF new
  <2>3. Go(u, new) /\ incidents \subseteq incidents'
    BY <2>2, BeginAlone
  <2>4. Ordered' => Ordered
    BY <2>3 DEF Ordered
  <2>5. Ordered => Carries(new, clock, snapshot)
    BY <2>1 DEF Carries, VersionsInv
  <2>6. QED
    BY <2>2, <2>3, <2>4, <2>5, VersionsKept DEF VersionsInv
<1>8. QED
  BY <1>3, <1>4, <1>5, <1>6, <1>7 DEF Call

\* The steps of a request that carries no event, and those that end one.
LEMMA MembershipVersions ==
    ASSUME FlushInv, VersionsInv, NEW u \in Users,
           \/ SyncRead(u) \/ SyncWrite(u)
           \/ WriteInvite(u) \/ AddMember(u) \/ WriteRevoke(u) \/ DeleteMember(u)
           \/ UpsertUser(u) \/ EnsurePersonalOrg(u) \/ AcceptPendingInvites(u) \/ MarkAccepted(u)
           \/ ResolveActiveOrg(u) \/ WriteActiveOrg(u)
           \/ WriteLock(u) \/ DeleteLock(u)
           \/ BatchFails(u) \/ ReplyLost(u) \/ Crash(u)
    PROVE  VersionsInv'
<1> DEFINE req == request[u]
<1>a. IsRequest(req) /\ req.then \in Nexts
  BY DEF FlushInv, IsRequest
<1>b. ASSUME NEW new, Go(u, new), new.pc \notin WithEvent, new.batch = {} \/ new.batch = req.batch,
             UNCHANGED <<clock, snapshot, queue>>, incidents \subseteq incidents'
      PROVE  VersionsInv'
  BY <1>b, VersionsElsewhere
<1>c. ASSUME NEW pc, pc \notin WithEvent, Go(u, [Idle EXCEPT !.pc = pc]),
             UNCHANGED <<clock, snapshot, queue>>, incidents \subseteq incidents'
      PROVE  VersionsInv'
  BY <1>b, <1>c, RequestFields
<1>1. CASE \/ WriteInvite(u) \/ WriteRevoke(u) \/ ResolveActiveOrg(u) \/ WriteActiveOrg(u)
           \/ WriteLock(u) \/ DeleteLock(u) \/ BatchFails(u) \/ ReplyLost(u) \/ Crash(u)
  <2>1. Go(u, Idle) /\ UNCHANGED <<clock, snapshot, queue>> /\ incidents \subseteq incidents'
    BY <1>1 DEF WriteInvite, WriteRevoke, ResolveActiveOrg, WriteActiveOrg, WriteLock, DeleteLock,
                BatchFails, ReplyLost, Crash, order, desktop, observers
  <2>2. QED
    BY <1>b, <2>1, RequestFields DEF WithEvent
<1>2. CASE SyncRead(u)
  <2> DEFINE new == [req EXCEPT !.pc = "sync_write", !.orgs = profile[req.who].orgs]
  <2>1. Go(u, new) /\ UNCHANGED <<clock, snapshot, queue>> /\ incidents \subseteq incidents'
    BY <1>2 DEF SyncRead, order, desktop, observers
  <2>2. new.pc = "sync_write" /\ new.batch = req.batch
    BY <1>a DEF IsRequest
  <2> HIDE DEF new
  <2>3. QED
    BY <1>b, <2>1, <2>2 DEF WithEvent
<1>3. CASE SyncWrite(u)
  <2> DEFINE pc == req.then
  <2>1. /\ (Go(u, Idle) \/ Go(u, [Idle EXCEPT !.pc = pc]))
        /\ UNCHANGED <<clock, snapshot, queue>> /\ incidents \subseteq incidents'
    BY <1>3 DEF SyncWrite, order, desktop, observers
  <2>2. pc \notin WithEvent
    BY <1>a DEF Nexts, WithEvent
  <2> HIDE DEF pc
  <2>3. QED
    BY <1>b, <1>c, <2>1, <2>2, RequestFields DEF WithEvent
<1>4. CASE AddMember(u) \/ DeleteMember(u) \/ EnsurePersonalOrg(u)
  <2>1. \A who, org, add, then :
           /\ Sync(req, who, org, add, then).pc = "sync_read"
           /\ Sync(req, who, org, add, then).batch = req.batch
    BY <1>a DEF IsRequest, Sync
  <2>2. UNCHANGED <<clock, snapshot, queue>> /\ incidents \subseteq incidents'
    BY <1>4 DEF AddMember, DeleteMember, EnsurePersonalOrg, order, desktop, observers
  <2>3. PICK who, org, add, then : Go(u, Sync(req, who, org, add, then))
    BY <1>4 DEF AddMember, DeleteMember, EnsurePersonalOrg
  <2>4. QED
    BY <1>b, <2>1, <2>2, <2>3 DEF WithEvent
<1>5. CASE UpsertUser(u)
  <2> DEFINE pc == IF u \in personal THEN "joinable" ELSE "personal"
  <2>1. /\ Go(u, [Idle EXCEPT !.pc = pc])
        /\ UNCHANGED <<clock, snapshot, queue>> /\ incidents \subseteq incidents'
    BY <1>5 DEF UpsertUser, order, desktop, observers
  <2>2. pc \notin WithEvent
    BY DEF WithEvent
  <2> HIDE DEF pc
  <2>3. QED
    BY <1>c, <2>1, <2>2
<1>6. CASE MarkAccepted(u)
  BY <1>c, <1>6 DEF MarkAccepted, order, desktop, observers, WithEvent
<1>7. CASE AcceptPendingInvites(u)
  <2> DEFINE join == [Idle EXCEPT !.pc = "join", !.who = u, !.as = invite[u]]
  <2>1. /\ \/ Go(u, [Idle EXCEPT !.pc = "resolve"]) \/ Go(u, [Idle EXCEPT !.pc = "accepted"])
           \/ Go(u, join)
        /\ UNCHANGED <<clock, snapshot, queue>> /\ incidents \subseteq incidents'
    BY <1>7 DEF AcceptPendingInvites, order, desktop, observers
  <2>2. join.pc = "join" /\ join.batch = {}
    BY DEF Idle
  <2> HIDE DEF join
  <2>3. CASE Go(u, join)
    BY <1>b, <2>1, <2>2, <2>3 DEF WithEvent
  <2>4. QED
    BY <1>c, <2>1, <2>3 DEF WithEvent
<1>8. QED
  BY <1>1, <1>2, <1>3, <1>4, <1>5, <1>6, <1>7

\* An event on its way to the cloud, or to the queue.
LEMMA EventVersions ==
    ASSUME FlushInv, AdminInv, VersionsInv, NEW u \in Users,
           \/ PostChecked(u) \/ PostFails(u) \/ AppendEvent(u) \/ WriteSnapshot(u)
           \/ Reconcile(u) \/ MarkFlushed(u)
    PROVE  /\ VersionsInv'
           /\ Ordered' => snapshot' >= snapshot
<1> DEFINE req == request[u]
<1>a. IsRequest(req)
  BY DEF FlushInv
<1>b. incidents' = incidents /\ (Ordered' <=> Ordered)
  BY DEF PostChecked, PostFails, AppendEvent, WriteSnapshot, Reconcile, MarkFlushed, observers,
         Ordered
<1>c. Ordered => /\ clock \in Nat /\ snapshot \in Nat /\ snapshot <= clock
                 /\ Carries(req, clock, snapshot) /\ \A e \in queue[u] : Past(e, clock)
  BY DEF VersionsInv
<1>d. ASSUME NEW new, Go(u, new), UNCHANGED <<clock, snapshot, queue>>,
             Ordered => Carries(new, clock, snapshot)
      PROVE  VersionsInv' /\ (Ordered' => snapshot' >= snapshot)
  <2>1. VersionsInv'
    BY <1>b, <1>c, <1>d, VersionsKept DEF VersionsInv
  <2>2. QED
    BY <1>b, <1>c, <1>d, <2>1
<1>1. CASE PostChecked(u)
  <2> DEFINE new == [req EXCEPT !.pc = "append"]
  <2>1. Go(u, new) /\ UNCHANGED <<clock, snapshot, queue>> /\ req.pc \in {"mirror", "mirror_open"}
    BY <1>1 DEF PostChecked, order, desktop
  <2>2. new.pc = "append" /\ new.batch = req.batch /\ new.event = req.event
    BY <1>a DEF IsRequest
  <2> HIDE DEF new
  <2>3. Ordered => Carries(new, clock, snapshot)
    BY <1>c, <2>1, <2>2 DEF Carries
  <2>4. QED
    BY <1>d, <2>1, <2>3
<1>2. CASE PostFails(u)
  <2> DEFINE more == IF req.pc = "mirror" THEN queue[u] \cup {req.event[1]} ELSE queue[u]
  <2>1. /\ Go(u, Idle) /\ UNCHANGED <<clock, snapshot>> /\ req.pc \in {"mirror", "mirror_open"}
        /\ queue' = IF req.pc = "mirror" THEN [queue EXCEPT ![u] = queue[u] \cup {req.event[1]}]
                                         ELSE queue
    BY <1>2 DEF PostFails, order
  <2>2. /\ queue' = [v \in Users |-> queue'[v]] /\ queue'[u] = more
        /\ \A v \in Users : v # u => queue'[v] = queue[v]
    BY <2>1 DEF VersionsInv
  <2>3. ASSUME Ordered PROVE \A e \in more : Past(e, clock)
    BY <1>c, <2>1, <2>3 DEF Carries, Past
  <2> HIDE DEF more
  <2>4. Carries(Idle, clock, snapshot)
    BY RequestFields DEF Carries
  <2>5. ASSUME Ordered'
        PROVE  /\ clock' \in Nat /\ clock <= clock' /\ snapshot' \in Nat /\ snapshot' <= clock'
               /\ Carries(Idle, clock', snapshot') /\ \A e \in queue'[u] : Past(e, clock')
    BY <1>b, <1>c, <2>1, <2>2, <2>3, <2>4, <2>5
  <2>6. VersionsInv'
    BY <1>b, <2>1, <2>2, <2>5, VersionsKept
  <2>7. QED
    BY <1>b, <1>c, <2>1, <2>6
<1>3. CASE AppendEvent(u)
  <2> DEFINE pc  == IF req.pc = "append" THEN "snapshot" ELSE "reconcile_snapshot"
             new == [req EXCEPT !.pc = pc]
  <2>1. Go(u, new) /\ UNCHANGED <<clock, snapshot, queue>> /\ req.pc \in {"append", "reconcile_append"}
    BY <1>3 DEF AppendEvent, desktop
  <2>2. new.pc = pc /\ new.batch = req.batch /\ new.event = req.event
    BY <1>a DEF IsRequest
  <2> HIDE DEF new
  <2>3. Ordered => Carries(new, clock, snapshot)
    BY <1>c, <2>1, <2>2 DEF Carries
  <2>4. QED
    BY <1>d, <2>1, <2>3
<1>4. CASE WriteSnapshot(u)
  <2> DEFINE e    == req.event[1]
             ids  == req.accepted \cup {e.id}
             next == [req EXCEPT !.pc = "reconcile", !.event = <<>>, !.accepted = ids]
             new  == IF req.pc = "snapshot" THEN Idle ELSE next
  <2>1. /\ Go(u, new) /\ UNCHANGED <<clock, queue>> /\ req.pc \in {"snapshot", "reconcile_snapshot"}
        /\ snapshot' = IF e.version = 0 THEN snapshot ELSE e.version
    BY <1>4 DEF WriteSnapshot, desktop
  <2>2. next.pc = "reconcile" /\ next.batch = req.batch
    BY <1>a DEF IsRequest
  <2> HIDE DEF next
  <2>3. new.pc \notin WithEvent /\ (new.batch = {} \/ new.batch = req.batch)
    BY <2>2, RequestFields DEF WithEvent
  <2> HIDE DEF new
  <2>4. ASSUME Ordered PROVE snapshot' \in Nat /\ snapshot' >= snapshot /\ snapshot' <= clock
    BY <1>c, <2>1, <2>4 DEF Carries, Past
  <2>5. Ordered => Carries(new, clock, snapshot')
    BY <1>c, <2>3 DEF Carries, WithEvent
  <2>6. Ordered => \A v \in Users : v # u => request[v].pc = "idle"
    BY <2>1 DEF Ordered, AdminInv
  <2>7. VersionsInv'
    BY <1>b, <1>c, <2>1, <2>4, <2>5, <2>6, VersionsKept DEF VersionsInv
  <2>8. QED
    BY <1>b, <2>4, <2>7
<1>5. CASE Reconcile(u)
  <2> DEFINE e    == Oldest(req.batch)
             rest == req.batch \ {e}
             skip == [req EXCEPT !.batch = rest]
             take == [req EXCEPT !.batch = rest, !.pc = "reconcile_append", !.event = <<e>>]
  <2>1. /\ Go(u, skip) \/ (Go(u, take) /\ ~Outdated(e))
        /\ UNCHANGED <<clock, snapshot, queue>> /\ req.pc = "reconcile" /\ req.batch # {}
    BY <1>5 DEF Reconcile, order, desktop
  <2>2. skip.pc = "reconcile" /\ skip.batch = rest
    BY <1>a, <2>1 DEF IsRequest
  <2>3. take.pc = "reconcile_append" /\ take.batch = rest /\ take.event = <<e>>
    BY <1>a DEF IsRequest
  <2> HIDE DEF skip, take
  <2>4. CASE Go(u, skip)
    <3>1. Ordered => Carries(skip, clock, snapshot)
      BY <1>c, <2>2 DEF Carries
    <3>2. QED
      BY <1>d, <2>1, <2>4, <3>1
  <2>5. CASE Go(u, take) /\ ~Outdated(e)
    <3>1. Ordered => e \in req.batch
      <4>1. ASSUME Ordered PROVE e \in req.batch
        BY <1>c, <2>1, <4>1, OldestIsOne DEF Carries, Past
      <4>2. QED
        BY <4>1
    <3>2. ASSUME Ordered PROVE Past(e, clock) /\ (e.version > 0 => snapshot <= e.version)
      <4>1. Past(e, clock)
        BY <1>c, <3>1, <3>2 DEF Carries
      <4>2. QED
        BY <1>c, <2>5, <3>2, <4>1 DEF Past, Outdated
    <3>3. take.event[1] = e
      BY <2>3
    <3> HIDE DEF e
    <3>4. Ordered => Carries(take, clock, snapshot)
      BY <1>c, <2>3, <3>2, <3>3 DEF Carries
    <3>5. QED
      BY <1>d, <2>1, <2>5, <3>4
  <2>6. QED
    BY <2>1, <2>4, <2>5
<1>6. CASE MarkFlushed(u)
  <2> DEFINE left == {e \in queue[u] : e.id \notin req.accepted}
  <2>1. /\ Go(u, Idle) /\ UNCHANGED <<clock, snapshot>> /\ queue' = [queue EXCEPT ![u] = left]
    BY <1>6 DEF MarkFlushed, order
  <2>2. left \subseteq queue[u]
    OBVIOUS
  <2> HIDE DEF left
  <2>3. /\ queue' = [v \in Users |-> queue'[v]] /\ queue'[u] = left
        /\ \A v \in Users : v # u => queue'[v] = queue[v]
    BY <2>1 DEF VersionsInv
  <2>4. Ordered => \A e \in left : Past(e, clock)
    BY <1>c, <2>2
  <2>5. Carries(Idle, clock, snapshot)
    BY RequestFields DEF Carries
  <2>6. ASSUME Ordered'
        PROVE  /\ clock' \in Nat /\ clock <= clock' /\ snapshot' \in Nat /\ snapshot' <= clock'
               /\ Carries(Idle, clock', snapshot') /\ \A e \in queue'[u] : Past(e, clock')
    BY <1>b, <1>c, <2>1, <2>3, <2>4, <2>5, <2>6
  <2>7. VersionsInv'
    BY <1>b, <2>1, <2>3, <2>6, VersionsKept
  <2>8. QED
    BY <1>b, <1>c, <2>1, <2>7
<1>7. QED
  BY <1>1, <1>2, <1>3, <1>4, <1>5, <1>6

\* The cloud's snapshot of a work order never goes back to an older version, whoever sends
\* which queued event when, as long as requests do not overlap and no event is mirrored
\* before its transaction commits (reconcile_pending_events, append_org_event).
THEOREM SnapshotsMoveOn == Spec => SnapshotMovesForward
<1>1. Init => VersionsInv
  BY RequestFields DEF Init, VersionsInv, Carries, WithEvent
<1>2. ASSUME FlushInv, AdminInv, VersionsInv, [Next]_vars
      PROVE  VersionsInv' /\ (Ordered' => snapshot' >= snapshot)
  <2>1. CASE UNCHANGED vars
    <3>1. VersionsInv' /\ Ordered' = Ordered /\ snapshot' = snapshot
      BY <1>2, <2>1 DEF vars, VersionsInv, Ordered
    <3>2. QED
      BY <1>2, <3>1 DEF VersionsInv
  <2>2. ASSUME NEW u \in Users, VersionsInv', snapshot' = snapshot, Ordered' => Ordered
        PROVE  VersionsInv' /\ (Ordered' => snapshot' >= snapshot)
    BY <1>2, <2>2 DEF VersionsInv
  <2>3. ASSUME NEW u \in Users, Call(u) PROVE snapshot' = snapshot /\ (Ordered' => Ordered)
    BY <2>3 DEF Call, InviteMember, RevokeInvite, RemoveMember, Bootstrap, SetActiveOrg,
           AcquireLock, ReleaseLock, Change, Flush, order, Begin, Ordered
  <2>4. ASSUME NEW u \in Users,
               \/ SyncRead(u) \/ SyncWrite(u)
               \/ WriteInvite(u) \/ AddMember(u) \/ WriteRevoke(u) \/ DeleteMember(u)
               \/ UpsertUser(u) \/ EnsurePersonalOrg(u) \/ AcceptPendingInvites(u)
               \/ MarkAccepted(u) \/ ResolveActiveOrg(u) \/ WriteActiveOrg(u)
               \/ WriteLock(u) \/ DeleteLock(u)
               \/ BatchFails(u) \/ ReplyLost(u) \/ Crash(u)
        PROVE  snapshot' = snapshot /\ (Ordered' => Ordered)
    BY <2>4 DEF SyncRead, SyncWrite, WriteInvite, AddMember, WriteRevoke, DeleteMember,
           UpsertUser, EnsurePersonalOrg, AcceptPendingInvites, MarkAccepted, ResolveActiveOrg,
           WriteActiveOrg, WriteLock, DeleteLock, BatchFails, ReplyLost, Crash, order, observers,
           Ordered
  <2>5. QED
    BY <1>2, <2>1, <2>2, <2>3, <2>4, CallVersions, MembershipVersions, EventVersions
       DEF Next, Step
<1>3. FlushInv /\ AdminInv /\ VersionsInv /\ [Next]_vars =>
         [incidents' \cap {"overlap", "open_transaction"} = {} => snapshot' >= snapshot]_vars
  BY <1>2 DEF Ordered
<1>4. QED
  BY <1>1, <1>2, <1>3, InitAdmin, StepAdmins, AlwaysFlush, PTL DEF Spec, SnapshotMovesForward

----------------------------------------------------------------------------
(* The index of organizations. *)

Calm == incidents \cap {"overlap", "crash"} = {}

\* A user's document says what the team's members say.
Agrees(v, roles, documents) ==
    /\ "team" \in documents[v].orgs <=> roles[v] # "none"
    /\ documents[v].active = "team" => roles[v] # "none"

Syncing(r) == r.pc \in {"sync_read", "sync_write"}

\* The request has written the member, and not yet the document.
Unsettled(r, v) == Syncing(r) /\ r.org = "team" /\ r.who = v

\* What a request is about to write follows from what it has written before.
WritesIndex(r, u, roles, documents) ==
    /\ r.pc \in {"add", "join"} => r.as # "none"
    /\ r.pc = "active" => roles[u] # "none"
    /\ Syncing(r) =>
          /\ r.who \in Users /\ r.org \in Orgs /\ r.add \in BOOLEAN
          /\ r.org = "personal" => r.add = TRUE
          /\ r.org = "team" => (r.add = TRUE <=> roles[r.who] # "none")
          /\ r.pc = "sync_write" => r.orgs = documents[r.who].orgs

Documents(p) ==
    p = [v \in Users |-> [exists |-> p[v].exists, orgs |-> p[v].orgs, active |-> p[v].active]]

\* The inductive invariant for the index.
IndexInv ==
    /\ Documents(profile)
    /\ Calm => \A v \in Users :
          /\ WritesIndex(request[v], v, role, profile)
          /\ Agrees(v, role, profile) \/ \E w \in Users : Unsettled(request[w], v)

\* As long as nothing overlaps, only the request under way can be between two writes.
LEMMA IndexBefore ==
    ASSUME FlushInv, AdminInv, IndexInv, Calm, NEW u \in Users, request[u].pc # "idle" \/ Quiet
    PROVE  /\ WritesIndex(request[u], u, role, profile)
           /\ \A v \in Users : Agrees(v, role, profile) \/ Unsettled(request[u], v)
<1>1. \A v \in Users : v # u => request[v].pc = "idle"
  BY DEF AdminInv, Calm, Quiet
<1>2. QED
  BY <1>1 DEF IndexInv, Unsettled, Syncing

LEMMA IndexKept ==
    ASSUME FlushInv, AdminInv, NEW u \in Users, NEW new, Go(u, new), incidents \subseteq incidents',
           "overlap" \notin incidents' => request[u].pc # "idle" \/ Quiet,
           Documents(profile'),
           Calm' => /\ WritesIndex(new, u, role', profile')
                    /\ \A v \in Users : Agrees(v, role', profile') \/ Unsettled(new, v)
    PROVE  IndexInv'
<1> SUFFICES ASSUME Calm', NEW v \in Users
             PROVE  /\ WritesIndex(request'[v], v, role', profile')
                    /\ \/ Agrees(v, role', profile')
                       \/ \E w \in Users : Unsettled(request'[w], v)
  BY DEF IndexInv, WritesIndex, Agrees
<1>1. request'[u] = new
  BY GoOn DEF FlushInv
<1>2. "overlap" \notin incidents'
  BY DEF Calm
<1>3. v # u => request'[v].pc = "idle"
  BY <1>2, AloneKept
<1>4. WritesIndex(request'[v], v, role', profile')
  BY <1>1, <1>3 DEF WritesIndex, Syncing
<1>5. QED
  BY <1>1, <1>4

\* A request that writes neither a member nor a document.
LEMMA IndexElsewhere ==
    ASSUME FlushInv, AdminInv, IndexInv, NEW u \in Users, NEW new, Go(u, new),
           incidents \subseteq incidents', request[u].pc # "idle" \/ "overlap" \in incidents' \/ Quiet,
           UNCHANGED <<role, profile>>, ~Syncing(request[u]), ~Syncing(new),
           new.pc \in {"add", "join"} => new.as # "none",
           new.pc = "active" => IsMember(u)
    PROVE  IndexInv'
<1>1. Documents(profile')
  BY DEF IndexInv
<1>2. ASSUME Calm'
      PROVE  /\ WritesIndex(new, u, role', profile')
             /\ \A v \in Users : Agrees(v, role', profile') \/ Unsettled(new, v)
  <2>1. Calm /\ "overlap" \notin incidents'
    BY <1>2 DEF Calm
  <2>2. \A v \in Users : Agrees(v, role, profile)
    BY <2>1, IndexBefore DEF Unsettled
  <2>3. WritesIndex(new, u, role, profile)
    BY DEF WritesIndex, IsMember
  <2>4. QED
    BY <2>2, <2>3
<1>3. QED
  BY <1>1, <1>2, IndexKept

LEMMA CallIndex ==
    ASSUME FlushInv, AdminInv, IndexInv, NEW u \in Users, Call(u)
    PROVE  IndexInv'
<1>1. ASSUME NEW new, Begin(u, new), UNCHANGED <<role, profile>>, ~Syncing(new),
             new.pc \in {"add", "join"} => new.as # "none", new.pc = "active" => IsMember(u)
      PROVE  IndexInv'
  <2>1. ~Syncing(request[u])
    BY <1>1 DEF Begin, Syncing
  <2>2. QED
    BY <1>1, <2>1, BeginAlone, IndexElsewhere
<1>2. ASSUME NEW pc, ~(pc \in {"sync_read", "sync_write", "add", "join"}),
             pc = "active" => IsMember(u), Begin(u, [Idle EXCEPT !.pc = pc]), UNCHANGED <<role, profile>>
      PROVE  IndexInv'
  <2> DEFINE new == [Idle EXCEPT !.pc = pc]
  <2>1. new.pc = pc
    BY DEF Idle
  <2>2. Begin(u, new)
    BY <1>2
  <2> HIDE DEF new
  <2>3. QED
    BY <1>1, <1>2, <2>1, <2>2 DEF Syncing
<1>3. ASSUME NEW t \in Users, NEW as \in Roles, InviteMember(u, t, as) PROVE IndexInv'
  <2> DEFINE add     == [Idle EXCEPT !.pc = "add", !.who = t, !.as = as]
             invited == [Idle EXCEPT !.pc = "invite", !.who = t, !.as = as]
  <2>1. add.pc = "add" /\ add.as = as /\ invited.pc = "invite" /\ as # "none"
    BY DEF Idle, Roles
  <2>2. /\ Begin(u, add) \/ Begin(u, invited)
        /\ UNCHANGED <<role, profile>>
    BY <1>3 DEF InviteMember, team
  <2> HIDE DEF add, invited
  <2>3. QED
    BY <1>1, <2>1, <2>2 DEF Syncing
<1>4. ASSUME NEW t \in Users, RevokeInvite(u, t) \/ RemoveMember(u, t) PROVE IndexInv'
  <2> DEFINE revoke == [Idle EXCEPT !.pc = "revoke", !.who = t]
             remove == [Idle EXCEPT !.pc = "remove", !.who = t]
  <2>1. revoke.pc = "revoke" /\ remove.pc = "remove"
    BY DEF Idle
  <2>2. /\ Begin(u, revoke) \/ Begin(u, remove)
        /\ UNCHANGED <<role, profile>>
    BY <1>4 DEF RevokeInvite, RemoveMember, team
  <2> HIDE DEF revoke, remove
  <2>3. QED
    BY <1>1, <2>1, <2>2 DEF Syncing
<1>5. CASE Bootstrap(u) \/ SetActiveOrg(u) \/ AcquireLock(u) \/ ReleaseLock(u)
  BY <1>2, <1>5 DEF Bootstrap, SetActiveOrg, AcquireLock, ReleaseLock, team
<1>6. ASSUME NEW open \in BOOLEAN, Change(u, open) PROVE IndexInv'
  <2> DEFINE pc == IF open THEN "mirror_open" ELSE "mirror"
             e  == <<[id |-> clock + 1, version |-> IF open THEN local[u] ELSE clock + 1]>>
             new == [Idle EXCEPT !.pc = pc, !.event = e]
  <2>1. /\ Go(u, new) /\ UNCHANGED <<role, profile>> /\ request[u].pc = "idle"
        /\ incidents \subseteq incidents' /\ ("overlap" \in incidents' \/ Quiet)
    BY <1>6 DEF Change, team, Overlaps
  <2>2. new.pc \in {"mirror_open", "mirror"}
    BY DEF Idle
  <2> HIDE DEF new
  <2>3. QED
    BY <2>1, <2>2, IndexElsewhere DEF Syncing
<1>7. CASE Flush(u)
  <2> DEFINE new == [Idle EXCEPT !.pc = "reconcile", !.batch = queue[u]]
  <2>1. new.pc = "reconcile"
    BY DEF Idle
  <2>2. Begin(u, new) /\ UNCHANGED <<role, profile>>
    BY <1>7 DEF Flush, team
  <2> HIDE DEF new
  <2>3. QED
    BY <1>1, <2>1, <2>2 DEF Syncing
<1>8. QED
  BY <1>3, <1>4, <1>5, <1>6, <1>7 DEF Call

\* Steps of a request under way that write neither a member nor a document.
LEMMA StepIndex ==
    ASSUME FlushInv, AdminInv, IndexInv, NEW u \in Users,
           \/ WriteInvite(u) \/ WriteRevoke(u) \/ AcceptPendingInvites(u) \/ MarkAccepted(u)
           \/ WriteLock(u) \/ DeleteLock(u)
           \/ PostChecked(u) \/ PostFails(u) \/ AppendEvent(u) \/ WriteSnapshot(u)
           \/ Reconcile(u) \/ BatchFails(u) \/ ReplyLost(u) \/ MarkFlushed(u)
    PROVE  IndexInv'
<1> DEFINE req == request[u]
<1>a. IsRequest(req)
  BY DEF FlushInv
<1>b. ASSUME NEW new, ~Syncing(new), new.pc \in {"add", "join"} => new.as # "none",
             new.pc # "active", Go(u, new), req.pc # "idle", ~Syncing(req),
             UNCHANGED <<role, profile>>, incidents \subseteq incidents'
      PROVE  IndexInv'
  BY <1>b, IndexElsewhere
<1>c. \A pc : [Idle EXCEPT !.pc = pc].pc = pc /\ [req EXCEPT !.pc = pc].pc = pc
  BY <1>a DEF Idle, IsRequest
<1>1. CASE \/ WriteInvite(u) \/ WriteRevoke(u) \/ WriteLock(u) \/ DeleteLock(u)
           \/ PostFails(u) \/ BatchFails(u) \/ ReplyLost(u) \/ MarkFlushed(u)
  <2>1. /\ Go(u, Idle) /\ req.pc # "idle" /\ ~Syncing(req)
        /\ UNCHANGED <<role, profile>> /\ incidents \subseteq incidents'
    BY <1>1 DEF WriteInvite, WriteRevoke, WriteLock, DeleteLock,
                PostFails, BatchFails, ReplyLost, MarkFlushed, team, observers, Syncing
  <2>2. QED
    BY <1>b, <2>1, IdleRequest DEF Syncing
<1>2. CASE MarkAccepted(u)
  BY <1>b, <1>c, <1>2 DEF MarkAccepted, observers, Syncing
<1>3. CASE AcceptPendingInvites(u)
  <2> DEFINE join == [Idle EXCEPT !.pc = "join", !.who = u, !.as = invite[u]]
  <2>1. /\ \/ Go(u, [Idle EXCEPT !.pc = "resolve"]) \/ Go(u, [Idle EXCEPT !.pc = "accepted"])
           \/ Go(u, join) /\ invite[u] # "none"
        /\ UNCHANGED <<role, profile>> /\ incidents \subseteq incidents' /\ req.pc = "joinable"
    BY <1>3 DEF AcceptPendingInvites, team, observers
  <2>2. join.pc = "join" /\ join.as = invite[u]
    BY DEF Idle
  <2> HIDE DEF join
  <2>3. CASE Go(u, join) /\ invite[u] # "none"
    BY <1>b, <2>1, <2>2, <2>3 DEF Syncing
  <2>4. CASE Go(u, [Idle EXCEPT !.pc = "resolve"])
    BY <1>b, <1>c, <2>1, <2>4 DEF Syncing
  <2>5. CASE Go(u, [Idle EXCEPT !.pc = "accepted"])
    BY <1>b, <1>c, <2>1, <2>5 DEF Syncing
  <2>6. QED
    BY <2>1, <2>3, <2>4, <2>5
<1>4. CASE PostChecked(u) \/ AppendEvent(u)
  <2> DEFINE pc == CASE PostChecked(u) -> "append"
                     [] req.pc = "append" -> "snapshot"
                     [] OTHER -> "reconcile_snapshot"
  <2>1. PostChecked(u) => req.pc # "append"
    BY DEF PostChecked
  <2>2. /\ Go(u, [req EXCEPT !.pc = pc]) /\ req.pc # "idle" /\ ~Syncing(req)
        /\ UNCHANGED <<role, profile>> /\ incidents' = incidents
    BY <1>4, <2>1 DEF PostChecked, AppendEvent, team, observers, Syncing
  <2>3. pc \in {"append", "snapshot", "reconcile_snapshot"}
    OBVIOUS
  <2> HIDE DEF pc
  <2>4. QED
    BY <1>b, <1>c, <2>2, <2>3 DEF Syncing
<1>5. CASE WriteSnapshot(u)
  <2> DEFINE next == [req EXCEPT !.pc = "reconcile", !.event = <<>>,
                                 !.accepted = @ \cup {req.event[1].id}]
             new  == IF req.pc = "snapshot" THEN Idle ELSE next
  <2>1. /\ Go(u, new) /\ req.pc # "idle" /\ ~Syncing(req)
        /\ UNCHANGED <<role, profile>> /\ incidents' = incidents
    BY <1>5 DEF WriteSnapshot, team, observers, Syncing
  <2>2. next.pc = "reconcile"
    BY <1>a DEF IsRequest
  <2> HIDE DEF next
  <2>3. new.pc \in {"idle", "reconcile"}
    BY <2>2, IdleRequest
  <2> HIDE DEF new
  <2>4. QED
    BY <1>b, <2>1, <2>3 DEF Syncing
<1>6. CASE Reconcile(u)
  <2> DEFINE e    == Oldest(req.batch)
             rest == req.batch \ {e}
             skip == [req EXCEPT !.batch = rest]
             take == [req EXCEPT !.batch = rest, !.pc = "reconcile_append", !.event = <<e>>]
  <2>1. /\ Go(u, skip) \/ Go(u, take)
        /\ req.pc = "reconcile" /\ UNCHANGED <<role, profile>> /\ incidents' = incidents
    BY <1>6 DEF Reconcile, team, observers
  <2>2. skip.pc = req.pc /\ take.pc = "reconcile_append"
    BY <1>a DEF IsRequest
  <2> HIDE DEF skip, take
  <2>3. QED
    BY <1>b, <2>1, <2>2 DEF Syncing
<1>7. QED
  BY <1>1, <1>2, <1>3, <1>4, <1>5, <1>6

\* Writing the member, and reading the document it belongs to.
LEMMA MemberIndex ==
    ASSUME FlushInv, AdminInv, IndexInv, NEW u \in Users,
           AddMember(u) \/ DeleteMember(u) \/ EnsurePersonalOrg(u) \/ SyncRead(u)
    PROVE  IndexInv'
<1> DEFINE req == request[u]
<1>a. IsRequest(req)
  BY DEF FlushInv
<1>1. /\ req.pc # "idle" /\ profile' = profile /\ incidents' = incidents
      /\ Documents(profile') /\ (Calm' <=> Calm)
  BY DEF AddMember, DeleteMember, EnsurePersonalOrg, SyncRead, team, observers, IndexInv, Calm
<1>2. Calm => /\ WritesIndex(req, u, role, profile)
              /\ \A v \in Users : Agrees(v, role, profile) \/ Unsettled(req, v)
  BY <1>1, IndexBefore
<1>3. ASSUME NEW new, Go(u, new),
             Calm => /\ WritesIndex(new, u, role', profile)
                     /\ \A v \in Users : Agrees(v, role', profile) \/ Unsettled(new, v)
      PROVE  IndexInv'
  BY <1>1, <1>3, IndexKept
<1>4. ASSUME NEW who \in Users, NEW to, NEW add \in BOOLEAN, NEW then, ~Syncing(req),
             role' = [role EXCEPT ![who] = to], Calm => (add = TRUE <=> to # "none"),
             Go(u, Sync(req, who, "team", add, then))
      PROVE  IndexInv'
  <2> DEFINE new == Sync(req, who, "team", add, then)
  <2>1. new.pc = "sync_read" /\ new.who = who /\ new.org = "team" /\ new.add = add
    BY <1>a DEF IsRequest, Sync
  <2>2. Go(u, new)
    BY <1>4
  <2> HIDE DEF new
  <2>3. \A v \in Users : role'[v] = IF v = who THEN to ELSE role[v]
    BY <1>4 DEF AdminInv
  <2>4. Calm => WritesIndex(new, u, role', profile)
    BY <1>4, <2>1, <2>3 DEF WritesIndex, Syncing, Orgs
  <2>5. ASSUME Calm, NEW v \in Users PROVE Agrees(v, role', profile) \/ Unsettled(new, v)
    <3>1. Agrees(v, role, profile)
      BY <1>2, <1>4, <2>5 DEF Unsettled
    <3>2. CASE v = who
      BY <2>1, <3>2 DEF Unsettled, Syncing
    <3>3. CASE v # who
      BY <2>3, <3>1, <3>3 DEF Agrees
    <3>4. QED
      BY <3>2, <3>3
  <2>6. QED
    BY <1>3, <2>2, <2>4, <2>5
<1>5. CASE AddMember(u)
  <2>1. /\ req.pc \in {"add", "join"} /\ role' = [role EXCEPT ![req.who] = req.as]
        /\ Go(u, Sync(req, req.who, "team", TRUE, IF req.pc = "join" THEN "accepted" ELSE "idle"))
    BY <1>5 DEF AddMember
  <2>2. req.who \in Users /\ ~Syncing(req)
    BY <1>a, <2>1 DEF IsRequest, WithMember, Syncing
  <2>3. Calm => req.as # "none"
    BY <1>2, <2>1 DEF WritesIndex
  <2>4. QED
    BY <1>4, <2>1, <2>2, <2>3
<1>6. CASE DeleteMember(u)
  <2>1. /\ req.pc = "remove" /\ role' = [role EXCEPT ![req.who] = "none"]
        /\ Go(u, Sync(req, req.who, "team", FALSE, "idle"))
    BY <1>6 DEF DeleteMember
  <2>2. req.who \in Users /\ ~Syncing(req)
    BY <1>a, <2>1 DEF IsRequest, WithMember, Syncing
  <2>3. QED
    BY <1>4, <2>1, <2>2
<1>7. CASE EnsurePersonalOrg(u)
  <2> DEFINE new == Sync(req, u, "personal", TRUE, "joinable")
  <2>1. new.pc = "sync_read" /\ new.who = u /\ new.org = "personal" /\ new.add = TRUE
    BY <1>a DEF IsRequest, Sync
  <2>2. Go(u, new) /\ role' = role /\ req.pc = "personal"
    BY <1>7 DEF EnsurePersonalOrg
  <2> HIDE DEF new
  <2>3. WritesIndex(new, u, role', profile)
    BY <2>1 DEF WritesIndex, Syncing, Orgs
  <2>4. Calm => \A v \in Users : Agrees(v, role', profile)
    BY <1>2, <2>2 DEF Unsettled, Syncing
  <2>5. QED
    BY <1>3, <2>2, <2>3, <2>4
<1>8. CASE SyncRead(u)
  <2> DEFINE orgs == profile[req.who].orgs
             new  == [req EXCEPT !.pc = "sync_write", !.orgs = orgs]
  <2>1. /\ new.pc = "sync_write" /\ new.orgs = orgs /\ new.who = req.who /\ new.org = req.org
        /\ new.add = req.add
    BY <1>a DEF IsRequest
  <2>2. Go(u, new) /\ role' = role /\ req.pc = "sync_read"
    BY <1>8 DEF SyncRead, team
  <2> HIDE DEF new
  <2>3. Calm => WritesIndex(new, u, role', profile)
    BY <1>2, <2>1, <2>2 DEF WritesIndex, Syncing
  <2>4. Calm => \A v \in Users : Agrees(v, role', profile) \/ Unsettled(new, v)
    BY <1>2, <2>1, <2>2 DEF Unsettled, Syncing
  <2>5. QED
    BY <1>3, <2>2, <2>3, <2>4
<1>9. QED
  BY <1>5, <1>6, <1>7, <1>8

\* Writing a document.
LEMMA DocumentIndex ==
    ASSUME FlushInv, AdminInv, IndexInv, NEW u \in Users,
           SyncWrite(u) \/ UpsertUser(u) \/ ResolveActiveOrg(u) \/ WriteActiveOrg(u)
    PROVE  IndexInv'
<1> DEFINE req == request[u]
<1>a. IsRequest(req)
  BY DEF FlushInv
<1>1. req.pc # "idle" /\ role' = role /\ incidents' = incidents /\ (Calm' <=> Calm)
  BY DEF SyncWrite, UpsertUser, ResolveActiveOrg, WriteActiveOrg, observers, Calm
<1>2. Calm => /\ WritesIndex(req, u, role, profile)
              /\ \A v \in Users : Agrees(v, role, profile) \/ Unsettled(req, v)
  BY <1>1, IndexBefore
<1>3. ASSUME NEW new, Go(u, new), new.pc \notin {"add", "join", "active", "sync_read", "sync_write"},
             Documents(profile'), Calm => \A v \in Users : Agrees(v, role, profile')
      PROVE  IndexInv'
  <2>1. WritesIndex(new, u, role', profile')
    BY <1>3 DEF WritesIndex, Syncing
  <2>2. QED
    BY <1>1, <1>3, <2>1, IndexKept
<1>4. ASSUME NEW who \in Users, NEW exists, NEW orgs, NEW active,
             profile' = [profile EXCEPT ![who] = [orgs |-> orgs, exists |-> exists, active |-> active]]
      PROVE  /\ Documents(profile')
             /\ profile'[who].orgs = orgs /\ profile'[who].active = active
             /\ \A v \in Users : v # who => profile'[v] = profile[v]
  BY <1>4 DEF IndexInv, Documents
<1>5. \A pc : [Idle EXCEPT !.pc = pc].pc = pc
  BY DEF Idle
<1>6. CASE SyncWrite(u)
  <2> DEFINE who    == req.who
             orgs   == IF req.add THEN req.orgs \cup {req.org} ELSE req.orgs \ {req.org}
             active == IF ~req.add /\ profile[who].active = req.org THEN "personal"
                       ELSE profile[who].active
             pc     == req.then
             new    == IF pc = "idle" THEN Idle ELSE [Idle EXCEPT !.pc = pc]
  <2>1. /\ Go(u, new) /\ req.pc = "sync_write"
        /\ profile' = [profile EXCEPT ![who] = [orgs |-> orgs, exists |-> TRUE, active |-> active]]
    BY <1>6 DEF SyncWrite
  <2>2. new.pc \in Nexts
    BY <1>a, <1>5, IdleRequest DEF IsRequest, Nexts
  <2> HIDE DEF new
  <2>3. CASE who \in Users
    <3>1. /\ Documents(profile')
          /\ profile'[who].orgs = orgs /\ profile'[who].active = active
          /\ \A v \in Users : v # who => profile'[v] = profile[v]
      <4> HIDE DEF orgs, active, who
      <4>1. QED
        BY <1>4, <2>1, <2>3
    <3>2. ASSUME Calm, NEW v \in Users PROVE Agrees(v, role, profile')
      <4>1. WritesIndex(req, u, role, profile) /\ Syncing(req)
            /\ (Agrees(v, role, profile) \/ Unsettled(req, v))
        BY <1>2, <2>1, <3>2 DEF Syncing
      <4>2. CASE v # who
        BY <3>1, <4>1, <4>2 DEF Agrees, Unsettled
      <4>3. CASE v = who /\ req.org = "team" /\ req.add = TRUE
        <5>1. role[v] # "none" /\ profile'[v].orgs = req.orgs \cup {"team"}
          BY <3>1, <4>1, <4>3 DEF WritesIndex
        <5>2. QED
          BY <5>1 DEF Agrees
      <4>4. CASE v = who /\ req.org = "team" /\ req.add = FALSE
        <5>1. /\ role[v] = "none" /\ profile'[v].orgs = req.orgs \ {"team"}
              /\ profile'[v].active # "team"
          BY <3>1, <4>1, <4>4 DEF WritesIndex
        <5>2. QED
          BY <5>1 DEF Agrees
      <4>5. CASE v = who /\ req.org = "personal"
        <5>1. /\ req.add = TRUE /\ req.orgs = profile[v].orgs /\ Agrees(v, role, profile)
          BY <2>1, <4>1, <4>5 DEF WritesIndex, Unsettled
        <5>2. profile'[v].orgs = profile[v].orgs \cup {"personal"}
              /\ profile'[v].active = profile[v].active
          BY <3>1, <4>5, <5>1
        <5>3. QED
          BY <5>1, <5>2 DEF Agrees
      <4>6. req.org \in {"personal", "team"} /\ req.add \in {TRUE, FALSE}
        BY <4>1 DEF WritesIndex, Orgs
      <4>7. QED
        BY <4>2, <4>3, <4>4, <4>5, <4>6
    <3>3. QED
      BY <1>3, <2>1, <2>2, <3>1, <3>2 DEF Nexts
  <2>4. CASE who \notin Users
    <3>1. profile' = profile /\ Documents(profile')
      BY <2>1, <2>4 DEF IndexInv, Documents
    <3>2. ~Calm
      BY <1>2, <2>1, <2>4 DEF WritesIndex, Syncing
    <3>3. QED
      BY <1>3, <2>1, <2>2, <3>1, <3>2 DEF Nexts
  <2>5. QED
    BY <2>3, <2>4
<1>7. ASSUME ~Syncing(req) PROVE Calm => \A v \in Users : Agrees(v, role, profile)
  BY <1>2, <1>7 DEF Unsettled
<1>8. CASE UpsertUser(u)
  <2> DEFINE pc == IF u \in personal THEN "joinable" ELSE "personal"
  <2>1. /\ Go(u, [Idle EXCEPT !.pc = pc]) /\ req.pc = "profile"
        /\ \/ profile' = profile
           \/ profile' = [profile EXCEPT ![u].exists = TRUE, ![u].active = "personal"]
    BY <1>8 DEF UpsertUser
  <2>2. pc \in {"joinable", "personal"}
    OBVIOUS
  <2> HIDE DEF pc
  <2>3. /\ Documents(profile')
        /\ \A v \in Users : /\ profile'[v].orgs = profile[v].orgs
                            /\ profile'[v].active \in {profile[v].active, "personal"}
    BY <2>1 DEF IndexInv, Documents
  <2>4. Calm => \A v \in Users : Agrees(v, role, profile')
    BY <1>7, <2>1, <2>3 DEF Agrees, Syncing
  <2>5. QED
    BY <1>3, <1>5, <2>1, <2>2, <2>3, <2>4
<1>9. CASE WriteActiveOrg(u)
  <2>1. /\ Go(u, Idle) /\ req.pc = "active"
        /\ profile' = [profile EXCEPT ![u] =
                         [exists |-> TRUE, orgs |-> profile[u].orgs, active |-> "team"]]
    BY <1>9 DEF WriteActiveOrg
  <2>2. /\ Documents(profile')
        /\ \A v \in Users : /\ profile'[v].orgs = profile[v].orgs
                            /\ v # u => profile'[v].active = profile[v].active
    BY <2>1 DEF IndexInv, Documents
  <2>3. Calm => role[u] # "none"
    BY <1>2, <2>1 DEF WritesIndex
  <2>4. Calm => \A v \in Users : Agrees(v, role, profile')
    BY <1>7, <2>1, <2>2, <2>3 DEF Agrees, Syncing
  <2>5. QED
    BY <1>3, <2>1, <2>2, <2>4, IdleRequest
<1>10. CASE ResolveActiveOrg(u)
  <2> DEFINE mine   == Belongs(u)
             active == IF profile[u].active \in mine THEN profile[u].active ELSE "personal"
             orgs   == IF profile[u].orgs \cap mine = {} THEN profile[u].orgs \cup mine
                       ELSE profile[u].orgs
  <2>1. /\ Go(u, Idle) /\ req.pc = "resolve"
        /\ profile' = [profile EXCEPT ![u] =
                         [exists |-> profile[u].exists, orgs |-> orgs, active |-> active]]
    BY <1>10 DEF ResolveActiveOrg
  <2>2. "team" \in mine <=> role[u] # "none"
    BY DEF Belongs, IsMember
  <2> HIDE DEF mine
  <2>3. ASSUME Agrees(u, role, profile)
        PROVE  /\ "team" \in orgs <=> role[u] # "none"
               /\ active = "team" => role[u] # "none"
    BY <2>2, <2>3 DEF Agrees
  <2> HIDE DEF active, orgs
  <2>4. /\ Documents(profile') /\ profile'[u].orgs = orgs /\ profile'[u].active = active
        /\ \A v \in Users : v # u => profile'[v] = profile[v]
    BY <2>1 DEF IndexInv, Documents
  <2>5. Calm => \A v \in Users : Agrees(v, role, profile')
    BY <1>7, <2>1, <2>3, <2>4 DEF Agrees, Syncing
  <2>6. QED
    BY <1>3, <2>1, <2>4, <2>5, IdleRequest
<1>11. QED
  BY <1>6, <1>8, <1>9, <1>10

\* A request that stops half way is an incident.
LEMMA CrashIndex ==
    ASSUME IndexInv, NEW u \in Users, Crash(u)
    PROVE  IndexInv'
BY DEF Crash, IndexInv, Calm, team

\* Between requests, users see in their profile the teams they belong to, and their active
\* organization is one of them, however members are invited, join, leave and come back, as
\* long as requests neither overlap nor stop half way (_sync_user_org_membership,
\* accept_pending_invites, resolve_active_org_id).
THEOREM IndexIsTrue == Spec => []IndexFollowsMembership
<1>1. Init => IndexInv
  <2> SUFFICES ASSUME Init PROVE IndexInv
    OBVIOUS
  <2>1. Documents(profile)
    BY DEF Init, Documents
  <2>2. \A v \in Users : request[v] = Idle
    BY DEF Init
  <2>3. \A v \in Users : WritesIndex(request[v], v, role, profile)
    BY <2>2, IdleRequest DEF WritesIndex, Syncing
  <2>4. \A v \in Users : Agrees(v, role, profile)
    BY DEF Init, Agrees, Orgs
  <2>5. QED
    BY <2>1, <2>3, <2>4 DEF IndexInv
<1>2. FlushInv /\ AdminInv /\ IndexInv /\ [Next]_vars => IndexInv'
  <2>1. IndexInv /\ UNCHANGED vars => IndexInv'
    BY DEF vars, IndexInv, Calm
  <2>2. QED
    BY <2>1, CallIndex, StepIndex, MemberIndex, DocumentIndex, CrashIndex DEF Next, Step
<1>3. IndexInv => IndexFollowsMembership
  BY DEF IndexInv, IndexFollowsMembership, Quiet, Calm, Unsettled, Syncing, Agrees, IsMember
<1>4. QED
  BY <1>1, <1>2, <1>3, InitAdmin, StepAdmins, AlwaysFlush, PTL DEF Spec

=============================================================================
