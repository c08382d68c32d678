--------------------------- MODULE TeamWorkspace ---------------------------
(***************************************************************************)
(* A team: the documents of one organization in Firestore (members,        *)
(* invites, the lock and the snapshot of one work order, the event log),   *)
(* written by the cloud API (lc_server/integrations/firestore_store.py,    *)
(* cloud_api/routes), and what the desktop of each user sends there: the   *)
(* events of its delivery engine, mirrored or queued while offline         *)
(* (cloud_sync.py, events/store.py, persistence/pending_events.py,         *)
(* ui/src/lib/team-sync.ts).                                               *)
(*                                                                         *)
(* The store uses no Firestore transaction: a request reads, then writes   *)
(* one document at a time.  The reads up to a write are one step.          *)
(***************************************************************************)
EXTENDS Integers, Sequences, FiniteSets

CONSTANTS
    Users,
    Founder,     \* created the team
    Nobody,
    MaxClock,    \* bound: changes of the work order
    Environment  \* which incidents may happen, and which requests are made

Incidents == {"overlap", "crash", "lost_reply", "batch_failed", "open_transaction"}
Requests  == {"invite", "remove", "active", "lock", "offline"}

ASSUME TeamAssumption ==
    /\ Founder \in Users /\ Nobody \notin Users
    /\ MaxClock \in Nat
    /\ Environment \subseteq Incidents \cup Requests

VARIABLES
    role,      \* the team's members
    profile,   \* the users' documents: organizations index and active org
    personal,  \* users whose personal organization exists
    invite,    \* role of the pending invite of each user, or none
    lock,      \* holder of the work order's lock
    snapshot,  \* version of the work order's snapshot
    log,       \* events appended to the team
    clock,     \* versions are times of change
    local,     \* version of the work order in each user's runtime.db
    queue,     \* pending_cloud_events of each user
    request,   \* the request each user has under way
    \* Observations that no step reads.
    flushed,   \* events marked as flushed
    lost,      \* changes neither sent nor queued
    incidents  \* what went wrong so far

team      == <<role, profile, personal, invite>>
order     == <<lock, snapshot, log>>
desktop   == <<clock, local, queue>>
observers == <<flushed, lost, incidents>>
vars      == <<role, profile, personal, invite, lock, snapshot, log, clock, local, queue,
               request, flushed, lost, incidents>>

----------------------------------------------------------------------------
Orgs    == {"personal", "team"}
Roles   == {"admin", "member"}
Event   == [id : 1 .. MaxClock, version : 0 .. MaxClock]

IsMember(u) == role[u] # "none"
IsAdmin(u)  == role[u] = "admin"
Admins      == {u \in Users : IsAdmin(u)}

Idle == [pc |-> "idle", who |-> Nobody, as |-> "none", org |-> "team", add |-> TRUE,
         orgs |-> {}, then |-> "idle", batch |-> {}, accepted |-> {}, event |-> <<>>]

Go(u, req) == request' = [request EXCEPT ![u] = req]

Allows(e) == e \in Environment
\* Bound: one call is lost, the process stops once, or one event is mirrored early.
MayHappen(e) == e \in Environment /\ incidents \subseteq {"overlap", "batch_failed"}

Quiet    == \A u \in Users : request[u].pc = "idle"
Overlaps == IF Quiet THEN {} ELSE {"overlap"}

Begin(u, req) ==
    /\ request[u].pc = "idle"
    /\ Overlaps \subseteq Environment
    /\ Go(u, req)
    /\ incidents' = incidents \cup Overlaps

\* _sync_user_org_membership reads the index, and writes it back whole.
Sync(req, who, org, add, then) ==
    [req EXCEPT !.pc = "sync_read", !.who = who, !.org = org, !.add = add, !.then = then]

SyncRead(u) ==
    LET req == request[u] IN
    /\ req.pc = "sync_read"
    /\ Go(u, [req EXCEPT !.pc = "sync_write", !.orgs = profile[req.who].orgs])
    /\ UNCHANGED <<team, order, desktop, observers>>

SyncWrite(u) ==
    LET req == request[u]
        orgs == IF req.add THEN req.orgs \cup {req.org} ELSE req.orgs \ {req.org}
        old == profile[req.who] IN
    /\ req.pc = "sync_write"
    /\ profile' = [profile EXCEPT ![req.who] =
           [orgs |-> orgs, exists |-> TRUE,
            active |-> IF ~req.add /\ old.active = req.org THEN "personal" ELSE old.active]]
    /\ Go(u, IF req.then = "idle" THEN Idle
             ELSE [Idle EXCEPT !.pc = req.then])
    /\ UNCHANGED <<role, personal, invite, order, desktop, observers>>

----------------------------------------------------------------------------
(* Invitations and removals.                                               *)

InviteMember(u, t, as) ==
    /\ Allows("invite")
    /\ IsAdmin(u) /\ ~IsMember(t)
    /\ \/ Begin(u, [Idle EXCEPT !.pc = "add", !.who = t, !.as = as])
       \/ /\ ~profile[t].exists    \* no account yet
          /\ invite[t] = "none"
          /\ Begin(u, [Idle EXCEPT !.pc = "invite", !.who = t, !.as = as])
    /\ UNCHANGED <<team, order, desktop, flushed, lost>>

WriteInvite(u) ==
    LET req == request[u] IN
    /\ req.pc = "invite"
    /\ invite' = [invite EXCEPT ![req.who] = req.as]
    /\ Go(u, Idle)
    /\ UNCHANGED <<role, profile, personal, order, desktop, observers>>

\* _add_member_record, of an invitation or of its acceptance.
AddMember(u) ==
    LET req == request[u] IN
    /\ req.pc \in {"add", "join"}
    /\ role' = [role EXCEPT ![req.who] = req.as]
    /\ Go(u, Sync(req, req.who, "team", TRUE, IF req.pc = "join" THEN "accepted" ELSE "idle"))
    /\ UNCHANGED <<profile, personal, invite, order, desktop, observers>>

RevokeInvite(u, t) ==
    /\ Allows("invite")
    /\ IsAdmin(u) /\ invite[t] # "none"
    /\ Begin(u, [Idle EXCEPT !.pc = "revoke", !.who = t])
    /\ UNCHANGED <<team, order, desktop, flushed, lost>>

WriteRevoke(u) ==
    /\ request[u].pc = "revoke"
    /\ invite' = [invite EXCEPT ![request[u].who] = "none"]
    /\ Go(u, Idle)
    /\ UNCHANGED <<role, profile, personal, order, desktop, observers>>

\* Mutant: members may leave, and nobody counts the admins.
MayLeave(u, t) == IsMember(u) /\ IsMember(t) /\ (u = t \/ IsAdmin(u))

MayRemove(u, t) ==
    /\ IsAdmin(u) /\ IsMember(t) /\ u # t
    /\ IsAdmin(t) => Cardinality(Admins) > 1

RemoveMember(u, t) ==
    /\ Allows("remove")
    /\ MayRemove(u, t)
    /\ Begin(u, [Idle EXCEPT !.pc = "remove", !.who = t])
    /\ UNCHANGED <<team, order, desktop, flushed, lost>>

\* Mutant: the index of the removed member is not updated.
DeleteOnly(u) ==
    /\ request[u].pc = "remove"
    /\ role' = [role EXCEPT ![request[u].who] = "none"]
    /\ Go(u, Idle)
    /\ UNCHANGED <<profile, personal, invite, order, desktop, observers>>

DeleteMember(u) ==
    LET req == request[u] IN
    /\ req.pc = "remove"
    /\ role' = [role EXCEPT ![req.who] = "none"]
    /\ Go(u, Sync(req, req.who, "team", FALSE, "idle"))
    /\ UNCHANGED <<profile, personal, invite, order, desktop, observers>>

----------------------------------------------------------------------------
(* The session of a user.                                                  *)

\* bootstrap_user: the profile, the personal organization, the invitations,
\* the active organization.
Bootstrap(u) ==
    /\ Begin(u, [Idle EXCEPT !.pc = "profile"])
    /\ UNCHANGED <<team, order, desktop, flushed, lost>>

UpsertUser(u) ==
    /\ request[u].pc = "profile"
    /\ profile' = IF profile[u].exists THEN profile
                  ELSE [profile EXCEPT ![u].exists = TRUE, ![u].active = "personal"]
    /\ Go(u, [Idle EXCEPT !.pc = IF u \in personal THEN "joinable" ELSE "personal"])
    /\ UNCHANGED <<role, personal, invite, order, desktop, observers>>

EnsurePersonalOrg(u) ==
    /\ request[u].pc = "personal"
    /\ personal' = personal \cup {u}
    /\ Go(u, Sync(request[u], u, "personal", TRUE, "joinable"))
    /\ UNCHANGED <<role, profile, invite, order, desktop, observers>>

\* accept_pending_invites: the query, then the member, then the invite.
AcceptPendingInvites(u) ==
    /\ request[u].pc = "joinable"
    /\ Go(u, CASE invite[u] = "none" -> [Idle EXCEPT !.pc = "resolve"]
               [] IsMember(u)                  -> [Idle EXCEPT !.pc = "accepted"]
               [] OTHER -> [Idle EXCEPT !.pc = "join", !.who = u, !.as = invite[u]])
    /\ UNCHANGED <<team, order, desktop, observers>>

MarkAccepted(u) ==
    /\ request[u].pc = "accepted"
    /\ invite' = [invite EXCEPT ![u] = "none"]
    /\ Go(u, [Idle EXCEPT !.pc = "resolve"])
    /\ UNCHANGED <<role, profile, personal, order, desktop, observers>>

\* resolve_active_org_id repairs a pointer to an organization the user left.
\* list_user_orgs rebuilds an index none of whose organizations is left.
Belongs(u) == (IF u \in personal THEN {"personal"} ELSE {})
              \cup (IF IsMember(u) THEN {"team"} ELSE {})

ResolveActiveOrg(u) ==
    /\ request[u].pc = "resolve"
    /\ profile' = [profile EXCEPT ![u] =
           [exists |-> @.exists,
            orgs   |-> IF @.orgs \cap Belongs(u) = {} THEN @.orgs \cup Belongs(u) ELSE @.orgs,
            active |-> IF @.active \in Belongs(u) THEN @.active ELSE "personal"]]
    /\ Go(u, Idle)
    /\ UNCHANGED <<role, personal, invite, order, desktop, observers>>

SetActiveOrg(u) ==
    /\ Allows("active")
    /\ IsMember(u)
    /\ Begin(u, [Idle EXCEPT !.pc = "active"])
    /\ UNCHANGED <<team, order, desktop, flushed, lost>>

WriteActiveOrg(u) ==
    /\ request[u].pc = "active"
    /\ profile' = [profile EXCEPT ![u] =
           [exists |-> TRUE, orgs |-> @.orgs, active |-> "team"]]
    /\ Go(u, Idle)
    /\ UNCHANGED <<role, personal, invite, order, desktop, observers>>

----------------------------------------------------------------------------
(* The lock of the work order.                                             *)

LockFree(u) == lock \in {Nobody, u}

AcquireLock(u) ==
    /\ Allows("lock")
    /\ IsMember(u) /\ LockFree(u)
    /\ Begin(u, [Idle EXCEPT !.pc = "lock"])
    /\ UNCHANGED <<team, order, desktop, flushed, lost>>

WriteLock(u) ==
    /\ request[u].pc = "lock"
    /\ lock' = u
    /\ Go(u, Idle)
    /\ UNCHANGED <<team, snapshot, log, desktop, observers>>

ReleaseLock(u) ==
    /\ IsMember(u) /\ lock = u
    /\ Begin(u, [Idle EXCEPT !.pc = "unlock"])
    /\ UNCHANGED <<team, order, desktop, flushed, lost>>

DeleteLock(u) ==
    /\ request[u].pc = "unlock"
    /\ lock' = Nobody
    /\ Go(u, Idle)
    /\ UNCHANGED <<team, snapshot, log, desktop, observers>>

----------------------------------------------------------------------------
(* Events of the work order, from the desktop to the cloud.                *)

\* A change of the work order, and its event.  An event appended on an open
\* connection is mirrored before the commit: another connection still reads the
\* version before.
Change(u, open) ==
    /\ clock < MaxClock
    /\ clock' = clock + 1
    /\ local' = [local EXCEPT ![u] = clock + 1]
    /\ open => MayHappen("open_transaction")
    /\ LET mine == [Idle EXCEPT !.pc = IF open THEN "mirror_open" ELSE "mirror",
                       !.event = <<[id |-> clock + 1,
                                    version |-> IF open THEN local[u] ELSE clock + 1]>>]
       IN /\ request[u].pc = "idle"
          /\ Overlaps \subseteq Environment
          /\ Go(u, mine)
          /\ incidents' = incidents \cup Overlaps
                 \cup (IF open THEN {"open_transaction"} ELSE {})
    /\ UNCHANGED <<team, order, queue, flushed, lost>>

\* POST /orgs/{org}/events: the checks of append_org_event.
MaySend(u) == IsMember(u) /\ LockFree(u)

PostChecked(u) ==
    /\ request[u].pc \in {"mirror", "mirror_open"} /\ MaySend(u)
    /\ Go(u, [request[u] EXCEPT !.pc = "append"])
    /\ UNCHANGED <<team, order, desktop, observers>>

\* The cloud refuses the event, or is not reached: it is queued, unless the
\* transaction it comes from still holds the database.
PostFails(u) ==
    LET req == request[u] IN
    /\ req.pc \in {"mirror", "mirror_open"}
    /\ ~MaySend(u) \/ Allows("offline")
    /\ IF req.pc = "mirror"
       THEN queue' = [queue EXCEPT ![u] = @ \cup {req.event[1]}] /\ lost' = lost
       ELSE queue' = queue /\ lost' = lost \cup {req.event[1].id}
    /\ Go(u, Idle)
    /\ UNCHANGED <<team, order, clock, local, flushed, incidents>>

\* The event, then the snapshot its payload carries.
Appended(e) ==
    /\ log' = log \cup {e.id}

AppendEvent(u) ==
    LET req == request[u] IN
    /\ req.pc \in {"append", "reconcile_append"}
    /\ Appended(req.event[1])
    /\ Go(u, [req EXCEPT !.pc = IF req.pc = "append" THEN "snapshot" ELSE "reconcile_snapshot"])
    /\ UNCHANGED <<team, lock, snapshot, desktop, flushed, lost, incidents>>

WriteSnapshot(u) ==
    LET req == request[u] IN
    /\ req.pc \in {"snapshot", "reconcile_snapshot"}
    /\ snapshot' = IF req.event[1].version = 0 THEN snapshot ELSE req.event[1].version
    /\ Go(u, IF req.pc = "snapshot" THEN Idle
             ELSE [req EXCEPT !.pc = "reconcile", !.event = <<>>,
                              !.accepted = @ \cup {req.event[1].id}])
    /\ UNCHANGED <<team, lock, log, desktop, observers>>

----------------------------------------------------------------------------
(* The offline queue.                                                      *)

\* flushPendingEvents reads the queue and posts it in one batch, oldest first: the
\* events of a user are queued in the order in which they happened.
Oldest(batch) == CHOOSE e \in batch : \A f \in batch : e.id <= f.id

Flush(u) ==
    /\ queue[u] # {} /\ IsMember(u)
    /\ Begin(u, [Idle EXCEPT !.pc = "reconcile", !.batch = queue[u]])
    /\ UNCHANGED <<team, order, desktop, flushed, lost>>

\* Mutant: the version of the server is not compared.
NeverOutdated(e) == FALSE

Outdated(e) == e.version > 0 /\ snapshot > e.version

\* reconcile_pending_events: an outdated event is a conflict and stays queued.
Reconcile(u) ==
    LET req == request[u]
        e == Oldest(req.batch) IN
    /\ req.pc = "reconcile" /\ req.batch # {}
    /\ \/ /\ Outdated(e)
          /\ Go(u, [req EXCEPT !.batch = @ \ {e}])
       \/ /\ ~Outdated(e) /\ MaySend(u)
          /\ Go(u, [req EXCEPT !.batch = @ \ {e}, !.pc = "reconcile_append", !.event = <<e>>])
    /\ UNCHANGED <<team, order, desktop, observers>>

\* The first event the cloud refuses fails the whole batch: what was accepted
\* before it is not acknowledged.
BatchFails(u) ==
    LET req == request[u] IN
    /\ req.pc = "reconcile" /\ req.batch # {}
    /\ ~Outdated(Oldest(req.batch)) /\ ~MaySend(u)
    /\ Go(u, Idle)
    /\ incidents' = incidents \cup (IF req.accepted = {} THEN {} ELSE {"batch_failed"})
    /\ UNCHANGED <<team, order, desktop, flushed, lost>>

\* The reply does not arrive: the queue stays as it was.
ReplyLost(u) ==
    /\ MayHappen("lost_reply")
    /\ request[u].pc = "reconcile" /\ request[u].batch = {}
    /\ Go(u, Idle)
    /\ incidents' = incidents \cup {"lost_reply"}
    /\ UNCHANGED <<team, order, desktop, flushed, lost>>

\* Mutant: everything that was posted is marked.
MarkAll(u) ==
    LET req == request[u] IN
    /\ req.pc = "reconcile" /\ req.batch = {}
    /\ flushed' = flushed \cup {e.id : e \in queue[u]}
    /\ queue' = [queue EXCEPT ![u] = {}]
    /\ Go(u, Idle)
    /\ UNCHANGED <<team, order, clock, local, lost, incidents>>

MarkFlushed(u) ==
    LET req == request[u] IN
    /\ req.pc = "reconcile" /\ req.batch = {}
    /\ flushed' = flushed \cup req.accepted
    /\ queue' = [queue EXCEPT ![u] = {e \in @ : e.id \notin req.accepted}]
    /\ Go(u, Idle)
    /\ UNCHANGED <<team, order, clock, local, lost, incidents>>

----------------------------------------------------------------------------
\* The process serving a request stops between two writes.
Crash(u) ==
    /\ MayHappen("crash")
    /\ request[u].pc # "idle"
    /\ Go(u, Idle)
    /\ incidents' = incidents \cup {"crash"}
    /\ lost' = lost \cup (IF request[u].pc \in {"mirror", "mirror_open"}
                          THEN {request[u].event[1].id} ELSE {})
    /\ UNCHANGED <<team, order, desktop, flushed>>

Init ==
    /\ role = [u \in Users |-> IF u = Founder THEN "admin" ELSE "none"]
    /\ profile = [u \in Users |-> [exists |-> u = Founder,
                     orgs |-> IF u = Founder THEN Orgs ELSE {},
                     active |-> IF u = Founder THEN "personal" ELSE "none"]]
    /\ personal = {Founder}
    /\ invite = [u \in Users |-> "none"]
    /\ lock = Nobody /\ snapshot = 0 /\ log = {}
    /\ clock = 0 /\ local = [u \in Users |-> 0] /\ queue = [u \in Users |-> {}]
    /\ request = [u \in Users |-> Idle]
    /\ flushed = {} /\ lost = {} /\ incidents = {}

Call(u) ==
    \/ \E t \in Users :
          \/ \E as \in Roles : InviteMember(u, t, as)
          \/ RevokeInvite(u, t)
          \/ RemoveMember(u, t)
    \/ Bootstrap(u) \/ SetActiveOrg(u)
    \/ AcquireLock(u) \/ ReleaseLock(u)
    \/ \E open \in BOOLEAN : Change(u, open)
    \/ Flush(u)

Step(u) ==
    \/ SyncRead(u) \/ SyncWrite(u)
    \/ WriteInvite(u) \/ AddMember(u) \/ WriteRevoke(u) \/ DeleteMember(u)
    \/ UpsertUser(u) \/ EnsurePersonalOrg(u) \/ AcceptPendingInvites(u) \/ MarkAccepted(u)
    \/ ResolveActiveOrg(u) \/ WriteActiveOrg(u)
    \/ WriteLock(u) \/ DeleteLock(u)
    \/ PostChecked(u) \/ PostFails(u) \/ AppendEvent(u) \/ WriteSnapshot(u)
    \/ Reconcile(u) \/ BatchFails(u) \/ ReplyLost(u) \/ MarkFlushed(u)

Next == \E u \in Users : Call(u) \/ Step(u) \/ Crash(u)

Spec == Init /\ [][Next]_vars

----------------------------------------------------------------------------
\* The values the state may take.
TypeOK ==
    /\ role \in [Users -> Roles \cup {"none"}]
    /\ profile \in [Users -> [exists : BOOLEAN, orgs : SUBSET Orgs, active : Orgs \cup {"none"}]]
    /\ personal \subseteq Users
    /\ invite \in [Users -> Roles \cup {"none"}]
    /\ lock \in Users \cup {Nobody} /\ snapshot \in 0 .. MaxClock /\ log \subseteq 1 .. MaxClock
    /\ clock \in 0 .. MaxClock /\ local \in [Users -> 0 .. MaxClock]
    /\ queue \in [Users -> SUBSET Event]
    /\ \A u \in Users : request[u].who \in Users \cup {Nobody} /\ request[u].batch \subseteq Event
    /\ flushed \subseteq 1 .. MaxClock
    /\ lost \subseteq 1 .. MaxClock /\ incidents \subseteq Incidents

\* A queued event is forgotten only once it is in the team's log, whatever
\* crashes, conflicts, removals and lost replies come in between.
FlushedMeansDelivered == flushed \subseteq log

\* Between requests, users see in their profile the teams they belong to, and
\* their active organization is one of them, as long as requests neither overlap
\* nor stop half way: invited before or after they signed up, removed, invited again.
IndexFollowsMembership ==
    Quiet /\ incidents \cap {"overlap", "crash"} = {} =>
        \A u \in Users : /\ "team" \in profile[u].orgs <=> IsMember(u)
                         /\ profile[u].active = "team" => IsMember(u)

\* A team keeps an admin, as long as removals do not overlap.
TeamHasAnAdmin == "overlap" \notin incidents => Admins # {}

\* The cloud's snapshot of a work order never goes back to an older version,
\* whatever is queued and sent late, unless requests overlap or an event is
\* mirrored before its transaction commits.
SnapshotMovesForward ==
    [][incidents' \cap {"overlap", "open_transaction"} = {} => snapshot' >= snapshot]_vars

\* Every change of a work order is mirrored to the team or queued (cloud_sync.py:
\* "Mirror a local delivery event to Firestore via cloud API, or queue offline").
SentOrQueued == "crash" \notin incidents => lost = {}
=============================================================================
