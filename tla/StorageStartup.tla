--------------------------- MODULE StorageStartup ---------------------------
(***************************************************************************)
(* How processes that share runtime.db bring it to the current schema      *)
(* (delivery_runtime/persistence/db.py): the copy of a legacy file, the    *)
(* column patches before every transaction, the upgrade or the first       *)
(* schema under a file lock, and the ids a transaction hands out.          *)
(*                                                                         *)
(* sqlite3 commits each DDL statement on its own, so a script is a         *)
(* sequence of statements and a process may stop, or another may run,      *)
(* between any two.  Tables that one script makes in a row are one name.   *)
(***************************************************************************)
EXTENDS Integers, Sequences, FiniteSets

CONSTANTS
    Processes,   \* dashboards and agents with the same home directory
    Nobody,
    OldVersions, \* schema versions a database may be left at
    MaxIds,      \* bound: ids handed out
    MaxCrashes,  \* bound: processes that stop
    Environment  \* which incidents may happen

Incidents == {"crash", "crash_in_schema", "busy", "copy_race"}

ASSUME StorageAssumption ==
    /\ Nobody \notin Processes
    /\ OldVersions \subseteq Nat
    /\ MaxIds \in Nat /\ MaxCrashes \in Nat
    /\ Environment \subseteq Incidents

VARIABLES
    file,     \* runtime.db
    legacy,   \* delivery.db of the Hermes home
    fileLock, \* holder of .runtime.db.init.lock
    writer,   \* process with an open SQLite write transaction
    proc,     \* where each process is
    ids,      \* committed ids, an observation
    crashes

vars == <<file, legacy, fileLock, writer, proc, ids, crashes>>

----------------------------------------------------------------------------
(* The schema.                                                             *)

SchemaVersion == 12

Tables  == {"meta", "core", "drafts", "inbox", "queue", "pending"}
TableOf == [estimate |-> "core", analysis |-> "core", org_core |-> "core",
            org_inbox |-> "inbox", consumer |-> "queue", org_queue |-> "queue",
            links |-> "drafts"]
Columns == DOMAIN TableOf

Absent    == [kind |-> "absent", tables |-> {}, columns |-> {}, version |-> 0, counter |-> 0]

\* What a plugin of version v left; later patches may not have reached it.
Shape(v) ==
    [kind    |-> "database",
     tables  |-> {"meta", "core"} \cup (IF v < 4 THEN {} ELSE {"drafts"})
                 \cup (IF v < 5 THEN {} ELSE {"inbox"}) \cup (IF v < 6 THEN {} ELSE {"queue"})
                 \cup (IF v < 11 THEN {} ELSE {"pending"}),
     columns |-> (IF v < 7 THEN {} ELSE {"consumer"})
                 \cup (IF v < 8 THEN {} ELSE {"org_core", "org_inbox", "org_queue"}),
     version |-> v,
     counter |-> 1]

Complete(f)    == f.tables = Tables /\ f.columns = Columns
SchemaReady(f) == f.kind = "database" /\ f.version >= SchemaVersion

----------------------------------------------------------------------------
(* The scripts.                                                            *)

Open            == [op |-> "open",   item |-> "",  with |-> {}]
Create(t, cols) == [op |-> "create", item |-> t,   with |-> cols]
Add(c)          == [op |-> "add",    item |-> c,   with |-> {}]
Stamp           == [op |-> "stamp",  item |-> "",  with |-> {}]

Unless(done, script) == IF done THEN <<>> ELSE script

Drafts  == Create("drafts", {"links"})
Queue   == Create("queue", {"consumer"})
Pending == Create("pending", {})
Schema  == <<Create("meta", {}), Create("core", {"estimate", "analysis", "org_core"}),
             Drafts, Create("inbox", {"org_inbox"}), Pending>>
SchemaV5  == <<Create("inbox", {}), Queue>>
SchemaV6  == <<Queue>>
SchemaV11 == <<Pending>>

AnalysisColumns == <<Add("analysis")>>
ConsumerColumns == <<Add("consumer")>>
OrgColumns      == <<Add("org_core"), Add("org_inbox"), Add("org_queue")>>

\* The patches of the tables that were there when they began.
ColumnPatches(tables) ==
    Unless("core" \notin tables, <<Add("estimate")>> \o AnalysisColumns)
    \o Unless("queue" \notin tables, ConsumerColumns)
    \o Unless("drafts" \notin tables, <<Add("links")>>)

Migrations(current) ==
    <<Add("estimate")>> \o AnalysisColumns
    \o Unless(current >= 5, SchemaV5)
    \o Unless(current >= 6, SchemaV6)
    \o Unless(current >= 7, ConsumerColumns)
    \o Unless(current >= 8, OrgColumns)
    \o Unless(current >= 11, SchemaV11)

Bootstrap == <<Open>> \o Schema \o Migrations(0) \o <<Stamp>>

\* A fault: the version is written before the migrations run.
StampFirst(f) ==
    Unless("meta" \in f.tables, Schema)
    \o Unless("drafts" \in f.tables \/ "meta" \notin f.tables, <<Drafts>>)
    \o <<Stamp>> \o Migrations(f.version)

Upgrade(f) ==
    Unless("meta" \in f.tables, Schema)
    \o Unless("drafts" \in f.tables \/ "meta" \notin f.tables, <<Drafts>>)
    \o Migrations(f.version) \o <<Stamp>>

\* _database_exists: a file with bytes in it.
Script(f) == IF f.kind = "absent" THEN Bootstrap ELSE Upgrade(f)

----------------------------------------------------------------------------
(* One attempt of init_db, and the transaction after it.                   *)

Down == [pc |-> "idle", booted |-> FALSE, initialized |-> FALSE, repairs |-> FALSE,
         script |-> <<>>, missing |-> FALSE, id |-> 0]

Go(p, r) == proc' = [proc EXCEPT ![p] = r]
To(p, pc) == [proc[p] EXCEPT !.pc = pc, !.script = <<>>, !.missing = FALSE, !.id = 0]

Released(holder, p) == IF holder = p THEN Nobody ELSE holder

\* An exception: the context managers let go, the next request tries again.
Fail(p) ==
    /\ Go(p, To(p, "idle"))
    /\ fileLock' = Released(fileLock, p) /\ writer' = Released(writer, p)
    /\ UNCHANGED <<file, legacy, ids, crashes>>

MidCopy == \E p \in Processes : proc[p].pc = "copy"

\* A server that starts repairs first; a request calls connect().
Begin(p) ==
    /\ proc[p].pc = "idle"
    /\ MidCopy => "copy_race" \in Environment
    /\ Go(p, [proc[p] EXCEPT !.pc = "legacy", !.booted = TRUE, !.repairs = ~proc[p].booted])
    /\ UNCHANGED <<file, legacy, fileLock, writer, ids, crashes>>

\* A fault: every start copies the legacy file.
AlwaysMissing == TRUE

TargetMissing == file.kind = "absent"

CheckLegacy(p) ==
    /\ proc[p].pc = "legacy"
    /\ MidCopy => "copy_race" \in Environment
    /\ Go(p, To(p, IF TargetMissing /\ legacy.kind # "absent" THEN "copy" ELSE "patch"))
    /\ UNCHANGED <<file, legacy, fileLock, writer, ids, crashes>>

\* The copy is one step: a stop in the middle of it is left out.
CopyLegacy(p) ==
    /\ proc[p].pc = "copy"
    /\ file' = legacy
    /\ Go(p, To(p, "patch"))
    /\ UNCHANGED <<legacy, fileLock, writer, ids, crashes>>

StartPatches(p) ==
    /\ proc[p].pc = "patch"
    /\ Go(p, [To(p, "patching") EXCEPT !.script = ColumnPatches(file.tables)])
    /\ UNCHANGED <<file, legacy, fileLock, writer, ids, crashes>>

InScript(p, op) ==
    /\ proc[p].pc \in {"patching", "migrating"}
    /\ proc[p].script # <<>> /\ Head(proc[p].script).op = op

Proceed(p) == Go(p, [proc[p] EXCEPT !.script = Tail(@), !.missing = FALSE])

MayWrite(p) == writer \in {Nobody, p}

OpenFile(p) ==
    /\ InScript(p, "open")
    /\ file' = [file EXCEPT !.kind = "database"]
    /\ Proceed(p)
    /\ UNCHANGED <<legacy, fileLock, writer, ids, crashes>>

\* CREATE TABLE IF NOT EXISTS
CreateTable(p) ==
    LET s == Head(proc[p].script) IN
    /\ InScript(p, "create") /\ MayWrite(p)
    /\ file' = IF s.item \in file.tables THEN file
               ELSE [file EXCEPT !.tables = @ \cup {s.item}, !.columns = @ \cup s.with]
    /\ Proceed(p)
    /\ UNCHANGED <<legacy, fileLock, writer, ids, crashes>>

\* A fault: columns are added without a look.
AlwaysAsMissing(f, c) == TableOf[c] \in f.tables

Missing(f, c) == TableOf[c] \in f.tables /\ c \notin f.columns

\* PRAGMA table_info
LookAtColumn(p) ==
    /\ InScript(p, "add") /\ ~proc[p].missing
    /\ IF Missing(file, Head(proc[p].script).item)
       THEN Go(p, [proc[p] EXCEPT !.missing = TRUE])
       ELSE Proceed(p)
    /\ UNCHANGED <<file, legacy, fileLock, writer, ids, crashes>>

\* ALTER TABLE ADD COLUMN, refused when another process was faster.
AddColumn(p) ==
    LET c == Head(proc[p].script).item IN
    /\ InScript(p, "add") /\ proc[p].missing /\ MayWrite(p)
    /\ \/ /\ c \in file.columns
          /\ Fail(p)
       \/ /\ c \notin file.columns
          /\ file' = [file EXCEPT !.columns = @ \cup {c}]
          /\ Proceed(p)
          /\ UNCHANGED <<legacy, fileLock, writer, ids, crashes>>

WriteVersion(p) ==
    /\ InScript(p, "stamp") /\ MayWrite(p)
    /\ file' = [file EXCEPT !.version = SchemaVersion]
    /\ Proceed(p)
    /\ UNCHANGED <<legacy, fileLock, writer, ids, crashes>>

EndPatches(p) ==
    /\ proc[p].pc = "patching" /\ proc[p].script = <<>>
    /\ Go(p, IF proc[p].repairs
             THEN [To(p, "legacy") EXCEPT !.repairs = FALSE]  \* repair, then init_db
             ELSE IF proc[p].initialized \/ SchemaReady(file)
             THEN [To(p, "transact") EXCEPT !.initialized = TRUE]
             ELSE To(p, "wait_lock"))
    /\ UNCHANGED <<file, legacy, fileLock, writer, ids, crashes>>

LockMigration(p) ==
    /\ proc[p].pc = "wait_lock" /\ fileLock = Nobody
    /\ \/ /\ SchemaReady(file)
          /\ Go(p, [To(p, "transact") EXCEPT !.initialized = TRUE])
          /\ UNCHANGED fileLock
       \/ /\ ~SchemaReady(file)
          /\ Go(p, [To(p, "migrating") EXCEPT !.script = Script(file)])
          /\ fileLock' = p
    /\ UNCHANGED <<file, legacy, writer, ids, crashes>>

EndMigration(p) ==
    /\ proc[p].pc = "migrating" /\ proc[p].script = <<>>
    /\ Go(p, [To(p, "transact") EXCEPT !.initialized = TRUE])
    /\ fileLock' = Nobody
    /\ UNCHANGED <<file, legacy, writer, ids, crashes>>

\* SQLite gives up waiting for a writer.  A migration is tried again from its
\* start; connect() yields a second time after the error, which ends the request.
LockedOut(p) ==
    /\ "busy" \in Environment
    /\ ~MayWrite(p)
    /\ \/ /\ proc[p].pc = "migrating"
          /\ Go(p, [To(p, "migrating") EXCEPT !.script = Script(file)])
          /\ UNCHANGED <<file, legacy, fileLock, writer, ids, crashes>>
       \/ /\ proc[p].pc \in {"patching", "transact", "migrating"}
          /\ Fail(p)

----------------------------------------------------------------------------
(* Transactions.                                                           *)

\* next_public_id: the increment takes the write lock, the read follows it.
NextPublicId(p) ==
    /\ proc[p].pc = "transact" /\ "core" \in file.tables
    /\ writer = Nobody /\ file.counter < MaxIds
    /\ writer' = p
    /\ Go(p, [To(p, "commit") EXCEPT !.id = file.counter + 1])
    /\ UNCHANGED <<file, legacy, fileLock, ids, crashes>>

Commit(p) ==
    /\ proc[p].pc = "commit"
    /\ file' = [file EXCEPT !.counter = proc[p].id]
    /\ ids' = Append(ids, proc[p].id)
    /\ writer' = Released(writer, p)
    /\ Go(p, To(p, "idle"))
    /\ UNCHANGED <<legacy, fileLock, crashes>>

\* A transaction that asks for no id, or finds no table.
OtherTransaction(p) ==
    /\ proc[p].pc = "transact"
    /\ Fail(p)

Stop(p) ==
    /\ proc' = [proc EXCEPT ![p] = Down]
    /\ fileLock' = Released(fileLock, p) /\ writer' = Released(writer, p)
    /\ crashes' = crashes + 1
    /\ UNCHANGED <<legacy, ids>>

BetweenFirstTables == "meta" \in file.tables /\ "core" \notin file.tables

Crash(p) ==
    /\ "crash" \in Environment /\ crashes < MaxCrashes
    /\ proc[p].pc # "idle"
    /\ BetweenFirstTables => "crash_in_schema" \in Environment
    /\ UNCHANGED file
    /\ Stop(p)

----------------------------------------------------------------------------
Init ==
    /\ \/ file = Absent /\ legacy = Absent
       \/ \E v \in OldVersions :
             \/ file = Shape(v) /\ legacy = Absent
             \/ file = Absent /\ legacy = Shape(v)
    /\ fileLock = Nobody /\ writer = Nobody
    /\ proc = [p \in Processes |-> Down]
    /\ ids = <<>>
    /\ crashes = 0

Step(p) ==
    \/ CheckLegacy(p) \/ CopyLegacy(p) \/ StartPatches(p) \/ EndPatches(p)
    \/ OpenFile(p) \/ CreateTable(p) \/ LookAtColumn(p) \/ AddColumn(p) \/ WriteVersion(p)
    \/ LockMigration(p) \/ EndMigration(p)
    \/ NextPublicId(p) \/ Commit(p) \/ OtherTransaction(p)

Next ==
    \E p \in Processes :
        Begin(p) \/ Step(p) \/ LockedOut(p) \/ Crash(p)

Spec == Init /\ [][Next]_vars

\* A thread goes on, and requests keep coming (the UI polls).
FairSpec == Spec /\ \A p \in Processes : WF_vars(Step(p)) /\ WF_vars(Begin(p))

----------------------------------------------------------------------------
\* Files are what scripts can make, and locks are held by processes inside.
TypeOK ==
    /\ file.kind \in {"absent", "database"}
    /\ file.tables \subseteq Tables
    /\ \A c \in file.columns : TableOf[c] \in file.tables
    /\ fileLock = Nobody \/ proc[fileLock].pc = "migrating"
    /\ writer = Nobody \/ proc[writer].pc = "commit"
    /\ \A p \in Processes : proc[p].missing => InScript(p, "add")

\* A process that considers the database initialized (init_db) works on every
\* table and every column, whichever version it found, whoever else patched,
\* and wherever an earlier upgrade stopped.
ReadyMeansComplete ==
    \A p \in Processes : proc[p].initialized => Complete(file)

\* No two committed transactions were given one id (next_public_id), whichever
\* processes ask and wherever the file came from.
IdsAreUnique ==
    \A i, j \in DOMAIN ids : i # j => ids[i] # ids[j]

\* Every process gets to work in the end: an attempt that loses a race for a
\* column, or meets an upgrade that stopped, is made good by a later one
\* (init_db, _run_with_migration_retries).
EveryProcessIsServed ==
    \A p \in Processes : <>[]proc[p].initialized

=============================================================================
