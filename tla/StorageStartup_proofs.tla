------------------------ MODULE StorageStartup_proofs ------------------------
(***************************************************************************)
(* What runtime.db is good for, for every number of processes, stops and   *)
(* old versions, as long as no two processes copy the legacy file at once: *)
(* the ids it hands out differ, wherever an upgrade is when they are asked *)
(* for; and whoever considers it initialized finds every table and column  *)
(* in it, as long as no process stops between the first two tables.        *)
(***************************************************************************)
EXTENDS StorageStartup, TLAPS

\* A file and a process have the fields of one, whatever most of them hold.
IsFile(f) ==
    f \in [kind : {f.kind}, tables : {f.tables}, columns : {f.columns}, version : {f.version},
           counter : Nat]

IsProcess(r) ==
    r \in [pc : {r.pc}, booted : {r.booted}, initialized : {r.initialized},
           repairs : {r.repairs}, script : {r.script}, missing : {r.missing}, id : {r.id}]

Shapes ==
    /\ IsFile(file) /\ IsFile(legacy)
    /\ proc = [p \in Processes |-> proc[p]] /\ \A p \in Processes : IsProcess(proc[p])

\* Who is about to commit an id holds the write lock since it read the counter.
CommitsNext == \A p \in Processes : proc[p].pc = "commit" => writer = p /\ proc[p].id = file.counter + 1

\* While the legacy file is to be copied nobody is past the copy, ...
Early == {"idle", "legacy", "copy"}
CopyIsFirst ==
    legacy.kind # "absent" /\ file.kind = "absent" =>
        ids = <<>> /\ \A p \in Processes : proc[p].pc \in Early

\* ... and one process copies it.
CopiesOnce ==
    \A p \in Processes : proc[p].pc = "copy" =>
        /\ legacy.kind # "absent" /\ file.kind = "absent"
        /\ \A q \in Processes : proc[q].pc = "copy" => q = p

\* The counter is ahead of what was handed out, and each id was ahead of the last.
IdsGrow ==
    /\ ids \in Seq(Nat)
    /\ \A i \in 1 .. Len(ids) : ids[i] <= file.counter
    /\ \A i, j \in 1 .. Len(ids) : i # j => ids[i] # ids[j]

\* The inductive invariant.
Inv == Shapes /\ CommitsNext /\ CopyIsFirst /\ CopiesOnce /\ IdsGrow

----------------------------------------------------------------------------
(* Steps that hand out no id and copy nothing. *)

\* A process goes on to somewhere else, and the file keeps its counter.
LEMMA ProcessGoesOn ==
    ASSUME Inv, NEW p \in Processes, NEW new, Go(p, new), IsProcess(new),
           new.pc \notin {"commit", "copy"},
           new.pc \in Early \/ proc[p].pc \notin Early
              \/ file.kind # "absent" \/ legacy.kind = "absent",
           IsFile(file'), file'.counter = file.counter,
           \/ file'.kind = file.kind
           \/ proc[p].pc \notin Early /\ file'.kind # "absent",
           \A q \in Processes : q # p /\ writer = q => writer' = q,
           UNCHANGED <<legacy, ids>>
    PROVE  Inv'
<1>1. /\ proc' = [q \in Processes |-> proc'[q]]
      /\ \A q \in Processes : proc'[q] = IF q = p THEN new ELSE proc[q]
  BY DEF Inv, Shapes, Go
<1>2. Shapes'
  BY <1>1 DEF Inv, Shapes
<1>3. CommitsNext'
  BY <1>1 DEF Inv, CommitsNext
<1>4. CopyIsFirst'
  BY <1>1 DEF Inv, CopyIsFirst
<1>5. CopiesOnce'
  <2> SUFFICES ASSUME NEW q \in Processes, proc'[q].pc = "copy"
               PROVE  /\ legacy'.kind # "absent" /\ file'.kind = "absent"
                      /\ \A o \in Processes : proc'[o].pc = "copy" => o = q
    BY DEF CopiesOnce
  <2>1. q # p /\ proc[q].pc = "copy"
    BY <1>1
  <2>2. /\ legacy.kind # "absent" /\ file.kind = "absent"
        /\ \A o \in Processes : proc[o].pc = "copy" => o = q
    BY <2>1 DEF Inv, CopiesOnce
  <2>3. proc[p].pc \in Early
    BY <2>2 DEF Inv, CopyIsFirst
  <2>4. QED
    BY <1>1, <2>2, <2>3
<1>6. IdsGrow'
  BY DEF Inv, IdsGrow
<1>7. QED
  BY <1>2, <1>3, <1>4, <1>5, <1>6 DEF Inv

\* A process that goes elsewhere has the fields of one.
LEMMA ToShape ==
    ASSUME Inv, NEW p \in Processes, NEW pc
    PROVE  IsProcess(To(p, pc)) /\ To(p, pc).pc = pc
BY DEF Inv, Shapes, IsProcess, To

\* A process that fails lets go of what it held.
LEMMA FailKeeps ==
    ASSUME Inv, NEW p \in Processes, Fail(p)
    PROVE  Inv'
<1> DEFINE new == To(p, "idle")
<1>1. IsProcess(new) /\ new.pc = "idle"
  BY ToShape
<1>2. Go(p, new) /\ UNCHANGED <<file, legacy, ids>>
      /\ \A q \in Processes : q # p /\ writer = q => writer' = q
  BY DEF Fail, Released
<1>3. IsFile(file')
  BY <1>2 DEF Inv, Shapes
<1> HIDE DEF new
<1>4. QED
  BY <1>1, <1>2, <1>3, ProcessGoesOn DEF Early

\* A statement of a script changes the file but not its counter.
LEMMA ScriptGoesOn ==
    ASSUME Inv, NEW p \in Processes, proc[p].pc \in {"patching", "migrating"}, Proceed(p),
           IsFile(file'), file'.counter = file.counter,
           file'.kind = file.kind \/ file'.kind = "database",
           UNCHANGED <<legacy, ids, writer>>
    PROVE  Inv'
<1> DEFINE rest == Tail(proc[p].script)
           new  == [proc[p] EXCEPT !.script = rest, !.missing = FALSE]
<1>1. Go(p, new)
  BY DEF Proceed
<1> HIDE DEF rest
<1>2. IsProcess(new) /\ new.pc = proc[p].pc
  BY DEF Inv, Shapes, IsProcess
<1> HIDE DEF new
<1>3. QED
  BY <1>1, <1>2, ProcessGoesOn DEF Early

\* A statement of a script changes neither the counter nor the ids.
LEMMA ScriptStep ==
    ASSUME Inv, NEW p \in Processes,
           OpenFile(p) \/ CreateTable(p) \/ LookAtColumn(p) \/ AddColumn(p) \/ WriteVersion(p)
    PROVE  Inv'
<1>1. proc[p].pc \in {"patching", "migrating"}
  BY DEF OpenFile, CreateTable, LookAtColumn, AddColumn, WriteVersion, InScript
<1>2. IsFile(file)
  BY DEF Inv, Shapes
<1>3. CASE OpenFile(p)
  <2>1. file' = [file EXCEPT !.kind = "database"] /\ Proceed(p) /\ UNCHANGED <<legacy, ids, writer>>
    BY <1>3 DEF OpenFile
  <2>2. IsFile(file') /\ file'.counter = file.counter /\ file'.kind = "database"
    BY <1>2, <2>1 DEF IsFile
  <2>3. QED
    BY <1>1, <2>1, <2>2, ScriptGoesOn
<1>4. CASE CreateTable(p)
  <2> DEFINE s == Head(proc[p].script)
  <2>1. /\ file' = file \/ file' = [file EXCEPT !.tables = file.tables \cup {s.item},
                                                !.columns = file.columns \cup s.with]
        /\ Proceed(p) /\ UNCHANGED <<legacy, ids, writer>>
    BY <1>2, <1>4 DEF CreateTable, IsFile
  <2> HIDE DEF s
  <2>2. IsFile(file') /\ file'.counter = file.counter /\ file'.kind = file.kind
    BY <1>2, <2>1 DEF IsFile
  <2>3. QED
    BY <1>1, <2>1, <2>2, ScriptGoesOn
<1>5. CASE LookAtColumn(p)
  <2> DEFINE new == [proc[p] EXCEPT !.missing = TRUE]
  <2>1. /\ Go(p, new) \/ Proceed(p)
        /\ UNCHANGED <<file, legacy, ids, writer>>
    BY <1>5 DEF LookAtColumn
  <2>2. IsProcess(new) /\ new.pc = proc[p].pc
    BY DEF Inv, Shapes, IsProcess
  <2> HIDE DEF new
  <2>3. CASE Go(p, new)
    BY <1>1, <1>2, <2>1, <2>2, <2>3, ProcessGoesOn DEF Early
  <2>4. CASE Proceed(p)
    BY <1>1, <1>2, <2>1, <2>4, ScriptGoesOn
  <2>5. QED
    BY <2>1, <2>3, <2>4
<1>6. CASE AddColumn(p)
  <2> DEFINE c == Head(proc[p].script).item
  <2>1. \/ Fail(p)
        \/ /\ file' = [file EXCEPT !.columns = file.columns \cup {c}]
           /\ Proceed(p) /\ UNCHANGED <<legacy, ids, writer>>
    BY <1>2, <1>6 DEF AddColumn, IsFile
  <2> HIDE DEF c
  <2>2. CASE file' = [file EXCEPT !.columns = file.columns \cup {c}]
             /\ Proceed(p) /\ UNCHANGED <<legacy, ids, writer>>
    <3>1. IsFile(file') /\ file'.counter = file.counter /\ file'.kind = file.kind
      BY <1>2, <2>2 DEF IsFile
    <3>2. QED
      BY <1>1, <2>2, <3>1, ScriptGoesOn
  <2>3. QED
    BY <2>1, <2>2, FailKeeps
<1>7. CASE WriteVersion(p)
  <2>1. file' = [file EXCEPT !.version = SchemaVersion] /\ Proceed(p)
        /\ UNCHANGED <<legacy, ids, writer>>
    BY <1>7 DEF WriteVersion
  <2>2. IsFile(file') /\ file'.counter = file.counter /\ file'.kind = file.kind
    BY <1>2, <2>1 DEF IsFile
  <2>3. QED
    BY <1>1, <2>1, <2>2, ScriptGoesOn
<1>8. QED
  BY <1>3, <1>4, <1>5, <1>6, <1>7

\* A process moves, and nothing else does but the file lock.
LEMMA MoveStep ==
    ASSUME Inv, NEW p \in Processes,
           Begin(p) \/ StartPatches(p) \/ EndPatches(p) \/ LockMigration(p) \/ EndMigration(p)
    PROVE  Inv'
<1> DEFINE me == proc[p]
<1>1. IsProcess(me) /\ IsFile(file)
  BY DEF Inv, Shapes
<1>2. ASSUME NEW new, Go(p, new), IsProcess(new), new.pc \notin {"commit", "copy"},
             new.pc \in Early \/ me.pc \notin Early, UNCHANGED <<file, legacy, ids, writer>>
      PROVE  Inv'
  BY <1>1, <1>2, ProcessGoesOn
<1>3. CASE Begin(p)
  <2> DEFINE new == [me EXCEPT !.pc = "legacy", !.booted = TRUE, !.repairs = ~me.booted]
  <2>1. Go(p, new) /\ UNCHANGED <<file, legacy, ids, writer>>
    BY <1>3 DEF Begin
  <2>2. IsProcess(new) /\ new.pc = "legacy"
    BY <1>1 DEF IsProcess
  <2> HIDE DEF new
  <2>3. QED
    BY <1>2, <2>1, <2>2 DEF Early
<1> DEFINE scripted(pc, script) == [To(p, pc) EXCEPT !.script = script]
           ready == [To(p, "transact") EXCEPT !.initialized = TRUE]
           fixed == [To(p, "legacy") EXCEPT !.repairs = FALSE]
<1>4. /\ \A pc, script : IsProcess(scripted(pc, script)) /\ scripted(pc, script).pc = pc
      /\ IsProcess(ready) /\ ready.pc = "transact" /\ IsProcess(fixed) /\ fixed.pc = "legacy"
      /\ \A pc : IsProcess(To(p, pc)) /\ To(p, pc).pc = pc
  BY ToShape DEF IsProcess
<1>5. CASE StartPatches(p)
  <2> DEFINE script == ColumnPatches(file.tables)
  <2>1. /\ me.pc = "patch" /\ UNCHANGED <<file, legacy, ids, writer>>
        /\ Go(p, scripted("patching", script))
    BY <1>5 DEF StartPatches
  <2> HIDE DEF script, scripted
  <2>2. QED
    BY <1>2, <1>4, <2>1 DEF Early
<1>6. CASE EndPatches(p)
  <2>1. /\ me.pc = "patching" /\ UNCHANGED <<file, legacy, ids, writer>>
        /\ Go(p, fixed) \/ Go(p, ready) \/ Go(p, To(p, "wait_lock"))
    BY <1>6 DEF EndPatches
  <2> HIDE DEF scripted, ready, fixed
  <2>2. QED
    BY <1>2, <1>4, <2>1 DEF Early
<1>7. CASE LockMigration(p)
  <2> DEFINE script == Script(file)
  <2>1. /\ me.pc = "wait_lock" /\ UNCHANGED <<file, legacy, ids, writer>>
        /\ Go(p, ready) \/ Go(p, scripted("migrating", script))
    BY <1>7 DEF LockMigration
  <2> HIDE DEF script, scripted, ready, fixed
  <2>2. QED
    BY <1>2, <1>4, <2>1 DEF Early
<1>8. CASE EndMigration(p)
  <2>1. me.pc = "migrating" /\ Go(p, ready) /\ UNCHANGED <<file, legacy, ids, writer>>
    BY <1>8 DEF EndMigration
  <2> HIDE DEF scripted, ready, fixed
  <2>2. QED
    BY <1>2, <1>4, <2>1 DEF Early
<1>9. QED
  BY <1>3, <1>5, <1>6, <1>7, <1>8

\* A process stops, gives up, or leaves its transaction.
LEMMA StopStep ==
    ASSUME Inv, NEW p \in Processes, Crash(p) \/ LockedOut(p) \/ OtherTransaction(p)
    PROVE  Inv'
<1>1. CASE Crash(p)
  <2>1. Go(p, Down) /\ UNCHANGED <<file, legacy, ids>>
        /\ \A q \in Processes : q # p /\ writer = q => writer' = q
    BY <1>1 DEF Crash, Stop, Go, Released
  <2>2. IsProcess(Down) /\ Down.pc = "idle" /\ IsFile(file')
    BY <2>1 DEF Down, IsProcess, Inv, Shapes
  <2>3. QED
    BY <2>1, <2>2, ProcessGoesOn DEF Early
<1>2. CASE LockedOut(p)
  <2>1. CASE Fail(p)
    BY <2>1, FailKeeps
  <2>2. CASE /\ proc[p].pc = "migrating"
             /\ Go(p, [To(p, "migrating") EXCEPT !.script = Script(file)])
             /\ UNCHANGED <<file, legacy, fileLock, writer, ids, crashes>>
    <3> DEFINE script == Script(file)
               new    == [To(p, "migrating") EXCEPT !.script = script]
    <3> HIDE DEF script
    <3>1. IsProcess(new) /\ new.pc = "migrating"
      BY ToShape DEF IsProcess
    <3>2. Go(p, new) /\ IsFile(file')
      BY <2>2 DEF script, Inv, Shapes
    <3> HIDE DEF new
    <3>3. QED
      BY <2>2, <3>1, <3>2, ProcessGoesOn DEF Early
  <2>3. QED
    BY <1>2, <2>1, <2>2 DEF LockedOut
<1>3. CASE OtherTransaction(p)
  BY <1>3, FailKeeps DEF OtherTransaction
<1>4. QED
  BY <1>1, <1>2, <1>3

----------------------------------------------------------------------------
(* The copy. *)

\* The process that finds nothing but a legacy file is the one that copies it.
LEMMA CheckStep ==
    ASSUME Inv, "copy_race" \notin Environment, NEW p \in Processes, CheckLegacy(p)
    PROVE  Inv'
<1> DEFINE pc  == IF TargetMissing /\ legacy.kind # "absent" THEN "copy" ELSE "patch"
           new == To(p, pc)
<1>1. /\ proc[p].pc = "legacy" /\ \A q \in Processes : proc[q].pc # "copy"
      /\ Go(p, new) /\ UNCHANGED <<file, legacy, writer, ids>>
  BY DEF CheckLegacy, MidCopy
<1>2. IsProcess(new) /\ new.pc = pc /\ IsFile(file)
  BY ToShape DEF Inv, Shapes
<1> HIDE DEF new
<1>3. CASE file.kind = "absent" /\ legacy.kind # "absent"
  <2>1. new.pc = "copy"
    BY <1>2, <1>3 DEF TargetMissing
  <2>2. /\ proc' = [q \in Processes |-> proc'[q]]
        /\ \A q \in Processes : proc'[q] = IF q = p THEN new ELSE proc[q]
    BY <1>1 DEF Inv, Shapes, Go
  <2>3. Shapes' /\ CommitsNext'
    BY <1>1, <1>2, <2>1, <2>2 DEF Inv, Shapes, CommitsNext
  <2>4. CopyIsFirst' /\ CopiesOnce'
    BY <1>1, <1>3, <2>1, <2>2 DEF Inv, CopyIsFirst, CopiesOnce, Early
  <2>5. IdsGrow'
    BY <1>1 DEF Inv, IdsGrow
  <2>6. QED
    BY <2>3, <2>4, <2>5 DEF Inv
<1>4. CASE file.kind # "absent" \/ legacy.kind = "absent"
  <2>1. new.pc = "patch"
    BY <1>2, <1>4 DEF TargetMissing
  <2>2. QED
    BY <1>1, <1>2, <1>4, <2>1, ProcessGoesOn
<1>5. QED
  BY <1>3, <1>4

\* The copy comes before the first id.
LEMMA CopyStep ==
    ASSUME Inv, NEW p \in Processes, CopyLegacy(p)
    PROVE  Inv'
<1> DEFINE new == To(p, "patch")
<1>1. /\ proc[p].pc = "copy" /\ file' = legacy
      /\ Go(p, new) /\ UNCHANGED <<legacy, writer, ids>>
  BY DEF CopyLegacy
<1>2. IsProcess(new) /\ new.pc = "patch"
  BY ToShape
<1> HIDE DEF new
<1>3. /\ proc' = [q \in Processes |-> proc'[q]]
      /\ \A q \in Processes : proc'[q] = IF q = p THEN new ELSE proc[q]
  BY <1>1 DEF Inv, Shapes, Go
<1>4. /\ legacy.kind # "absent" /\ ids = <<>>
      /\ \A q \in Processes : proc[q].pc \in Early /\ (proc[q].pc = "copy" => q = p)
  BY <1>1 DEF Inv, CopiesOnce, CopyIsFirst
<1>5. Shapes'
  BY <1>1, <1>2, <1>3 DEF Inv, Shapes
<1>6. CommitsNext' /\ CopiesOnce'
  BY <1>2, <1>3, <1>4 DEF CommitsNext, CopiesOnce, Early
<1>7. CopyIsFirst' /\ IdsGrow'
  BY <1>1, <1>4 DEF CopyIsFirst, IdsGrow
<1>8. QED
  BY <1>5, <1>6, <1>7 DEF Inv

----------------------------------------------------------------------------
(* Ids. *)

\* An id is the next after the counter, and nobody else is about to commit one.
LEMMA IdStep ==
    ASSUME Inv, NEW p \in Processes, NextPublicId(p)
    PROVE  Inv'
<1> DEFINE new == [To(p, "commit") EXCEPT !.id = file.counter + 1]
<1>1. /\ proc[p].pc = "transact" /\ writer = Nobody /\ writer' = p
      /\ Go(p, new) /\ UNCHANGED <<file, legacy, ids>>
  BY DEF NextPublicId
<1>2. IsProcess(new) /\ new.pc = "commit" /\ new.id = file.counter + 1
  BY ToShape DEF IsProcess
<1> HIDE DEF new
<1>3. /\ proc' = [q \in Processes |-> proc'[q]]
      /\ \A q \in Processes : proc'[q] = IF q = p THEN new ELSE proc[q]
  BY <1>1 DEF Inv, Shapes, Go
<1>4. Shapes'
  BY <1>1, <1>2, <1>3 DEF Inv, Shapes
<1>5. CommitsNext'
  <2>1. \A q \in Processes : proc[q].pc # "commit"
    BY <1>1, StorageAssumption DEF Inv, CommitsNext, StorageAssumption
  <2>2. QED
    BY <1>1, <1>2, <1>3, <2>1 DEF CommitsNext
<1>6. CopyIsFirst' /\ CopiesOnce'
  BY <1>1, <1>2, <1>3 DEF Inv, CopyIsFirst, CopiesOnce, Early
<1>7. IdsGrow'
  BY <1>1 DEF Inv, IdsGrow
<1>8. QED
  BY <1>4, <1>5, <1>6, <1>7 DEF Inv

\* A committed id is ahead of all before it.
LEMMA CommitStep ==
    ASSUME Inv, NEW p \in Processes, Commit(p)
    PROVE  Inv'
<1> DEFINE new == To(p, "idle")
           id  == proc[p].id
<1>1. /\ proc[p].pc = "commit" /\ file' = [file EXCEPT !.counter = id]
      /\ ids' = Append(ids, id) /\ Go(p, new) /\ UNCHANGED legacy
  BY DEF Commit
<1>2. IsProcess(new) /\ new.pc = "idle"
  BY ToShape
<1>3. /\ IsFile(file) /\ file.counter \in Nat /\ id = file.counter + 1
      /\ \A q \in Processes : proc[q].pc = "commit" => q = p
  BY <1>1 DEF Inv, Shapes, IsFile, CommitsNext
<1> HIDE DEF new, id
<1>4. IsFile(file') /\ file'.counter = id /\ file'.kind = file.kind
  BY <1>1, <1>3 DEF IsFile
<1>5. /\ proc' = [q \in Processes |-> proc'[q]]
      /\ \A q \in Processes : proc'[q] = IF q = p THEN new ELSE proc[q]
  BY <1>1 DEF Inv, Shapes, Go
<1>6. Shapes'
  BY <1>1, <1>2, <1>4, <1>5 DEF Inv, Shapes
<1>7. CommitsNext'
  BY <1>2, <1>3, <1>5 DEF CommitsNext
<1>8. CopyIsFirst' /\ CopiesOnce'
  BY <1>1, <1>2, <1>4, <1>5 DEF Inv, CopyIsFirst, CopiesOnce, Early
<1>9. IdsGrow'
  <2>1. ids \in Seq(Nat) /\ ids' = Append(ids, id) /\ id \in Nat
        /\ \A i \in 1 .. Len(ids) : ids[i] < id
    BY <1>1, <1>3 DEF Inv, IdsGrow
  <2>2. /\ ids' \in Seq(Nat) /\ Len(ids') = Len(ids) + 1 /\ Len(ids) \in Nat
        /\ ids'[Len(ids) + 1] = id
        /\ \A i \in 1 .. Len(ids) : ids'[i] = ids[i]
    BY <2>1
  <2>3. \A i \in 1 .. Len(ids') : i \in 1 .. Len(ids) \/ i = Len(ids) + 1
    BY <2>2
  <2>4. \A i \in 1 .. Len(ids') : ids'[i] <= file'.counter
    BY <1>4, <2>1, <2>2, <2>3
  <2>5. \A i, j \in 1 .. Len(ids') : i # j => ids'[i] # ids'[j]
    BY <2>1, <2>2, <2>3 DEF Inv, IdsGrow
  <2>6. QED
    BY <2>2, <2>4, <2>5 DEF IdsGrow
<1>10. QED
  BY <1>6, <1>7, <1>8, <1>9 DEF Inv

----------------------------------------------------------------------------
\* No id is handed out at first.
LEMMA InitInv == Init => Inv
<1> SUFFICES ASSUME Init PROVE Inv
  OBVIOUS
<1>1. IsFile(Absent) /\ \A v : IsFile(Shape(v)) /\ Shape(v).kind = "database"
  BY DEF IsFile, Absent, Shape
<1>2. IsProcess(Down) /\ Down.pc = "idle"
  BY DEF IsProcess, Down
<1>3. IsFile(file) /\ IsFile(legacy)
  BY <1>1 DEF Init
<1>4. ids = <<>> /\ proc = [p \in Processes |-> Down]
  BY DEF Init
<1>5. Shapes
  BY <1>2, <1>3, <1>4 DEF Shapes
<1>6. CommitsNext /\ CopyIsFirst /\ CopiesOnce
  BY <1>2, <1>4 DEF CommitsNext, CopyIsFirst, CopiesOnce, Early
<1>7. IdsGrow
  BY <1>4 DEF IdsGrow
<1>8. QED
  BY <1>5, <1>6, <1>7 DEF Inv

\* The invariant is inductive.
LEMMA StepInv ==
    ASSUME Inv, "copy_race" \notin Environment, [Next]_vars
    PROVE  Inv'
<1>1. ASSUME NEW p \in Processes, Begin(p) \/ Step(p) \/ LockedOut(p) \/ Crash(p) PROVE Inv'
  BY <1>1, MoveStep, ScriptStep, StopStep, CheckStep, CopyStep, IdStep, CommitStep DEF Step
<1>2. CASE UNCHANGED vars
  BY <1>2 DEF vars, Inv, Shapes, CommitsNext, CopyIsFirst, CopiesOnce, IdsGrow
<1>3. QED
  BY <1>1, <1>2 DEF Next

\* No two committed transactions were given one id (next_public_id), whichever processes
\* ask, stop or upgrade meanwhile, and whatever file they began with, as long as one
\* process is through with the copy of the legacy file before another looks for it.
THEOREM IdsDiffer ==
    ASSUME "copy_race" \notin Environment
    PROVE  Spec => []IdsAreUnique
<1>1. Inv => IdsAreUnique
  BY DEF Inv, IdsGrow, IdsAreUnique
<1>2. QED
  BY <1>1, InitInv, StepInv, PTL DEF Spec

----------------------------------------------------------------------------
(* A database that is ready is complete.  What the rest of a script will   *)
(* have made of a file when it ends is told from the statements in it.     *)

Statements ==
    {Open, Stamp} \cup {Create(t, cols) : t \in Tables, cols \in SUBSET Columns}
    \cup {Add(c) : c \in Columns}

Creates(s, t) == s.op = "create" /\ s.item = t

\* A script makes a table; ...
Makes(script, t) == \E i \in 1 .. Len(script) : Creates(script[i], t)

\* ... whenever it makes the table of a column the column comes with it; ...
Carries(script, c) ==
    \A i \in 1 .. Len(script) : Creates(script[i], TableOf[c]) => c \in script[i].with

\* ... or it adds the column, and does not make its table after that.
AddsTo(script, c) ==
    \E i \in 1 .. Len(script) :
        /\ script[i] = Add(c)
        /\ \A j \in i .. Len(script) : ~Creates(script[j], TableOf[c])

\* When the script is through, the file is complete.
Completes(script, f) ==
    /\ \A t \in Tables : t \in f.tables \/ Makes(script, t)
    /\ \A c \in Columns :
          \/ c \in f.columns
          \/ TableOf[c] \notin f.tables /\ Carries(script, c)
          \/ AddsTo(script, c)

\* The version comes last, the first two tables come together, and the columns
\* of the patches come with their tables.
PatchColumns == {"estimate", "analysis", "consumer", "links"}

WellOrdered(script) ==
    /\ \A i \in 1 .. Len(script) :
          /\ script[i] = Stamp => i = Len(script)
          /\ Creates(script[i], "meta") =>
                i + 1 \in 1 .. Len(script) /\ Creates(script[i + 1], "core")
    /\ \A c \in PatchColumns : Carries(script, c)

\* What a version promises, whatever happened to the file since.
Grown(f) ==
    /\ f.tables \subseteq Tables /\ f.columns \subseteq Columns /\ f.version \in Nat
    /\ f.version >= 5 => "inbox" \in f.tables
    /\ f.version >= 6 => "queue" \in f.tables
    /\ f.version >= 8 => {"org_core", "org_inbox", "org_queue"} \subseteq f.columns
    /\ f.version >= 11 => "pending" \in f.tables
    /\ f.version >= 12 => f.tables = Tables

Unpatched(f) == {c \in PatchColumns : TableOf[c] \in f.tables /\ c \notin f.columns}

FirstTablesTogether(f) == "meta" \in f.tables => "core" \in f.tables

Includes(script, s) == \E i \in 1 .. Len(script) : script[i] = s
OnlyAdds(script)    == \A i \in 1 .. Len(script) : script[i].op = "add"

\* A process that patches has every column before it that is still missing, one
\* that waits for the lock or holds it has none, and the holder's script
\* completes the file.
OnItsWay(r, f) ==
    /\ r.script \in Seq(Statements)
    /\ r.pc = "patching" =>
          OnlyAdds(r.script) /\ \A c \in Unpatched(f) : Includes(r.script, Add(c))
    /\ r.pc \in {"wait_lock", "migrating"} => Unpatched(f) = {}
    /\ r.pc = "migrating" =>
          /\ WellOrdered(r.script) /\ Completes(r.script, f)
          /\ \/ FirstTablesTogether(f)
             \/ r.script # <<>> /\ Creates(Head(r.script), "core")

\* The inductive invariant.
ReadyInv ==
    /\ Inv
    /\ Grown(file) /\ Grown(legacy) /\ FirstTablesTogether(legacy)
    /\ \A p \in Processes : OnItsWay(proc[p], file)
    /\ \A p \in Processes : proc[p].pc = "migrating" => fileLock = p
    /\ FirstTablesTogether(file) \/ \E p \in Processes : proc[p].pc = "migrating"
    /\ writer # Nobody =>
          writer \in Processes /\ proc[writer].pc = "commit" /\ "core" \in file.tables
    /\ legacy.kind # "absent" /\ file.kind = "absent" =>
          \A p \in Processes : ~proc[p].initialized
    /\ ReadyMeansComplete

----------------------------------------------------------------------------
(* Scripts and their parts. *)

\* A part of a script, which no version ends.
Part(s) == s \in Seq(Statements) /\ WellOrdered(s) /\ \A i \in 1 .. Len(s) : s[i] # Stamp

\* Where the statements of two parts are when one follows the other.
LEMMA InTurn ==
    ASSUME NEW s \in Seq(Statements), NEW t \in Seq(Statements)
    PROVE  /\ s \o t \in Seq(Statements) /\ Len(s \o t) = Len(s) + Len(t)
           /\ Len(s) \in Nat /\ Len(t) \in Nat
           /\ \A i \in 1 .. Len(s) : i \in 1 .. Len(s \o t) /\ (s \o t)[i] = s[i]
           /\ \A i \in 1 .. Len(t) :
                 Len(s) + i \in 1 .. Len(s \o t) /\ (s \o t)[Len(s) + i] = t[i]
           /\ \A i \in 1 .. Len(s \o t) :
                 i \in 1 .. Len(s) \/ (i - Len(s) \in 1 .. Len(t) /\ (s \o t)[i] = t[i - Len(s)])
OBVIOUS

\* Parts that follow each other are a part.
LEMMA PartsJoin ==
    ASSUME NEW s, NEW t, Part(s), Part(t) \/ t = <<Stamp>>
    PROVE  /\ s \o t \in Seq(Statements) /\ WellOrdered(s \o t)
           /\ Part(t) => Part(s \o t)
<1> DEFINE u == s \o t
<1>1. Part(t) \/ (t \in Seq(Statements) /\ Len(t) = 1 /\ t[1] = Stamp)
  <2>1. Stamp \in Statements
    BY DEF Statements
  <2> HIDE DEF Stamp
  <2>2. <<Stamp>> \in Seq(Statements) /\ Len(<<Stamp>>) = 1 /\ <<Stamp>>[1] = Stamp
    BY <2>1
  <2>3. QED
    BY <2>2
<1>2. s \in Seq(Statements) /\ t \in Seq(Statements) /\ WellOrdered(s)
  BY <1>1 DEF Part
<1>3. WellOrdered(t)
  <2>1. \A c : ~Creates(Stamp, c)
    BY DEF Creates, Stamp
  <2>2. CASE Part(t)
    BY <2>2 DEF Part
  <2>3. CASE t \in Seq(Statements) /\ Len(t) = 1 /\ t[1] = Stamp
    <3>1. \A i \in 1 .. Len(t) : i = Len(t) /\ t[i] = Stamp
      BY <2>3
    <3> HIDE DEF Stamp
    <3>2. QED
      BY <2>1, <3>1 DEF WellOrdered, Carries
  <2>4. QED
    BY <1>1, <2>2, <2>3
<1>4. /\ u \in Seq(Statements) /\ Len(u) = Len(s) + Len(t) /\ Len(s) \in Nat /\ Len(t) \in Nat
      /\ \A i \in 1 .. Len(s) : i \in 1 .. Len(u) /\ u[i] = s[i]
      /\ \A i \in 1 .. Len(t) : Len(s) + i \in 1 .. Len(u) /\ u[Len(s) + i] = t[i]
      /\ \A i \in 1 .. Len(u) :
            i \in 1 .. Len(s) \/ (i - Len(s) \in 1 .. Len(t) /\ u[i] = t[i - Len(s)])
  BY <1>2, InTurn
<1> HIDE DEF u
<1>5. ASSUME NEW i \in 1 .. Len(u), u[i] = Stamp PROVE i = Len(u)
  <2>1. i - Len(s) \in 1 .. Len(t) /\ u[i] = t[i - Len(s)]
    BY <1>4, <1>5 DEF Part
  <2>2. i - Len(s) = Len(t)
    BY <1>3, <1>5, <2>1 DEF WellOrdered
  <2>3. QED
    BY <1>4, <2>2
<1>6. ASSUME NEW i \in 1 .. Len(u), Creates(u[i], "meta")
      PROVE  i + 1 \in 1 .. Len(u) /\ Creates(u[i + 1], "core")
  <2>1. CASE i \in 1 .. Len(s)
    <3>1. i + 1 \in 1 .. Len(s) /\ Creates(s[i + 1], "core")
      BY <1>2, <1>4, <1>6, <2>1 DEF WellOrdered
    <3>2. QED
      BY <1>4, <3>1
  <2>2. CASE i - Len(s) \in 1 .. Len(t) /\ u[i] = t[i - Len(s)]
    <3> DEFINE j == i - Len(s)
    <3>1. j + 1 \in 1 .. Len(t) /\ Creates(t[j + 1], "core")
      BY <1>3, <1>6, <2>2 DEF WellOrdered
    <3>2. Len(s) + (j + 1) = i + 1
      BY <1>4
    <3>3. QED
      BY <1>4, <3>1, <3>2
  <2>3. QED
    BY <1>4, <2>1, <2>2
<1>7. \A c \in PatchColumns : Carries(u, c)
  BY <1>2, <1>3, <1>4 DEF WellOrdered, Carries
<1>8. WellOrdered(u)
  BY <1>5, <1>6, <1>7 DEF WellOrdered
<1>9. Part(t) => \A i \in 1 .. Len(u) : u[i] # Stamp
  BY <1>4 DEF Part
<1>10. QED
  BY <1>4, <1>8, <1>9 DEF u, Part

\* What a script makes, it makes whatever is before and after, ...
LEMMA MakesInPart ==
    ASSUME NEW s \in Seq(Statements), NEW u \in Seq(Statements), NEW x,
           Makes(s, x) \/ Makes(u, x)
    PROVE  Makes(s \o u, x)
BY InTurn DEF Makes

\* ... and what it adds is added if the table is not made later.
LEMMA AddsInPart ==
    ASSUME NEW s \in Seq(Statements), NEW u \in Seq(Statements), NEW c,
           AddsTo(u, c) \/ (AddsTo(s, c) /\ ~Makes(u, TableOf[c]))
    PROVE  AddsTo(s \o u, c)
<1> DEFINE w == s \o u
<1>1. /\ Len(w) = Len(s) + Len(u) /\ Len(s) \in Nat /\ Len(u) \in Nat
      /\ \A i \in 1 .. Len(s) : i \in 1 .. Len(w) /\ w[i] = s[i]
      /\ \A i \in 1 .. Len(u) : Len(s) + i \in 1 .. Len(w) /\ w[Len(s) + i] = u[i]
      /\ \A i \in 1 .. Len(w) :
            i \in 1 .. Len(s) \/ (i - Len(s) \in 1 .. Len(u) /\ w[i] = u[i - Len(s)])
  BY InTurn
<1> HIDE DEF w
<1>2. CASE AddsTo(u, c)
  <2>1. PICK i \in 1 .. Len(u) :
           u[i] = Add(c) /\ \A j \in i .. Len(u) : ~Creates(u[j], TableOf[c])
    BY <1>2 DEF AddsTo
  <2>2. \A j \in Len(s) + i .. Len(w) : ~Creates(w[j], TableOf[c])
    <3> SUFFICES ASSUME NEW j \in Len(s) + i .. Len(w) PROVE ~Creates(w[j], TableOf[c])
      OBVIOUS
    <3>1. j - Len(s) \in i .. Len(u) /\ Len(s) + (j - Len(s)) = j
      BY <1>1
    <3>2. w[j] = u[j - Len(s)]
      BY <1>1, <3>1
    <3>3. QED
      BY <2>1, <3>1, <3>2
  <2>3. QED
    BY <1>1, <2>1, <2>2 DEF AddsTo, w
<1>3. CASE AddsTo(s, c) /\ ~Makes(u, TableOf[c])
  <2>1. PICK i \in 1 .. Len(s) :
           s[i] = Add(c) /\ \A j \in i .. Len(s) : ~Creates(s[j], TableOf[c])
    BY <1>3 DEF AddsTo
  <2>2. \A j \in i .. Len(w) : ~Creates(w[j], TableOf[c])
    <3> SUFFICES ASSUME NEW j \in i .. Len(w) PROVE ~Creates(w[j], TableOf[c])
      OBVIOUS
    <3>1. CASE j \in 1 .. Len(s)
      BY <1>1, <2>1, <3>1
    <3>2. CASE j - Len(s) \in 1 .. Len(u) /\ w[j] = u[j - Len(s)]
      BY <1>3, <3>2 DEF Makes
    <3>3. QED
      BY <1>1, <3>1, <3>2
  <2>3. QED
    BY <1>1, <2>1, <2>2 DEF AddsTo, w
<1>4. QED
  BY <1>2, <1>3

----------------------------------------------------------------------------
(* The scripts of the code. *)

\* What one statement alone says.
LEMMA Single ==
    ASSUME NEW s \in Statements
    PROVE  /\ <<s>> \in Seq(Statements) /\ Len(<<s>>) = 1 /\ <<s>>[1] = s
           /\ \A x : Makes(<<s>>, x) <=> Creates(s, x)
           /\ \A c : Carries(<<s>>, c) <=> (Creates(s, TableOf[c]) => c \in s.with)
           /\ \A c : s = Add(c) => AddsTo(<<s>>, c)
<1>1. <<s>> \in Seq(Statements) /\ Len(<<s>>) = 1 /\ <<s>>[1] = s
  OBVIOUS
<1> DEFINE u == <<s>>
<1> HIDE DEF u
<1>2. \A x : Makes(u, x) <=> Creates(s, x)
  BY <1>1 DEF u, Makes
<1>3. \A c : Carries(u, c) <=> (Creates(s, TableOf[c]) => c \in s.with)
  BY <1>1 DEF u, Carries
<1>4. \A c : s = Add(c) => AddsTo(u, c)
  BY <1>1 DEF u, AddsTo, Creates, Add
<1>5. QED
  BY <1>1, <1>2, <1>3, <1>4 DEF u

\* No patch and no column.
LEMMA NothingIsAPart == Part(<<>>) /\ \A x : ~Makes(<<>>, x)
BY DEF Part, WellOrdered, Carries, Makes

\* One column is a part, ...
LEMMA AddIsAPart ==
    ASSUME NEW c \in Columns
    PROVE  /\ Add(c) \in Statements /\ Part(<<Add(c)>>)
           /\ AddsTo(<<Add(c)>>, c) /\ \A x : ~Makes(<<Add(c)>>, x)
<1> DEFINE s == Add(c)
<1>1. s \in Statements /\ s # Stamp /\ \A x : ~Creates(s, x)
  <2>1. s \in Statements
    BY DEF Statements
  <2>2. s.op = "add" /\ Stamp.op = "stamp"
    BY DEF Stamp, Add
  <2>3. QED
    BY <2>1, <2>2 DEF Creates
<1>2. /\ <<s>> \in Seq(Statements) /\ Len(<<s>>) = 1 /\ <<s>>[1] = s
      /\ \A x : Makes(<<s>>, x) <=> Creates(s, x)
      /\ \A d : Carries(<<s>>, d) <=> (Creates(s, TableOf[d]) => d \in s.with)
      /\ AddsTo(<<s>>, c)
  BY <1>1, Single
<1> HIDE DEF s
<1>3. WellOrdered(<<s>>)
  BY <1>1, <1>2 DEF WellOrdered
<1>4. QED
  BY <1>1, <1>2, <1>3 DEF Part, s

\* ... and so is a table that brings the columns of its patches.
LEMMA CreateIsAPart ==
    ASSUME NEW t \in Tables \ {"meta"}, NEW cols \in SUBSET Columns,
           \A c \in PatchColumns : TableOf[c] = t => c \in cols
    PROVE  /\ Create(t, cols) \in Statements /\ Part(<<Create(t, cols)>>)
           /\ Makes(<<Create(t, cols)>>, t)
           /\ \A x : x # t => ~Makes(<<Create(t, cols)>>, x)
<1> DEFINE s == Create(t, cols)
<1>1. /\ s \in Statements /\ s # Stamp /\ \A x : Creates(s, x) <=> x = t
      /\ s.with = cols
  <2>1. s \in Statements
    BY DEF Statements
  <2>2. s.op = "create" /\ s.item = t /\ s.with = cols /\ Stamp.op = "stamp"
    BY DEF Stamp, Create
  <2>3. QED
    BY <2>1, <2>2 DEF Creates
<1>2. /\ <<s>> \in Seq(Statements) /\ Len(<<s>>) = 1 /\ <<s>>[1] = s
      /\ \A x : Makes(<<s>>, x) <=> Creates(s, x)
      /\ \A d : Carries(<<s>>, d) <=> (Creates(s, TableOf[d]) => d \in s.with)
  BY <1>1, Single
<1> HIDE DEF s
<1>3. WellOrdered(<<s>>)
  BY <1>1, <1>2 DEF WellOrdered
<1>4. QED
  BY <1>1, <1>2, <1>3 DEF Part, s

\* The first schema is a part, and makes all tables but the queue.
LEMMA SchemaIsAPart ==
    /\ Part(Schema)
    /\ \A t \in Tables \ {"queue"} : Makes(Schema, t)
<1> DEFINE a == Create("meta", {})
           b == Create("core", {"estimate", "analysis", "org_core"})
           d == Create("inbox", {"org_inbox"})
           s == <<a, b, Drafts, d, Pending>>
<1>1. /\ a \in Statements /\ b \in Statements /\ Drafts \in Statements
      /\ d \in Statements /\ Pending \in Statements
  <2>1. \A t \in Tables, cols \in SUBSET Columns : Create(t, cols) \in Statements
    BY DEF Statements
  <2>2. /\ {"estimate", "analysis", "org_core"} \in SUBSET Columns /\ {} \in SUBSET Columns
        /\ {"links"} \in SUBSET Columns /\ {"org_inbox"} \in SUBSET Columns
    BY DEF Columns, TableOf
  <2>3. {"meta", "core", "drafts", "inbox", "pending"} \subseteq Tables
    BY DEF Tables
  <2>4. QED
    BY <2>1, <2>2, <2>3 DEF Drafts, Pending
<1>2. /\ \A x :
            /\ Creates(a, x) <=> x = "meta"
            /\ Creates(b, x) <=> x = "core"
            /\ Creates(Drafts, x) <=> x = "drafts"
            /\ Creates(d, x) <=> x = "inbox"
            /\ Creates(Pending, x) <=> x = "pending"
      /\ b.with = {"estimate", "analysis", "org_core"} /\ Drafts.with = {"links"}
  BY DEF Create, Creates, Drafts, Pending
<1>3. a # Stamp /\ b # Stamp /\ Drafts # Stamp /\ d # Stamp /\ Pending # Stamp
  <2>1. /\ a.op = "create" /\ b.op = "create" /\ Drafts.op = "create" /\ d.op = "create"
        /\ Pending.op = "create" /\ Stamp.op = "stamp"
    BY DEF Stamp, Create, Drafts, Pending
  <2>2. QED
    BY <2>1
<1> HIDE DEF a, b, d
<1>4. /\ s \in Seq(Statements) /\ Len(s) = 5
      /\ s[1] = a /\ s[2] = b /\ s[3] = Drafts /\ s[4] = d /\ s[5] = Pending
  BY <1>1
<1> HIDE DEF s
<1>5. \A i \in 1 .. Len(s) : i = 1 \/ i = 2 \/ i = 3 \/ i = 4 \/ i = 5
  BY <1>4
<1>6. \A c \in PatchColumns : Carries(s, c)
  <2> SUFFICES ASSUME NEW c \in PatchColumns, NEW i \in 1 .. Len(s), Creates(s[i], TableOf[c])
               PROVE  c \in s[i].with
    BY DEF Carries
  <2>1. \/ c \in {"estimate", "analysis"} /\ TableOf[c] = "core"
        \/ c = "consumer" /\ TableOf[c] = "queue"
        \/ c = "links" /\ TableOf[c] = "drafts"
    BY DEF PatchColumns, TableOf
  <2>2. \/ s[i] = b /\ TableOf[c] = "core"
        \/ s[i] = Drafts /\ TableOf[c] = "drafts"
    BY <1>2, <1>4, <1>5, <2>1
  <2>3. QED
    BY <1>2, <2>1, <2>2
<1>7. WellOrdered(s)
  <2>1. ASSUME NEW i \in 1 .. Len(s), Creates(s[i], "meta")
        PROVE  i + 1 \in 1 .. Len(s) /\ Creates(s[i + 1], "core")
    <3>1. i = 1
      BY <1>2, <1>4, <1>5, <2>1
    <3>2. QED
      BY <1>2, <1>4, <3>1
  <2>2. QED
    BY <1>3, <1>4, <1>5, <1>6, <2>1 DEF WellOrdered
<1>8. \A i \in 1 .. Len(s) : s[i] # Stamp
  BY <1>3, <1>4, <1>5
<1>9. \A t \in Tables \ {"queue"} : Makes(s, t)
  <2>1. \A i \in 1 .. 5 : \A t : Creates(s[i], t) => Makes(s, t)
    BY <1>4 DEF Makes
  <2>2. /\ Creates(s[1], "meta") /\ Creates(s[2], "core") /\ Creates(s[3], "drafts")
        /\ Creates(s[4], "inbox") /\ Creates(s[5], "pending")
    BY <1>2, <1>4
  <2>3. /\ Makes(s, "meta") /\ Makes(s, "core") /\ Makes(s, "drafts")
        /\ Makes(s, "inbox") /\ Makes(s, "pending")
    BY <2>1, <2>2
  <2>4. QED
    BY <2>3 DEF Tables
<1>10. QED
  BY <1>4, <1>7, <1>8, <1>9 DEF Part, Schema, s, a, b, d

\* Statements in a row follow each other.
LEMMA InARow ==
    ASSUME NEW a \in Statements, NEW b \in Statements, NEW c \in Statements
    PROVE  <<a, b>> = <<a>> \o <<b>> /\ <<a, b, c>> = <<a>> \o <<b>> \o <<c>>
<1>1. \A s, t \in Seq(Statements) :
         Len(s) = Len(t) /\ (\A i \in 1 .. Len(s) : s[i] = t[i]) => s = t
  OBVIOUS
<1> DEFINE sa == <<a>>
           sb == <<b>>
           sc == <<c>>
           u  == sa \o sb
           w  == u \o sc
<1>2. /\ sa \in Seq(Statements) /\ Len(sa) = 1 /\ sa[1] = a
      /\ sb \in Seq(Statements) /\ Len(sb) = 1 /\ sb[1] = b
      /\ sc \in Seq(Statements) /\ Len(sc) = 1 /\ sc[1] = c
  OBVIOUS
<1> HIDE DEF sa, sb, sc
<1>3. u \in Seq(Statements) /\ Len(u) = 2 /\ u[1] = a /\ u[2] = b
  <2>1. /\ u \in Seq(Statements) /\ Len(u) = Len(sa) + Len(sb)
        /\ 1 \in 1 .. Len(sa) => u[1] = sa[1]
        /\ 1 \in 1 .. Len(sb) => u[Len(sa) + 1] = sb[1]
    BY <1>2, InTurn
  <2> HIDE DEF u
  <2>2. QED
    BY <1>2, <2>1
<1>4. <<a, b>> \in Seq(Statements) /\ Len(<<a, b>>) = 2 /\ <<a, b>>[1] = a /\ <<a, b>>[2] = b
  OBVIOUS
<1> HIDE DEF u
<1>5. <<a, b>> = u
  <2> DEFINE v == <<a, b>>
  <2>1. v \in Seq(Statements) /\ Len(v) = 2 /\ v[1] = a /\ v[2] = b
    BY <1>4
  <2> HIDE DEF v
  <2>2. \A i \in 1 .. Len(v) : i = 1 \/ i = 2
    BY <2>1
  <2>3. v = u
    BY <1>1, <1>3, <2>1, <2>2
  <2>4. QED
    BY <2>3 DEF v
<1>6. w \in Seq(Statements) /\ Len(w) = 3 /\ w[1] = a /\ w[2] = b /\ w[3] = c
  <2>1. /\ w \in Seq(Statements) /\ Len(w) = Len(u) + Len(sc)
        /\ \A i \in 1 .. Len(u) : w[i] = u[i]
        /\ 1 \in 1 .. Len(sc) => w[Len(u) + 1] = sc[1]
    BY <1>2, <1>3, InTurn
  <2> HIDE DEF w
  <2>2. QED
    BY <1>2, <1>3, <2>1
<1> HIDE DEF w
<1>7. <<a, b, c>> = w
  <2> DEFINE v == <<a, b, c>>
  <2>1. v \in Seq(Statements) /\ Len(v) = 3 /\ v[1] = a /\ v[2] = b /\ v[3] = c
    OBVIOUS
  <2> HIDE DEF v
  <2>2. \A i \in 1 .. Len(v) : i = 1 \/ i = 2 \/ i = 3
    BY <2>1
  <2>3. v = w
    BY <1>1, <1>6, <2>1, <2>2
  <2>4. QED
    BY <2>3 DEF v
<1>8. QED
  BY <1>5, <1>7 DEF u, w, sa, sb, sc

\* What the later versions brought are parts.
LEMMA LaterPartsMake ==
    /\ Part(<<Drafts>>) /\ Makes(<<Drafts>>, "drafts")
    /\ Part(SchemaV5) /\ Makes(SchemaV5, "inbox") /\ Makes(SchemaV5, "queue")
    /\ Part(SchemaV6) /\ Makes(SchemaV6, "queue")
    /\ Part(SchemaV11) /\ Makes(SchemaV11, "pending")
    /\ \A x \in {"core", "inbox", "queue"} : ~Makes(SchemaV11, x)
<1>1. /\ "drafts" \in Tables \ {"meta"} /\ "inbox" \in Tables \ {"meta"}
      /\ "queue" \in Tables \ {"meta"} /\ "pending" \in Tables \ {"meta"}
  BY DEF Tables
<1>2. /\ {} \in SUBSET Columns /\ {"links"} \in SUBSET Columns /\ {"consumer"} \in SUBSET Columns
      /\ \A c \in PatchColumns :
            /\ TableOf[c] = "drafts" => c \in {"links"}
            /\ TableOf[c] = "queue" => c \in {"consumer"}
            /\ TableOf[c] # "inbox" /\ TableOf[c] # "pending"
  BY DEF Columns, TableOf, PatchColumns
<1> DEFINE a == Create("inbox", {})
<1>3. Part(<<Drafts>>) /\ Makes(<<Drafts>>, "drafts")
  BY <1>1, <1>2, CreateIsAPart DEF Drafts
<1>4. Queue \in Statements /\ Part(<<Queue>>) /\ Makes(<<Queue>>, "queue")
  BY <1>1, <1>2, CreateIsAPart DEF Queue
<1>5. Part(<<Pending>>) /\ Makes(<<Pending>>, "pending")
      /\ \A x : x # "pending" => ~Makes(<<Pending>>, x)
  BY <1>1, <1>2, CreateIsAPart DEF Pending
<1>6. a \in Statements /\ Part(<<a>>) /\ Makes(<<a>>, "inbox")
  BY <1>1, <1>2, CreateIsAPart
<1> HIDE DEF a
<1>7. <<a, Queue>> = <<a>> \o <<Queue>>
  BY <1>4, <1>6, InARow
<1>8. Part(<<a>> \o <<Queue>>)
  BY <1>4, <1>6, PartsJoin
<1>9. Makes(<<a>> \o <<Queue>>, "inbox") /\ Makes(<<a>> \o <<Queue>>, "queue")
  BY <1>4, <1>6, MakesInPart DEF Part
<1>10. QED
  BY <1>3, <1>4, <1>5, <1>7, <1>8, <1>9 DEF SchemaV5, SchemaV6, SchemaV11, a

\* The column patches are parts and make no table.
LEMMA LaterPartsAdd ==
    /\ Part(<<Add("estimate")>>) /\ Part(AnalysisColumns) /\ Part(ConsumerColumns)
    /\ Part(<<Add("links")>>) /\ Part(OrgColumns)
    /\ \A c \in {"org_core", "org_inbox", "org_queue"} : AddsTo(OrgColumns, c)
<1>1. /\ "estimate" \in Columns /\ "analysis" \in Columns /\ "consumer" \in Columns
      /\ "links" \in Columns /\ "org_core" \in Columns /\ "org_inbox" \in Columns
      /\ "org_queue" \in Columns
  BY DEF Columns, TableOf
<1> DEFINE a == Add("org_core")
           b == Add("org_inbox")
           c == Add("org_queue")
<1>2. /\ a \in Statements /\ Part(<<a>>) /\ AddsTo(<<a>>, "org_core")
      /\ b \in Statements /\ Part(<<b>>) /\ AddsTo(<<b>>, "org_inbox")
      /\ c \in Statements /\ Part(<<c>>) /\ AddsTo(<<c>>, "org_queue")
      /\ \A x : ~Makes(<<b>>, x) /\ ~Makes(<<c>>, x)
  BY <1>1, AddIsAPart
<1> HIDE DEF a, b, c
<1>3. <<a, b, c>> = <<a>> \o <<b>> \o <<c>>
  BY <1>2, InARow
<1>4. Part(<<a>> \o <<b>>) /\ Part(<<a>> \o <<b>> \o <<c>>)
  BY <1>2, PartsJoin
<1>5. AddsTo(<<a>> \o <<b>>, "org_core") /\ AddsTo(<<a>> \o <<b>>, "org_inbox")
  BY <1>2, AddsInPart DEF Part
<1>6. \A x \in {"org_core", "org_inbox", "org_queue"} : AddsTo(<<a>> \o <<b>> \o <<c>>, x)
  BY <1>2, <1>4, <1>5, AddsInPart DEF Part
<1>7. /\ Part(<<Add("estimate")>>) /\ Part(<<Add("analysis")>>)
      /\ Part(<<Add("consumer")>>) /\ Part(<<Add("links")>>)
  BY <1>1, AddIsAPart
<1>8. QED
  BY <1>3, <1>4, <1>6, <1>7 DEF AnalysisColumns, ConsumerColumns, OrgColumns, a, b, c

\* What Migrations does for each version.
LEMMA MigrationsComplete ==
    ASSUME NEW v \in Nat
    PROVE  /\ Part(Migrations(v))
           /\ v < 5 => Makes(Migrations(v), "inbox")
           /\ v < 6 => Makes(Migrations(v), "queue")
           /\ v < 11 => Makes(Migrations(v), "pending")
           /\ v < 8 => \A c \in {"org_core", "org_inbox", "org_queue"} : AddsTo(Migrations(v), c)
<1> DEFINE s5 == Unless(v >= 5, SchemaV5)
           s6 == Unless(v >= 6, SchemaV6)
           s7 == Unless(v >= 7, ConsumerColumns)
           s8 == Unless(v >= 8, OrgColumns)
           s11 == Unless(v >= 11, SchemaV11)
           e == <<Add("estimate")>>
           a == AnalysisColumns
<1>1. Part(e) /\ Part(a) /\ Part(s5) /\ Part(s6) /\ Part(s7) /\ Part(s8) /\ Part(s11)
  BY LaterPartsMake, LaterPartsAdd, NothingIsAPart DEF Unless
<1>2. /\ v < 5 => Makes(s5, "inbox")
      /\ v < 6 => Makes(s6, "queue")
      /\ v < 11 => Makes(s11, "pending")
      /\ v < 8 => \A c \in {"org_core", "org_inbox", "org_queue"} : AddsTo(s8, c)
      /\ \A x \in {"core", "inbox", "queue"} : ~Makes(s11, x)
  BY LaterPartsMake, LaterPartsAdd, NothingIsAPart DEF Unless
<1>3. Migrations(v) = e \o a \o s5 \o s6 \o s7 \o s8 \o s11
  BY DEF Migrations
<1> HIDE DEF s5, s6, s7, s8, s11, e, a
<1> DEFINE p1 == e \o a
           p2 == p1 \o s5
           p3 == p2 \o s6
           p4 == p3 \o s7
           p5 == p4 \o s8
           p6 == p5 \o s11
<1>4. Part(p1)
  BY <1>1, PartsJoin
<1> HIDE DEF p1
<1>5. Part(p2) /\ (v < 5 => Makes(p2, "inbox"))
  BY <1>1, <1>2, <1>4, PartsJoin, MakesInPart DEF Part
<1> HIDE DEF p2
<1>6. Part(p3) /\ (v < 5 => Makes(p3, "inbox")) /\ (v < 6 => Makes(p3, "queue"))
  BY <1>1, <1>2, <1>5, PartsJoin, MakesInPart DEF Part
<1> HIDE DEF p3
<1>7. Part(p4) /\ (v < 5 => Makes(p4, "inbox")) /\ (v < 6 => Makes(p4, "queue"))
  BY <1>1, <1>6, PartsJoin, MakesInPart DEF Part
<1> HIDE DEF p4
<1>8. /\ Part(p5) /\ (v < 5 => Makes(p5, "inbox")) /\ (v < 6 => Makes(p5, "queue"))
      /\ v < 8 => \A c \in {"org_core", "org_inbox", "org_queue"} : AddsTo(p5, c)
  BY <1>1, <1>2, <1>7, PartsJoin, MakesInPart, AddsInPart DEF Part
<1> HIDE DEF p5
<1>9. /\ Part(p6) /\ (v < 5 => Makes(p6, "inbox")) /\ (v < 6 => Makes(p6, "queue"))
      /\ v < 11 => Makes(p6, "pending")
  BY <1>1, <1>2, <1>8, PartsJoin, MakesInPart DEF Part
<1>10. v < 8 => \A c \in {"org_core", "org_inbox", "org_queue"} : AddsTo(p6, c)
  <2> SUFFICES ASSUME v < 8, NEW c \in {"org_core", "org_inbox", "org_queue"}
               PROVE  AddsTo(p6, c)
    OBVIOUS
  <2>1. ~Makes(s11, TableOf[c])
    BY <1>2 DEF TableOf
  <2>2. QED
    BY <1>1, <1>8, <2>1, AddsInPart DEF Part
<1>11. Migrations(v) = p6
  BY <1>3 DEF p1, p2, p3, p4, p5
<1> HIDE DEF p6
<1>12. QED
  BY <1>9, <1>10, <1>11

\* Parts that only add columns, together, ...
LEMMA AddsJoin ==
    ASSUME NEW s \in Seq(Statements), NEW u \in Seq(Statements)
    PROVE  /\ s \o u \in Seq(Statements)
           /\ OnlyAdds(s) /\ OnlyAdds(u) => OnlyAdds(s \o u)
           /\ \A x : Includes(s, x) \/ Includes(u, x) => Includes(s \o u, x)
<1> DEFINE w == s \o u
<1>1. /\ w \in Seq(Statements)
      /\ \A i \in 1 .. Len(s) : i \in 1 .. Len(w) /\ w[i] = s[i]
      /\ \A i \in 1 .. Len(u) : Len(s) + i \in 1 .. Len(w) /\ w[Len(s) + i] = u[i]
      /\ \A i \in 1 .. Len(w) :
            i \in 1 .. Len(s) \/ (i - Len(s) \in 1 .. Len(u) /\ w[i] = u[i - Len(s)])
  BY InTurn
<1> HIDE DEF w
<1>2. OnlyAdds(s) /\ OnlyAdds(u) => OnlyAdds(w)
  BY <1>1 DEF OnlyAdds
<1>3. \A x : Includes(s, x) \/ Includes(u, x) => Includes(w, x)
  BY <1>1 DEF Includes
<1>4. QED
  BY <1>1, <1>2, <1>3 DEF w

\* ... mend the columns that a file lacks.
LEMMA PatchesMend ==
    ASSUME NEW f
    PROVE  LET script == ColumnPatches(f.tables) IN
           /\ script \in Seq(Statements) /\ OnlyAdds(script)
           /\ \A c \in Unpatched(f) : Includes(script, Add(c))
<1>1. ASSUME NEW c \in Columns
      PROVE  /\ <<Add(c)>> \in Seq(Statements) /\ OnlyAdds(<<Add(c)>>)
             /\ Includes(<<Add(c)>>, Add(c))
  <2> DEFINE s == Add(c)
             u == <<s>>
  <2>1. s \in Statements /\ s.op = "add"
    BY AddIsAPart DEF Add
  <2> HIDE DEF s
  <2>2. u \in Seq(Statements) /\ Len(u) = 1 /\ u[1] = s
    BY <2>1
  <2> HIDE DEF u
  <2>3. OnlyAdds(u) /\ Includes(u, s)
    BY <2>1, <2>2 DEF OnlyAdds, Includes
  <2>4. QED
    BY <2>2, <2>3 DEF s, u
<1>2. <<>> \in Seq(Statements) /\ OnlyAdds(<<>>)
  BY DEF OnlyAdds
<1>3. {"estimate", "analysis", "consumer", "links"} \subseteq Columns
  BY DEF Columns, TableOf
<1> DEFINE e == <<Add("estimate")>>
           a == AnalysisColumns
           core   == Unless("core" \notin f.tables, e \o a)
           queue  == Unless("queue" \notin f.tables, ConsumerColumns)
           drafts == Unless("drafts" \notin f.tables, <<Add("links")>>)
<1>4. /\ e \in Seq(Statements) /\ OnlyAdds(e) /\ Includes(e, Add("estimate"))
      /\ a \in Seq(Statements) /\ OnlyAdds(a) /\ Includes(a, Add("analysis"))
  BY <1>1, <1>3 DEF AnalysisColumns
<1>5. /\ e \o a \in Seq(Statements) /\ OnlyAdds(e \o a)
      /\ Includes(e \o a, Add("estimate")) /\ Includes(e \o a, Add("analysis"))
  <2> HIDE DEF e, a
  <2>1. QED
    BY <1>4, AddsJoin
<1>6. /\ core \in Seq(Statements) /\ OnlyAdds(core)
      /\ "core" \in f.tables =>
            Includes(core, Add("estimate")) /\ Includes(core, Add("analysis"))
  <2> HIDE DEF e, a
  <2>1. QED
    BY <1>2, <1>5 DEF Unless
<1>7. /\ queue \in Seq(Statements) /\ OnlyAdds(queue)
      /\ "queue" \in f.tables => Includes(queue, Add("consumer"))
  BY <1>1, <1>2, <1>3 DEF Unless, ConsumerColumns
<1>8. /\ drafts \in Seq(Statements) /\ OnlyAdds(drafts)
      /\ "drafts" \in f.tables => Includes(drafts, Add("links"))
  BY <1>1, <1>2, <1>3 DEF Unless
<1>9. ColumnPatches(f.tables) = core \o queue \o drafts
  BY DEF ColumnPatches
<1> HIDE DEF core, queue, drafts
<1> DEFINE u == core \o queue
           w == u \o drafts
<1>10. /\ u \in Seq(Statements) /\ OnlyAdds(u)
       /\ \A x : Includes(core, x) \/ Includes(queue, x) => Includes(u, x)
  BY <1>6, <1>7, AddsJoin
<1> HIDE DEF u
<1>11. /\ w \in Seq(Statements) /\ OnlyAdds(w)
       /\ \A x : Includes(u, x) \/ Includes(drafts, x) => Includes(w, x)
  BY <1>8, <1>10, AddsJoin
<1>12. \A c \in Unpatched(f) : Includes(w, Add(c))
  <2> SUFFICES ASSUME NEW c \in Unpatched(f) PROVE Includes(w, Add(c))
    OBVIOUS
  <2>1. /\ c = "estimate" \/ c = "analysis" \/ c = "consumer" \/ c = "links"
        /\ TableOf[c] \in f.tables
    BY DEF Unpatched, PatchColumns
  <2>2. CASE c = "estimate" \/ c = "analysis"
    <3>1. TableOf[c] = "core"
      BY <2>2 DEF TableOf
    <3>2. QED
      BY <1>6, <1>10, <1>11, <2>1, <2>2, <3>1
  <2>3. CASE c = "consumer"
    <3>1. TableOf[c] = "queue"
      BY <2>3 DEF TableOf
    <3>2. QED
      BY <1>7, <1>10, <1>11, <2>1, <2>3, <3>1
  <2>4. CASE c = "links"
    <3>1. TableOf[c] = "drafts"
      BY <2>4 DEF TableOf
    <3>2. QED
      BY <1>8, <1>11, <2>1, <2>4, <3>1
  <2>5. QED
    BY <2>1, <2>2, <2>3, <2>4
<1>13. ColumnPatches(f.tables) = w
  BY <1>9 DEF u
<1> HIDE DEF w
<1>14. QED
  BY <1>11, <1>12, <1>13

\* A first part that makes the first tables, the migrations and the version
\* complete a file that has what its version promises.
LEMMA MigratingCompletes ==
    ASSUME NEW f, NEW v \in Nat, NEW first, Part(first), Unpatched(f) = {},
           \A t \in {"meta", "core", "drafts"} : t \in f.tables \/ Makes(first, t),
           v >= 5 => "inbox" \in f.tables,
           v >= 6 => "queue" \in f.tables,
           v >= 11 => "pending" \in f.tables,
           v >= 8 => {"org_core", "org_inbox", "org_queue"} \subseteq f.columns
    PROVE  LET script == first \o Migrations(v) \o <<Stamp>> IN
           /\ script \in Seq(Statements)
           /\ WellOrdered(script) /\ Completes(script, f)
<1> DEFINE m == Migrations(v)
           u == first \o m
           s == u \o <<Stamp>>
<1>1. /\ Part(m)
      /\ v < 5 => Makes(m, "inbox")
      /\ v < 6 => Makes(m, "queue")
      /\ v < 11 => Makes(m, "pending")
      /\ v < 8 => \A c \in {"org_core", "org_inbox", "org_queue"} : AddsTo(m, c)
  BY MigrationsComplete
<1> HIDE DEF m
<1>2. /\ Part(u) /\ u \in Seq(Statements) /\ m \in Seq(Statements) /\ first \in Seq(Statements)
  BY <1>1, PartsJoin DEF Part
<1>3. <<Stamp>> \in Seq(Statements) /\ \A x : ~Makes(<<Stamp>>, x)
  <2>1. Stamp \in Statements
    BY DEF Statements
  <2>2. \A x : ~Creates(Stamp, x)
    BY DEF Stamp, Creates
  <2>3. QED
    BY <2>1, <2>2, Single
<1>4. \A x : Makes(first, x) \/ Makes(m, x) => Makes(u, x)
  BY <1>2, MakesInPart
<1>5. \A c : AddsTo(m, c) => AddsTo(u, c)
  BY <1>2, AddsInPart
<1> HIDE DEF u
<1>6. s \in Seq(Statements) /\ WellOrdered(s)
  BY <1>2, PartsJoin
<1>7. /\ \A x : Makes(u, x) => Makes(s, x)
      /\ \A c : AddsTo(u, c) => AddsTo(s, c)
  BY <1>2, <1>3, MakesInPart, AddsInPart
<1> HIDE DEF s
<1>8. ASSUME NEW t \in Tables PROVE t \in f.tables \/ Makes(s, t)
  <2>1. CASE t \in {"meta", "core", "drafts"}
    BY <1>4, <1>7, <2>1
  <2>2. CASE t \in {"inbox", "queue", "pending"}
    BY <1>1, <1>4, <1>7, <2>2
  <2>3. QED
    BY <2>1, <2>2 DEF Tables
<1>9. ASSUME NEW c \in Columns
      PROVE  \/ c \in f.columns
             \/ TableOf[c] \notin f.tables /\ Carries(s, c)
             \/ AddsTo(s, c)
  <2>1. CASE c \in PatchColumns
    <3>1. TableOf[c] \notin f.tables \/ c \in f.columns
      BY <2>1 DEF Unpatched
    <3>2. Carries(s, c)
      BY <1>6, <2>1 DEF WellOrdered
    <3>3. QED
      BY <3>1, <3>2
  <2>2. CASE c \in {"org_core", "org_inbox", "org_queue"}
    BY <1>1, <1>5, <1>7, <2>2
  <2>3. c \in PatchColumns \/ c \in {"org_core", "org_inbox", "org_queue"}
    BY DEF Columns, TableOf, PatchColumns
  <2>4. QED
    BY <2>1, <2>2, <2>3
<1>10. Completes(s, f)
  BY <1>8, <1>9 DEF Completes
<1>11. QED
  BY <1>6, <1>10 DEF s, u, m

\* Whatever init_db does with a file, it completes it.
LEMMA ScriptCompletes ==
    ASSUME NEW f, Grown(f), Unpatched(f) = {}, FirstTablesTogether(f)
    PROVE  /\ Script(f) \in Seq(Statements)
           /\ WellOrdered(Script(f)) /\ Completes(Script(f), f)
<1>1. CASE f.kind = "absent"
  <2>1. Part(<<Open>>)
    <3>1. Open \in Statements /\ Open # Stamp /\ \A x : ~Creates(Open, x)
      <4>1. Open.op = "open" /\ Stamp.op = "stamp"
        BY DEF Open, Stamp
      <4>2. QED
        BY <4>1 DEF Statements, Creates
    <3>2. /\ <<Open>> \in Seq(Statements) /\ Len(<<Open>>) = 1 /\ <<Open>>[1] = Open
          /\ \A c : Carries(<<Open>>, c)
      BY <3>1, Single
    <3> DEFINE u == <<Open>>
    <3> HIDE DEF u
    <3>3. Part(u)
      BY <3>1, <3>2 DEF Part, WellOrdered, u
    <3>4. QED
      BY <3>3 DEF u
  <2> DEFINE first == <<Open>> \o Schema
  <2>2. Part(Schema) /\ \A t \in {"meta", "core", "drafts"} : Makes(Schema, t)
    BY SchemaIsAPart DEF Tables
  <2>3. Part(first)
    BY <2>1, <2>2, PartsJoin
  <2>4. \A t \in {"meta", "core", "drafts"} : Makes(first, t)
    BY <2>1, <2>2, MakesInPart DEF Part
  <2> DEFINE v == 0
  <2>5. Script(f) = first \o Migrations(v) \o <<Stamp>>
    BY <1>1 DEF Script, Bootstrap
  <2>6. v \in Nat /\ ~(v >= 5) /\ ~(v >= 6) /\ ~(v >= 8) /\ ~(v >= 11)
    OBVIOUS
  <2> HIDE DEF first, v
  <2>7. QED
    BY <2>3, <2>4, <2>5, <2>6, MigratingCompletes
<1>2. CASE f.kind # "absent"
  <2> DEFINE a == Unless("meta" \in f.tables, Schema)
             b == Unless("drafts" \in f.tables \/ "meta" \notin f.tables, <<Drafts>>)
             first == a \o b
  <2>1. /\ Part(a) /\ Part(b)
        /\ "meta" \notin f.tables => \A t \in {"meta", "core", "drafts"} : Makes(a, t)
        /\ "meta" \in f.tables /\ "drafts" \notin f.tables => Makes(b, "drafts")
    <3>1. Part(Schema) /\ \A t \in {"meta", "core", "drafts"} : Makes(Schema, t)
      BY SchemaIsAPart DEF Tables
    <3>2. QED
      BY <3>1, LaterPartsMake, NothingIsAPart DEF Unless
  <2>2. Script(f) = first \o Migrations(f.version) \o <<Stamp>>
    BY <1>2 DEF Script, Upgrade
  <2> HIDE DEF a, b
  <2>3. Part(first)
    BY <2>1, PartsJoin
  <2>4. \A x : Makes(a, x) \/ Makes(b, x) => Makes(first, x)
    BY <2>1, MakesInPart DEF Part
  <2>5. \A t \in {"meta", "core", "drafts"} : t \in f.tables \/ Makes(first, t)
    BY <2>1, <2>4 DEF FirstTablesTogether
  <2> HIDE DEF first
  <2>6. QED
    BY <2>2, <2>3, <2>5, MigratingCompletes DEF Grown
<1>3. QED
  BY <1>1, <1>2

----------------------------------------------------------------------------
(* Processes on their way. *)

\* A file that only grows, and gets no table without the columns of its patches.
Grows(f, g) ==
    /\ f.tables \subseteq g.tables /\ f.columns \subseteq g.columns
    /\ Grown(g) /\ Unpatched(g) \subseteq Unpatched(f)

\* A process keeps its way when another lets the file grow, unless it holds the
\* lock and the other makes a table.
LEMMA StaysOnItsWay ==
    ASSUME NEW r, NEW f, NEW g, OnItsWay(r, f), Grows(f, g),
           g.tables = f.tables \/ r.pc # "migrating"
    PROVE  OnItsWay(r, g)
<1>1. Unpatched(g) \subseteq Unpatched(f)
  BY DEF Grows
<1>2. r.pc = "migrating" => Completes(r.script, g)
  <2> SUFFICES ASSUME r.pc = "migrating" PROVE Completes(r.script, g)
    OBVIOUS
  <2>1. Completes(r.script, f) /\ g.tables = f.tables /\ f.columns \subseteq g.columns
    BY DEF OnItsWay, Grows
  <2>2. QED
    BY <2>1 DEF Completes
<1>3. r.pc = "migrating" =>
         FirstTablesTogether(g) \/ (r.script # <<>> /\ Creates(Head(r.script), "core"))
  BY DEF OnItsWay, FirstTablesTogether
<1>4. QED
  BY <1>1, <1>2, <1>3 DEF OnItsWay

\* One process moves, and the file grows or stays.
LEMMA OthersWait ==
    ASSUME ReadyInv, Inv', NEW p \in Processes, NEW new, Go(p, new),
           Grows(file, file'), UNCHANGED legacy,
           file'.kind = file.kind \/ file'.kind # "absent",
           file'.tables = file.tables \/ proc[p].pc = "migrating",
           FirstTablesTogether(file') \/ new.pc = "migrating"
              \/ (file'.tables = file.tables /\ proc[p].pc # "migrating"),
           OnItsWay(new, file'),
           new.pc = "migrating" => fileLock' = p,
           \A q \in Processes : q # p /\ fileLock = q => fileLock' = q,
           \/ writer' = Nobody
           \/ writer' = writer /\ writer # p
           \/ writer' = p /\ new.pc = "commit" /\ "core" \in file.tables,
           new.initialized => proc[p].initialized \/ (Complete(file') /\ proc[p].pc \notin Early)
    PROVE  ReadyInv'
<1>1. \A q \in Processes : proc'[q] = IF q = p THEN new ELSE proc[q]
  BY DEF ReadyInv, Inv, Shapes, Go
<1>2. Grown(file') /\ Grown(legacy') /\ FirstTablesTogether(legacy')
  BY DEF ReadyInv, Grows
<1>3. \A q \in Processes : OnItsWay(proc'[q], file')
  <2> SUFFICES ASSUME NEW q \in Processes, q # p PROVE OnItsWay(proc[q], file')
    BY <1>1
  <2>1. OnItsWay(proc[q], file)
    BY DEF ReadyInv
  <2>2. file'.tables = file.tables \/ proc[q].pc # "migrating"
    BY DEF ReadyInv
  <2>3. QED
    BY <2>1, <2>2, StaysOnItsWay
<1>4. \A q \in Processes : proc'[q].pc = "migrating" => fileLock' = q
  BY <1>1 DEF ReadyInv
<1>5. FirstTablesTogether(file') \/ \E q \in Processes : proc'[q].pc = "migrating"
  <2>1. CASE file'.tables = file.tables /\ proc[p].pc # "migrating"
    BY <1>1, <2>1 DEF ReadyInv, FirstTablesTogether
  <2>2. QED
    BY <1>1, <2>1
<1>6. writer' # Nobody =>
         writer' \in Processes /\ proc'[writer'].pc = "commit" /\ "core" \in file'.tables
  BY <1>1 DEF ReadyInv, Grows
<1>7. \A q \in Processes : proc'[q].initialized => Complete(file')
  <2> SUFFICES ASSUME NEW q \in Processes, proc'[q].initialized PROVE Complete(file')
    OBVIOUS
  <2>1. CASE proc[q].initialized
    <3>1. file.tables = Tables /\ file.columns = Columns
      BY <2>1 DEF ReadyInv, ReadyMeansComplete, Complete
    <3>2. QED
      BY <3>1 DEF Grows, Grown, Complete
  <2>2. CASE ~proc[q].initialized
    BY <1>1, <2>2
  <2>3. QED
    BY <2>1, <2>2
<1>8. legacy'.kind # "absent" /\ file'.kind = "absent" =>
         \A q \in Processes : ~proc'[q].initialized
  <2> SUFFICES ASSUME legacy.kind # "absent", file'.kind = "absent", NEW q \in Processes,
                      proc'[q].initialized
               PROVE  FALSE
    OBVIOUS
  <2>1. /\ file.kind = "absent" /\ ~proc[q].initialized /\ proc[p].pc \in Early
        /\ ~proc[p].initialized
    BY DEF ReadyInv, Inv, CopyIsFirst
  <2>2. QED
    BY <1>1, <2>1
<1>9. QED
  BY <1>2, <1>3, <1>4, <1>5, <1>6, <1>7, <1>8 DEF ReadyInv, ReadyMeansComplete

\* The file stays, a process moves to where nothing is asked of it.
LEMMA OneMoves ==
    ASSUME ReadyInv, Inv', NEW p \in Processes, NEW new, Go(p, new), UNCHANGED <<file, legacy>>,
           new.script \in Seq(Statements), new.pc \notin {"patching", "wait_lock", "migrating"},
           new.initialized => proc[p].initialized,
           proc[p].pc = "migrating" => FirstTablesTogether(file),
           \A q \in Processes : q # p /\ fileLock = q => fileLock' = q,
           \/ writer' = Nobody
           \/ writer' = writer /\ writer # p
           \/ writer' = p /\ new.pc = "commit" /\ "core" \in file.tables
    PROVE  ReadyInv'
<1>1. Grows(file, file')
  BY DEF ReadyInv, Grows
<1>2. OnItsWay(new, file')
  BY DEF OnItsWay
<1>3. QED
  BY <1>1, <1>2, OthersWait

----------------------------------------------------------------------------
(* One statement of a script. *)

\* What is left of a script when its first statement has run.
LEMMA RestOfScript ==
    ASSUME NEW s \in Seq(Statements), s # <<>>
    PROVE  LET rest == Tail(s) IN
           /\ rest \in Seq(Statements) /\ Len(s) = Len(rest) + 1 /\ Len(rest) \in Nat
           /\ Head(s) = s[1] /\ 1 \in 1 .. Len(s)
           /\ rest # <<>> => Len(rest) >= 1 /\ Head(rest) = s[2]
           /\ \A i \in 1 .. Len(rest) : i + 1 \in 1 .. Len(s) /\ rest[i] = s[i + 1]
           /\ \A i \in 1 .. Len(s) : i = 1 \/ (i - 1 \in 1 .. Len(rest) /\ s[i] = rest[i - 1])
OBVIOUS

\* What a statement did to a file.
Did(s, f, g) ==
    /\ f.tables \subseteq g.tables /\ f.columns \subseteq g.columns /\ Grown(g)
    /\ \A t \in g.tables : t \in f.tables \/ (Creates(s, t) /\ s.with \subseteq g.columns)
    /\ \A t : Creates(s, t) => t \in g.tables
    /\ \A c : s = Add(c) /\ TableOf[c] \in f.tables => c \in g.columns

\* The rest of the script does the rest.
LEMMA RestCompletes ==
    ASSUME NEW s \in Seq(Statements), s # <<>>, NEW f, NEW g,
           Completes(s, f), Did(Head(s), f, g)
    PROVE  Completes(Tail(s), g)
<1> DEFINE rest == Tail(s)
<1>1. /\ rest \in Seq(Statements) /\ Len(s) = Len(rest) + 1 /\ Len(rest) \in Nat
      /\ Head(s) = s[1] /\ 1 \in 1 .. Len(s)
      /\ \A i \in 1 .. Len(rest) : i + 1 \in 1 .. Len(s) /\ rest[i] = s[i + 1]
      /\ \A i \in 1 .. Len(s) : i = 1 \/ (i - 1 \in 1 .. Len(rest) /\ s[i] = rest[i - 1])
  BY RestOfScript
<1> HIDE DEF rest
<1>2. ASSUME NEW t \in Tables PROVE t \in g.tables \/ Makes(rest, t)
  <2>1. CASE t \in f.tables
    BY <2>1 DEF Did
  <2>2. CASE Makes(s, t)
    <3>1. PICK i \in 1 .. Len(s) : Creates(s[i], t)
      BY <2>2 DEF Makes
    <3>2. QED
      BY <1>1, <3>1 DEF Makes, Did
  <2>3. QED
    BY <2>1, <2>2 DEF Completes
<1>3. ASSUME NEW c \in Columns
      PROVE  \/ c \in g.columns
             \/ TableOf[c] \notin g.tables /\ Carries(rest, c)
             \/ AddsTo(rest, c)
  <2>1. CASE c \in f.columns
    BY <2>1 DEF Did
  <2>2. CASE TableOf[c] \notin f.tables /\ Carries(s, c)
    <3>1. Carries(rest, c)
      BY <1>1, <2>2 DEF Carries
    <3>2. TableOf[c] \in g.tables => c \in g.columns
      BY <1>1, <2>2 DEF Carries, Did
    <3>3. QED
      BY <3>1, <3>2
  <2>3. CASE AddsTo(s, c)
    <3>1. PICK i \in 1 .. Len(s) :
             s[i] = Add(c) /\ \A j \in i .. Len(s) : ~Creates(s[j], TableOf[c])
      BY <2>3 DEF AddsTo
    <3>2. CASE i = 1
      <4>1. ~Makes(s, TableOf[c])
        BY <3>1, <3>2 DEF Makes
      <4>2. TableOf[c] \in Tables
        BY DEF Columns, TableOf, Tables
      <4>3. TableOf[c] \in f.tables
        BY <4>1, <4>2 DEF Completes
      <4>4. QED
        BY <1>1, <3>1, <3>2, <4>3 DEF Did
    <3>3. CASE i - 1 \in 1 .. Len(rest) /\ s[i] = rest[i - 1]
      <4>1. \A j \in i - 1 .. Len(rest) :
               j \in 1 .. Len(rest) /\ j + 1 \in i .. Len(s) /\ rest[j] = s[j + 1]
        BY <1>1, <3>3
      <4>2. rest[i - 1] = Add(c) /\ \A j \in i - 1 .. Len(rest) : ~Creates(rest[j], TableOf[c])
        BY <3>1, <3>3, <4>1
      <4>3. QED
        BY <3>3, <4>2 DEF AddsTo
    <3>4. QED
      BY <1>1, <3>2, <3>3
  <2>4. QED
    BY <2>1, <2>2, <2>3 DEF Completes
<1>4. QED
  BY <1>2, <1>3 DEF Completes, rest

\* The rest of the script is in order.
LEMMA RestIsOrdered ==
    ASSUME NEW s \in Seq(Statements), s # <<>>, WellOrdered(s)
    PROVE  /\ WellOrdered(Tail(s))
           /\ Creates(Head(s), "meta") => Tail(s) # <<>> /\ Creates(Head(Tail(s)), "core")
<1> DEFINE rest == Tail(s)
<1>1. /\ rest \in Seq(Statements) /\ Len(s) = Len(rest) + 1 /\ Len(rest) \in Nat
      /\ Head(s) = s[1] /\ 1 \in 1 .. Len(s)
      /\ rest # <<>> => Head(rest) = s[2]
      /\ \A i \in 1 .. Len(rest) : i + 1 \in 1 .. Len(s) /\ rest[i] = s[i + 1]
  BY RestOfScript
<1> HIDE DEF rest
<1>2. ASSUME NEW i \in 1 .. Len(rest)
      PROVE  /\ rest[i] = Stamp => i = Len(rest)
             /\ Creates(rest[i], "meta") =>
                   i + 1 \in 1 .. Len(rest) /\ Creates(rest[i + 1], "core")
  <2> DEFINE j == i + 1
  <2>1. j \in 1 .. Len(s) /\ rest[i] = s[j] /\ j = i + 1
    BY <1>1
  <2> HIDE DEF j
  <2>2. rest[i] = Stamp => i = Len(rest)
    BY <1>1, <2>1 DEF WellOrdered
  <2>3. ASSUME Creates(rest[i], "meta")
        PROVE  i + 1 \in 1 .. Len(rest) /\ Creates(rest[i + 1], "core")
    <3>1. j + 1 \in 1 .. Len(s) /\ Creates(s[j + 1], "core")
      BY <2>1, <2>3 DEF WellOrdered
    <3>2. j \in 1 .. Len(rest)
      BY <1>1, <2>1, <3>1
    <3>3. rest[j] = s[j + 1]
      BY <1>1, <3>2
    <3>4. QED
      BY <2>1, <3>1, <3>2, <3>3
  <2>4. QED
    BY <2>2, <2>3
<1>3. \A c \in PatchColumns : Carries(rest, c)
  BY <1>1 DEF WellOrdered, Carries
<1>4. Creates(s[1], "meta") => 1 + 1 \in 1 .. Len(s) /\ Creates(s[1 + 1], "core")
  BY <1>1 DEF WellOrdered
<1>5. Creates(Head(s), "meta") => rest # <<>> /\ Creates(Head(rest), "core")
  <2>1. rest = <<>> => Len(rest) = 0
    OBVIOUS
  <2>2. QED
    BY <1>1, <1>4, <2>1
<1>6. QED
  BY <1>2, <1>3, <1>5 DEF WellOrdered, rest

\* A process runs the next statement of its script.
LEMMA StatementRuns ==
    ASSUME ReadyInv, Inv', NEW p \in Processes, proc[p].pc \in {"patching", "migrating"},
           proc[p].script # <<>>, Proceed(p), UNCHANGED <<legacy, fileLock, writer>>,
           file'.kind = file.kind \/ file'.kind # "absent",
           Did(Head(proc[p].script), file, file')
    PROVE  ReadyInv'
<1> DEFINE s    == proc[p].script
           rest == Tail(s)
           new  == [proc[p] EXCEPT !.script = rest, !.missing = FALSE]
<1>1. Go(p, new)
  BY DEF Proceed
<1>2. /\ new.script = rest /\ new.pc = proc[p].pc /\ new.initialized = proc[p].initialized
  <2> HIDE DEF rest
  <2>1. QED
    BY DEF ReadyInv, Inv, Shapes, IsProcess
<1>3. s \in Seq(Statements) /\ OnItsWay(proc[p], file)
  BY DEF ReadyInv, OnItsWay
<1>4. /\ rest \in Seq(Statements) /\ Head(s) = s[1] /\ 1 \in 1 .. Len(s)
      /\ \A i \in 1 .. Len(rest) : i + 1 \in 1 .. Len(s) /\ rest[i] = s[i + 1]
      /\ \A i \in 1 .. Len(s) : i = 1 \/ (i - 1 \in 1 .. Len(rest) /\ s[i] = rest[i - 1])
  BY <1>3, RestOfScript
<1>5. writer # p
  BY StorageAssumption DEF ReadyInv, StorageAssumption
<1> HIDE DEF rest, new
<1>6. CASE proc[p].pc = "patching"
  <2>1. OnlyAdds(s) /\ \A c \in Unpatched(file) : Includes(s, Add(c))
    BY <1>3, <1>6 DEF OnItsWay
  <2>2. \A t : ~Creates(Head(s), t)
    BY <1>4, <2>1 DEF OnlyAdds, Creates
  <2>3. file'.tables = file.tables /\ Grows(file, file')
    BY <2>2 DEF Did, Grows, Unpatched
  <2>4. OnlyAdds(rest)
    BY <1>4, <2>1 DEF OnlyAdds
  <2>5. ASSUME NEW c \in Unpatched(file') PROVE Includes(rest, Add(c))
    <3>1. /\ TableOf[c] \in file.tables /\ c \notin file'.columns /\ c \in Unpatched(file)
      BY <2>3 DEF Unpatched, Grows
    <3>2. PICK i \in 1 .. Len(s) : s[i] = Add(c)
      BY <2>1, <3>1 DEF Includes
    <3>3. i # 1
      BY <1>4, <3>1, <3>2 DEF Did
    <3>4. QED
      BY <1>4, <3>2, <3>3 DEF Includes
  <2>6. OnItsWay(new, file')
    BY <1>2, <1>4, <1>6, <2>4, <2>5 DEF OnItsWay
  <2>7. QED
    BY <1>1, <1>2, <1>5, <1>6, <2>3, <2>6, OthersWait
<1>7. CASE proc[p].pc = "migrating"
  <2>1. /\ Unpatched(file) = {} /\ WellOrdered(s) /\ Completes(s, file)
        /\ FirstTablesTogether(file) \/ Creates(Head(s), "core")
    BY <1>3, <1>7 DEF OnItsWay
  <2>2. Unpatched(file') = {}
    <3> SUFFICES ASSUME NEW c \in Unpatched(file') PROVE FALSE
      OBVIOUS
    <3>1. c \in PatchColumns /\ TableOf[c] \in file'.tables /\ c \notin file'.columns
      BY DEF Unpatched
    <3>2. TableOf[c] \notin file.tables
      BY <2>1, <3>1 DEF Unpatched, Did
    <3>3. Creates(Head(s), TableOf[c]) /\ Head(s).with \subseteq file'.columns
      BY <3>1, <3>2 DEF Did
    <3>4. Carries(s, c)
      BY <2>1, <3>1 DEF WellOrdered
    <3>5. QED
      BY <1>4, <3>1, <3>3, <3>4 DEF Carries
  <2>3. Grows(file, file')
    BY <2>2 DEF Did, Grows
  <2>4. /\ WellOrdered(rest)
        /\ Creates(Head(s), "meta") => rest # <<>> /\ Creates(Head(rest), "core")
    BY <1>3, <2>1, RestIsOrdered DEF rest
  <2>5. Completes(rest, file')
    BY <1>3, <2>1, RestCompletes DEF rest
  <2>6. FirstTablesTogether(file') \/ (rest # <<>> /\ Creates(Head(rest), "core"))
    BY <2>1, <2>4 DEF FirstTablesTogether, Did
  <2>7. OnItsWay(new, file')
    BY <1>2, <1>4, <1>7, <2>2, <2>4, <2>5, <2>6 DEF OnItsWay
  <2>8. fileLock' = p
    BY <1>7 DEF ReadyInv
  <2>9. QED
    BY <1>1, <1>2, <1>5, <1>7, <2>3, <2>7, <2>8, OthersWait
<1>8. QED
  BY <1>6, <1>7

----------------------------------------------------------------------------
(* Every step keeps the files and the processes on their way. *)

\* What a statement is, told from its kind.
LEMMA StatementKinds ==
    ASSUME NEW s \in Statements
    PROVE  /\ s.op = "create" => s.item \in Tables /\ s.with \subseteq Columns
           /\ s.op = "add" => s.item \in Columns /\ s = Add(s.item)
           /\ s.op = "stamp" => s = Stamp
           /\ s.op # "add" => \A c : s # Add(c)
<1>1. s = Open \/ s = Stamp \/ (\E t \in Tables, cols \in SUBSET Columns : s = Create(t, cols))
      \/ \E c \in Columns : s = Add(c)
  BY DEF Statements
<1>2. Open.op = "open" /\ Stamp.op = "stamp"
  BY DEF Open, Stamp
<1>3. \A t, cols : Create(t, cols).op = "create" /\ Create(t, cols).item = t
                   /\ Create(t, cols).with = cols
  BY DEF Create
<1>4. \A c : Add(c).op = "add" /\ Add(c).item = c
  BY DEF Add
<1>5. QED
  BY <1>1, <1>2, <1>3, <1>4

\* A process that fails lets go, and the next one finds the file in order.
LEMMA FailIsReady ==
    ASSUME ReadyInv, Inv', NEW p \in Processes, Fail(p),
           proc[p].pc = "migrating" => FirstTablesTogether(file)
    PROVE  ReadyInv'
<1> DEFINE new == To(p, "idle")
<1>1. /\ new.pc = "idle" /\ new.script \in Seq(Statements)
      /\ new.initialized = proc[p].initialized
  <2>1. new.script = <<>> /\ <<>> \in Seq(Statements)
    BY DEF ReadyInv, Inv, Shapes, IsProcess, To
  <2>2. QED
    BY <2>1 DEF ReadyInv, Inv, Shapes, IsProcess, To
<1>2. /\ Go(p, new) /\ UNCHANGED <<file, legacy>>
      /\ \A q \in Processes : q # p /\ fileLock = q => fileLock' = q
      /\ writer' = Nobody \/ (writer' = writer /\ writer # p)
  BY DEF Fail, Released
<1> HIDE DEF new
<1>3. QED
  BY <1>1, <1>2, OneMoves

\* A statement does what it says, or the process fails; the version is written last.
LEMMA ScriptIsReady ==
    ASSUME ReadyInv, Inv', NEW p \in Processes,
           OpenFile(p) \/ CreateTable(p) \/ LookAtColumn(p) \/ AddColumn(p) \/ WriteVersion(p)
    PROVE  ReadyInv'
<1> DEFINE s == proc[p].script
<1>1. proc[p].pc \in {"patching", "migrating"} /\ s # <<>>
  BY DEF OpenFile, CreateTable, LookAtColumn, AddColumn, WriteVersion, InScript
<1>2. OnItsWay(proc[p], file) /\ s \in Seq(Statements) /\ Grown(file) /\ IsFile(file)
  BY DEF ReadyInv, OnItsWay, Inv, Shapes
<1>3. /\ Head(s) \in Statements /\ Head(s) = s[1] /\ 1 \in 1 .. Len(s)
  BY <1>1, <1>2, RestOfScript
<1>4. /\ Head(s).op = "create" => Head(s).item \in Tables /\ Head(s).with \subseteq Columns
      /\ Head(s).op = "add" => Head(s).item \in Columns /\ Head(s) = Add(Head(s).item)
      /\ Head(s).op = "stamp" => Head(s) = Stamp
      /\ Head(s).op # "add" => \A c : Head(s) # Add(c)
      /\ \A t : Creates(Head(s), t) <=> Head(s).op = "create" /\ Head(s).item = t
  BY <1>3, StatementKinds DEF Creates
<1>5. \A c : Head(s) = Add(c) => Head(s).item = c
  BY DEF Add
<1>6. writer # p
  BY <1>1, StorageAssumption DEF ReadyInv, StorageAssumption
<1>7. CASE OpenFile(p)
  <2>1. /\ Head(s).op = "open" /\ file' = [file EXCEPT !.kind = "database"]
        /\ Proceed(p) /\ UNCHANGED <<legacy, fileLock, writer>>
    BY <1>7 DEF OpenFile, InScript
  <2>2. /\ file'.tables = file.tables /\ file'.columns = file.columns
        /\ file'.version = file.version /\ file'.kind = "database"
    BY <1>2, <2>1 DEF IsFile
  <2>3. Did(Head(s), file, file')
    BY <1>2, <1>4, <2>1, <2>2 DEF Did, Grown
  <2>4. QED
    BY <1>1, <2>1, <2>2, <2>3, StatementRuns
<1>8. CASE CreateTable(p)
  <2>1. /\ Head(s).op = "create" /\ Proceed(p) /\ UNCHANGED <<legacy, fileLock, writer>>
        /\ file' = IF Head(s).item \in file.tables THEN file
                   ELSE [file EXCEPT !.tables = @ \cup {Head(s).item},
                                     !.columns = @ \cup Head(s).with]
    BY <1>8 DEF CreateTable, InScript
  <2> DEFINE i == Head(s).item
             w == Head(s).with
  <2>2. CASE i \in file.tables
    <3>1. file' = file
      BY <2>1, <2>2
    <3>2. Did(Head(s), file, file')
      BY <1>2, <1>4, <2>1, <2>2, <3>1 DEF Did
    <3>3. QED
      BY <1>1, <2>1, <3>1, <3>2, StatementRuns
  <2>3. CASE i \notin file.tables
    <3> HIDE DEF i, w
    <3>1. file' = [file EXCEPT !.tables = file.tables \cup {i}, !.columns = file.columns \cup w]
      BY <1>2, <2>1, <2>3 DEF IsFile, i, w
    <3>2. /\ file'.tables = file.tables \cup {i} /\ file'.columns = file.columns \cup w
          /\ file'.version = file.version /\ file'.kind = file.kind
      BY <1>2, <3>1 DEF IsFile
    <3>3. i \in Tables /\ w \subseteq Columns
      BY <1>4, <2>1 DEF i, w
    <3>4. Grown(file')
      BY <1>2, <3>2, <3>3 DEF Grown
    <3>5. Did(Head(s), file, file')
      BY <1>4, <2>1, <3>2, <3>4 DEF Did, i, w
    <3>6. QED
      BY <1>1, <2>1, <3>2, <3>5, StatementRuns
  <2>4. QED
    BY <2>2, <2>3
<1>9. CASE LookAtColumn(p)
  <2> DEFINE c == Head(s).item
             new == [proc[p] EXCEPT !.missing = TRUE]
  <2>1. /\ Head(s).op = "add" /\ UNCHANGED <<file, legacy, fileLock, writer>>
        /\ Go(p, new) \/ (~Missing(file, c) /\ Proceed(p))
    BY <1>9 DEF LookAtColumn, InScript
  <2>2. CASE Go(p, new)
    <3>1. /\ new.pc = proc[p].pc /\ new.script = proc[p].script
          /\ new.initialized = proc[p].initialized
      BY DEF ReadyInv, Inv, Shapes, IsProcess
    <3> HIDE DEF new
    <3>2. Grows(file, file') /\ OnItsWay(new, file')
      BY <1>2, <2>1, <3>1 DEF Grows, OnItsWay
    <3>3. new.pc = "migrating" => fileLock' = p
      BY <2>1, <3>1 DEF ReadyInv
    <3>4. QED
      BY <1>6, <2>1, <2>2, <3>1, <3>2, <3>3, OthersWait
  <2>3. CASE ~Missing(file, c) /\ Proceed(p)
    <3>1. Did(Head(s), file, file')
      BY <1>2, <1>4, <1>5, <2>1, <2>3 DEF Did, Missing
    <3>2. QED
      BY <1>1, <2>1, <2>3, <3>1, StatementRuns
  <2>4. QED
    BY <2>1, <2>2, <2>3
<1>10. CASE AddColumn(p)
  <2> DEFINE c == Head(s).item
  <2>1. /\ Head(s).op = "add"
        /\ \/ Fail(p)
           \/ /\ file' = [file EXCEPT !.columns = @ \cup {c}]
              /\ Proceed(p) /\ UNCHANGED <<legacy, fileLock, writer>>
    BY <1>10 DEF AddColumn, InScript
  <2>2. CASE Fail(p)
    <3>1. proc[p].pc = "migrating" => FirstTablesTogether(file)
      BY <1>2, <1>4, <2>1 DEF OnItsWay
    <3>2. QED
      BY <2>2, <3>1, FailIsReady
  <2>3. CASE /\ file' = [file EXCEPT !.columns = @ \cup {c}]
             /\ Proceed(p) /\ UNCHANGED <<legacy, fileLock, writer>>
    <3> HIDE DEF c
    <3>1. file' = [file EXCEPT !.columns = file.columns \cup {c}]
      BY <1>2, <2>3 DEF IsFile
    <3>2. /\ file'.tables = file.tables /\ file'.columns = file.columns \cup {c}
          /\ file'.version = file.version /\ file'.kind = file.kind
      BY <1>2, <3>1 DEF IsFile
    <3>3. c \in Columns
      BY <1>4, <2>1 DEF c
    <3>4. Grown(file')
      BY <1>2, <3>2, <3>3 DEF Grown
    <3>5. Did(Head(s), file, file')
      BY <1>4, <1>5, <2>1, <3>2, <3>4 DEF Did, c
    <3>6. QED
      BY <1>1, <2>3, <3>2, <3>5, StatementRuns
  <2>4. QED
    BY <2>1, <2>2, <2>3
<1>11. CASE WriteVersion(p)
  <2>1. /\ Head(s).op = "stamp" /\ file' = [file EXCEPT !.version = SchemaVersion]
        /\ Proceed(p) /\ UNCHANGED <<legacy, fileLock, writer>>
    BY <1>11 DEF WriteVersion, InScript
  <2>2. /\ file'.tables = file.tables /\ file'.columns = file.columns
        /\ file'.version = 12 /\ file'.kind = file.kind
    BY <1>2, <2>1 DEF IsFile, SchemaVersion
  <2>3. proc[p].pc = "migrating"
    <3>1. CASE proc[p].pc = "patching"
      <4>1. s[1].op = "add"
        BY <1>2, <1>3, <3>1 DEF OnItsWay, OnlyAdds
      <4>2. QED
        BY <1>3, <2>1, <4>1
    <3>2. QED
      BY <1>1, <3>1
  <2>4. WellOrdered(s) /\ Completes(s, file) /\ Head(s) = Stamp
    BY <1>2, <1>4, <2>1, <2>3 DEF OnItsWay
  <2>5. Len(s) = 1
    <3>1. s[1] = Stamp => 1 = Len(s)
      BY <1>3, <2>4 DEF WellOrdered
    <3>2. QED
      BY <1>3, <2>4, <3>1
  <2>6. \A i \in 1 .. Len(s) : s[i] = Head(s)
    BY <1>3, <2>5
  <2>7. \A t : ~Makes(s, t)
    BY <1>4, <2>1, <2>6 DEF Makes
  <2>8. \A c : ~AddsTo(s, c)
    BY <1>4, <2>1, <2>6 DEF AddsTo
  <2>9. Tables \subseteq file.tables /\ Columns \subseteq file.columns
    <3>1. Tables \subseteq file.tables
      BY <2>4, <2>7 DEF Completes
    <3>2. \A c \in Columns : TableOf[c] \in Tables
      BY DEF Columns, TableOf, Tables
    <3>3. QED
      BY <2>4, <2>8, <3>1, <3>2 DEF Completes
  <2>10. Grown(file')
    <3>1. file'.tables = Tables /\ file'.columns = Columns
      BY <1>2, <2>2, <2>9 DEF Grown
    <3>2. /\ {"inbox", "queue", "pending"} \subseteq Tables
          /\ {"org_core", "org_inbox", "org_queue"} \subseteq Columns
      BY DEF Tables, Columns, TableOf
    <3>3. QED
      BY <2>2, <3>1, <3>2 DEF Grown
  <2>11. Did(Head(s), file, file')
    BY <1>4, <2>1, <2>2, <2>10 DEF Did
  <2>12. QED
    BY <1>1, <2>1, <2>2, <2>11, StatementRuns
<1>12. QED
  BY <1>7, <1>8, <1>9, <1>10, <1>11

\* Where a process goes that leaves its script behind.
LEMMA ToKeeps ==
    ASSUME ReadyInv, NEW p \in Processes, NEW pc
    PROVE  /\ To(p, pc).pc = pc /\ To(p, pc).script = <<>> /\ <<>> \in Seq(Statements)
           /\ To(p, pc).initialized = proc[p].initialized /\ IsProcess(To(p, pc))
<1>1. <<>> \in Seq(Statements)
  OBVIOUS
<1>2. To(p, pc).pc = pc /\ IsProcess(To(p, pc))
  BY ToShape DEF ReadyInv
<1>3. To(p, pc).script = <<>> /\ To(p, pc).initialized = proc[p].initialized
  BY DEF ReadyInv, Inv, Shapes, IsProcess, To
<1>4. QED
  BY <1>1, <1>2, <1>3

\* Patched and of the current version, a file is complete.
LEMMA ReadyAndPatched ==
    ASSUME NEW f, Grown(f), Unpatched(f) = {}, SchemaReady(f)
    PROVE  Complete(f)
<1>1. f.tables = Tables /\ f.columns \subseteq Columns
      /\ {"org_core", "org_inbox", "org_queue"} \subseteq f.columns
  BY DEF Grown, SchemaReady, SchemaVersion
<1>2. \A c \in PatchColumns : TableOf[c] \in Tables
  BY DEF PatchColumns, TableOf, Tables
<1>3. PatchColumns \subseteq f.columns
  BY <1>1, <1>2 DEF Unpatched
<1>4. Columns \subseteq PatchColumns \cup {"org_core", "org_inbox", "org_queue"}
  BY DEF Columns, TableOf, PatchColumns
<1>5. QED
  BY <1>1, <1>3, <1>4 DEF Complete

\* A script that is through has completed the file.
LEMMA NothingLeft ==
    ASSUME NEW f, Grown(f), Completes(<<>>, f)
    PROVE  Complete(f)
<1>1. \A x : ~Makes(<<>>, x) /\ ~AddsTo(<<>>, x)
  BY DEF Makes, AddsTo
<1>2. Tables \subseteq f.tables
  BY <1>1 DEF Completes
<1>3. \A c \in Columns : TableOf[c] \in Tables
  BY DEF Columns, TableOf, Tables
<1>4. Columns \subseteq f.columns
  BY <1>1, <1>2, <1>3 DEF Completes
<1>5. QED
  BY <1>2, <1>4 DEF Complete, Grown

\* A process that is nowhere near a script or the lock.
LEMMA BeginIsReady ==
    ASSUME ReadyInv, Inv', NEW p \in Processes,
           Begin(p) \/ CheckLegacy(p) \/ OtherTransaction(p) \/ NextPublicId(p) \/ Crash(p),
           "crash_in_schema" \notin Environment
    PROVE  ReadyInv'
<1>1. proc[p].pc # "commit" => writer # p
  BY StorageAssumption DEF ReadyInv, StorageAssumption
<1>2. proc[p].script \in Seq(Statements) /\ IsProcess(proc[p])
  BY DEF ReadyInv, OnItsWay, Inv, Shapes
<1>3. CASE Begin(p)
  <2> DEFINE new == [proc[p] EXCEPT !.pc = "legacy", !.booted = TRUE, !.repairs = ~proc[p].booted]
  <2>1. /\ proc[p].pc = "idle" /\ Go(p, new) /\ UNCHANGED <<file, legacy, fileLock, writer>>
    BY <1>3 DEF Begin
  <2>2. /\ new.pc = "legacy" /\ new.script = proc[p].script
        /\ new.initialized = proc[p].initialized
    BY <1>2 DEF IsProcess
  <2> HIDE DEF new
  <2>3. QED
    BY <1>1, <1>2, <2>1, <2>2, OneMoves
<1>4. CASE CheckLegacy(p)
  <2> DEFINE pc  == IF TargetMissing /\ legacy.kind # "absent" THEN "copy" ELSE "patch"
             new == To(p, pc)
  <2>1. /\ proc[p].pc = "legacy" /\ Go(p, new) /\ UNCHANGED <<file, legacy, fileLock, writer>>
    BY <1>4 DEF CheckLegacy
  <2>2. /\ new.pc \in {"copy", "patch"} /\ new.script \in Seq(Statements)
        /\ new.initialized = proc[p].initialized
    BY ToKeeps
  <2> HIDE DEF new
  <2>3. QED
    BY <1>1, <2>1, <2>2, OneMoves
<1>5. CASE OtherTransaction(p)
  BY <1>5, FailIsReady DEF OtherTransaction
<1>6. CASE NextPublicId(p)
  <2> DEFINE a   == To(p, "commit")
             new == [a EXCEPT !.id = file.counter + 1]
  <2>1. /\ proc[p].pc = "transact" /\ "core" \in file.tables /\ writer' = p
        /\ Go(p, new) /\ UNCHANGED <<file, legacy, fileLock>>
    BY <1>6 DEF NextPublicId
  <2>2. /\ new.pc = "commit" /\ new.script \in Seq(Statements)
        /\ new.initialized = proc[p].initialized
    <3>1. /\ a.pc = "commit" /\ a.script \in Seq(Statements) /\ IsProcess(a)
          /\ a.initialized = proc[p].initialized
      BY ToKeeps
    <3> HIDE DEF a
    <3>2. QED
      BY <3>1 DEF IsProcess
  <2> HIDE DEF new
  <2>3. QED
    BY <2>1, <2>2, OneMoves
<1>7. CASE Crash(p)
  <2>1. /\ Go(p, Down) /\ UNCHANGED <<file, legacy>> /\ FirstTablesTogether(file)
        /\ \A q \in Processes : q # p /\ fileLock = q => fileLock' = q
        /\ writer' = Nobody \/ (writer' = writer /\ writer # p)
    BY <1>7 DEF Crash, Stop, Go, Released, BetweenFirstTables, FirstTablesTogether
  <2>2. /\ Down.pc = "idle" /\ Down.script \in Seq(Statements) /\ Down.initialized = FALSE
    BY DEF Down
  <2>3. QED
    BY <2>1, <2>2, OneMoves
<1>8. QED
  BY <1>3, <1>4, <1>5, <1>6, <1>7

\* The legacy file comes before everything else.
LEMMA CopyIsReady ==
    ASSUME ReadyInv, Inv', NEW p \in Processes, CopyLegacy(p)
    PROVE  ReadyInv'
<1> DEFINE new == To(p, "patch")
<1>1. /\ proc[p].pc = "copy" /\ file' = legacy /\ Go(p, new) /\ UNCHANGED <<legacy, fileLock, writer>>
  BY DEF CopyLegacy
<1>2. /\ new.pc = "patch" /\ new.script \in Seq(Statements)
      /\ new.initialized = proc[p].initialized
  BY ToKeeps
<1> HIDE DEF new
<1>3. /\ legacy.kind # "absent" /\ file.kind = "absent"
      /\ \A q \in Processes : proc[q].pc \in Early /\ ~proc[q].initialized
  BY <1>1 DEF ReadyInv, Inv, CopiesOnce, CopyIsFirst
<1>4. \A q \in Processes : proc'[q] = IF q = p THEN new ELSE proc[q]
  BY <1>1 DEF ReadyInv, Inv, Shapes, Go
<1>5. \A q \in Processes :
         /\ proc'[q].pc \in {"idle", "legacy", "copy", "patch"}
         /\ proc'[q].script \in Seq(Statements) /\ ~proc'[q].initialized
  BY <1>2, <1>3, <1>4 DEF Early, ReadyInv, OnItsWay
<1>6. \A q \in Processes : OnItsWay(proc'[q], file')
  BY <1>5 DEF OnItsWay
<1>7. writer = Nobody
  BY <1>3 DEF ReadyInv, Early
<1>8. Grown(file') /\ Grown(legacy') /\ FirstTablesTogether(file') /\ FirstTablesTogether(legacy')
  BY <1>1 DEF ReadyInv
<1>9. QED
  BY <1>1, <1>5, <1>6, <1>7, <1>8 DEF ReadyInv, ReadyMeansComplete

\* The columns a file lacks are found, and none is missing when the patches end.
LEMMA PatchesAreReady ==
    ASSUME ReadyInv, Inv', NEW p \in Processes, StartPatches(p) \/ EndPatches(p)
    PROVE  ReadyInv'
<1>1. proc[p].pc # "commit" => writer # p
  BY StorageAssumption DEF ReadyInv, StorageAssumption
<1>2. Grown(file) /\ Grows(file, file) /\ OnItsWay(proc[p], file)
  BY DEF ReadyInv, Grows
<1>3. CASE StartPatches(p)
  <2> DEFINE script == ColumnPatches(file.tables)
             new    == [To(p, "patching") EXCEPT !.script = script]
  <2>1. /\ proc[p].pc = "patch" /\ Go(p, new) /\ UNCHANGED <<file, legacy, fileLock, writer>>
    BY <1>3 DEF StartPatches
  <2>2. /\ script \in Seq(Statements) /\ OnlyAdds(script)
        /\ \A c \in Unpatched(file) : Includes(script, Add(c))
    BY PatchesMend
  <2> HIDE DEF script
  <2>3. /\ new.pc = "patching" /\ new.script = script
        /\ new.initialized = proc[p].initialized
    BY ToKeeps DEF IsProcess
  <2> HIDE DEF new
  <2>4. OnItsWay(new, file')
    BY <2>1, <2>2, <2>3 DEF OnItsWay
  <2>5. QED
    BY <1>1, <1>2, <2>1, <2>3, <2>4, OthersWait
<1>4. CASE EndPatches(p)
  <2> DEFINE a == To(p, "legacy")
             b == To(p, "transact")
             again == [a EXCEPT !.repairs = FALSE]
             ready == [b EXCEPT !.initialized = TRUE]
             wait  == To(p, "wait_lock")
  <2>1. /\ proc[p].pc = "patching" /\ proc[p].script = <<>>
        /\ UNCHANGED <<file, legacy, fileLock, writer>>
        /\ \/ Go(p, again)
           \/ Go(p, ready) /\ (proc[p].initialized \/ SchemaReady(file))
           \/ Go(p, wait)
    BY <1>4 DEF EndPatches
  <2>2. Unpatched(file) = {}
    BY <1>2, <2>1 DEF OnItsWay, Includes
  <2>3. /\ again.pc = "legacy" /\ again.script \in Seq(Statements)
        /\ again.initialized = proc[p].initialized
        /\ ready.pc = "transact" /\ ready.script \in Seq(Statements)
        /\ wait.pc = "wait_lock" /\ wait.script \in Seq(Statements)
        /\ wait.initialized = proc[p].initialized
    <3>1. /\ a.pc = "legacy" /\ a.script \in Seq(Statements) /\ IsProcess(a)
          /\ a.initialized = proc[p].initialized
          /\ b.pc = "transact" /\ b.script \in Seq(Statements) /\ IsProcess(b)
          /\ wait.pc = "wait_lock" /\ wait.script \in Seq(Statements)
          /\ wait.initialized = proc[p].initialized
      BY ToKeeps
    <3> HIDE DEF a, b, wait
    <3>2. QED
      BY <3>1 DEF IsProcess
  <2> HIDE DEF again, ready, wait
  <2>4. CASE Go(p, again)
    BY <1>1, <2>1, <2>3, <2>4, OneMoves
  <2>5. CASE Go(p, ready) /\ (proc[p].initialized \/ SchemaReady(file))
    <3>1. Complete(file)
      BY <1>2, <2>2, <2>5, ReadyAndPatched DEF ReadyInv, ReadyMeansComplete
    <3>2. OnItsWay(ready, file')
      BY <2>3 DEF OnItsWay
    <3>3. QED
      BY <1>1, <1>2, <2>1, <2>3, <2>5, <3>1, <3>2, OthersWait DEF Early
  <2>6. CASE Go(p, wait)
    <3>1. OnItsWay(wait, file')
      BY <2>1, <2>2, <2>3 DEF OnItsWay
    <3>2. QED
      BY <1>1, <1>2, <2>1, <2>3, <2>6, <3>1, OthersWait
  <2>7. QED
    BY <2>1, <2>4, <2>5, <2>6
<1>5. QED
  BY <1>3, <1>4

\* A process begins a script under the lock, or begins it again.
LEMMA ScriptBegins ==
    ASSUME ReadyInv, Inv', NEW p \in Processes, proc[p].pc \in {"wait_lock", "migrating"},
           FirstTablesTogether(file), fileLock' = p,
           fileLock = Nobody \/ fileLock = p,
           Go(p, [To(p, "migrating") EXCEPT !.script = Script(file)]),
           UNCHANGED <<file, legacy, writer>>
    PROVE  ReadyInv'
<1> DEFINE script == Script(file)
           new    == [To(p, "migrating") EXCEPT !.script = script]
<1>1. Unpatched(file) = {} /\ Grown(file) /\ Grows(file, file)
  BY DEF ReadyInv, OnItsWay, Grows
<1>2. script \in Seq(Statements) /\ WellOrdered(script) /\ Completes(script, file)
  BY <1>1, ScriptCompletes
<1>3. Go(p, new)
  OBVIOUS
<1> HIDE DEF script
<1>4. new.pc = "migrating" /\ new.script = script /\ new.initialized = proc[p].initialized
  BY ToKeeps DEF IsProcess
<1> HIDE DEF new
<1>5. OnItsWay(new, file')
  BY <1>1, <1>2, <1>4 DEF OnItsWay
<1>6. writer # p /\ \A q \in Processes : q # p => fileLock # q
  BY StorageAssumption DEF ReadyInv, StorageAssumption
<1>7. QED
  BY <1>1, <1>3, <1>4, <1>5, <1>6, OthersWait

\* The upgrade and the first schema begin in order, end complete, and are begun again.
LEMMA MigrationIsReady ==
    ASSUME ReadyInv, Inv', NEW p \in Processes,
           LockMigration(p) \/ EndMigration(p) \/ LockedOut(p)
    PROVE  ReadyInv'
<1>1. proc[p].pc # "commit" => writer # p
  BY StorageAssumption DEF ReadyInv, StorageAssumption
<1>2. Grown(file) /\ Grows(file, file) /\ OnItsWay(proc[p], file)
  BY DEF ReadyInv, Grows
<1> DEFINE a     == To(p, "transact")
           ready == [a EXCEPT !.initialized = TRUE]
<1>3. /\ ready.pc = "transact" /\ ready.script \in Seq(Statements)
      /\ OnItsWay(ready, file)
  <2>1. ready.pc = "transact" /\ ready.script \in Seq(Statements)
    <3>1. a.pc = "transact" /\ a.script \in Seq(Statements) /\ IsProcess(a)
      BY ToKeeps
    <3> HIDE DEF a
    <3>2. QED
      BY <3>1 DEF IsProcess
  <2> HIDE DEF ready
  <2>2. QED
    BY <2>1 DEF OnItsWay
<1> HIDE DEF ready
<1>4. CASE LockMigration(p)
  <2>1. /\ proc[p].pc = "wait_lock" /\ fileLock = Nobody /\ UNCHANGED <<file, legacy, writer>>
        /\ \/ SchemaReady(file) /\ Go(p, ready) /\ UNCHANGED fileLock
           \/ /\ Go(p, [To(p, "migrating") EXCEPT !.script = Script(file)])
              /\ fileLock' = p
    BY <1>4 DEF LockMigration, ready
  <2>2. FirstTablesTogether(file)
    BY <2>1, StorageAssumption DEF ReadyInv, StorageAssumption
  <2>3. CASE SchemaReady(file) /\ Go(p, ready) /\ UNCHANGED fileLock
    <3>1. Complete(file)
      BY <1>2, <2>1, <2>3, ReadyAndPatched DEF OnItsWay
    <3>2. QED
      BY <1>1, <1>2, <1>3, <2>1, <2>2, <2>3, <3>1, OthersWait DEF Early
  <2>4. CASE /\ Go(p, [To(p, "migrating") EXCEPT !.script = Script(file)])
             /\ fileLock' = p
    BY <2>1, <2>2, <2>4, ScriptBegins
  <2>5. QED
    BY <2>1, <2>3, <2>4
<1>5. CASE EndMigration(p)
  <2>1. /\ proc[p].pc = "migrating" /\ proc[p].script = <<>> /\ Go(p, ready)
        /\ fileLock' = Nobody /\ UNCHANGED <<file, legacy, writer>>
    BY <1>5 DEF EndMigration, ready
  <2>2. Complete(file)
    BY <1>2, <2>1, NothingLeft DEF OnItsWay
  <2>3. FirstTablesTogether(file)
    BY <2>2 DEF Complete, FirstTablesTogether, Tables
  <2>4. \A q \in Processes : q # p => fileLock # q
    BY <2>1 DEF ReadyInv
  <2>5. QED
    BY <1>1, <1>2, <1>3, <2>1, <2>2, <2>3, <2>4, OthersWait DEF Early
<1>6. CASE LockedOut(p)
  <2>1. writer # Nobody
    BY <1>6 DEF LockedOut, MayWrite
  <2>2. FirstTablesTogether(file)
    BY <2>1 DEF ReadyInv, FirstTablesTogether
  <2>3. CASE Fail(p)
    BY <2>2, <2>3, FailIsReady
  <2>4. CASE /\ proc[p].pc = "migrating"
             /\ Go(p, [To(p, "migrating") EXCEPT !.script = Script(file)])
             /\ UNCHANGED <<file, legacy, fileLock, writer>>
    <3>1. fileLock = p
      BY <2>4 DEF ReadyInv
    <3>2. QED
      BY <2>2, <2>4, <3>1, ScriptBegins
  <2>5. QED
    BY <1>6, <2>3, <2>4 DEF LockedOut
<1>7. QED
  BY <1>4, <1>5, <1>6

\* A committed id changes nothing but the counter.
LEMMA CommitIsReady ==
    ASSUME ReadyInv, Inv', NEW p \in Processes, Commit(p)
    PROVE  ReadyInv'
<1> DEFINE new == To(p, "idle")
           id  == proc[p].id
<1>1. /\ proc[p].pc = "commit" /\ file' = [file EXCEPT !.counter = id]
      /\ Go(p, new) /\ UNCHANGED <<legacy, fileLock>> /\ writer' = Released(writer, p)
  BY DEF Commit
<1>2. /\ new.pc = "idle" /\ new.script \in Seq(Statements)
      /\ new.initialized = proc[p].initialized
  BY ToKeeps
<1> HIDE DEF new, id
<1>3. /\ file'.kind = file.kind /\ file'.tables = file.tables /\ file'.columns = file.columns
      /\ file'.version = file.version
  BY <1>1 DEF ReadyInv, Inv, Shapes, IsFile
<1>4. Grown(file') /\ Unpatched(file') = Unpatched(file)
  BY <1>3 DEF ReadyInv, Grown, Unpatched
<1>5. Grows(file, file') /\ OnItsWay(new, file')
  BY <1>2, <1>3, <1>4 DEF Grows, OnItsWay
<1>6. writer' = Nobody \/ (writer' = writer /\ writer # p)
  BY <1>1 DEF Released
<1>7. QED
  BY <1>1, <1>2, <1>3, <1>5, <1>6, OthersWait

\* Every file there may be at first keeps the promise of its version.
LEMMA ReadyInit == Init => ReadyInv
<1> SUFFICES ASSUME Init PROVE ReadyInv
  OBVIOUS
<1>1. /\ Grown(Absent) /\ FirstTablesTogether(Absent)
  BY DEF Grown, Absent, FirstTablesTogether
<1>2. ASSUME NEW v \in OldVersions
      PROVE  Grown(Shape(v)) /\ FirstTablesTogether(Shape(v))
  <2> DEFINE f == Shape(v)
  <2>1. v \in Nat
    BY StorageAssumption DEF StorageAssumption
  <2>2. /\ f.version = v
        /\ f.tables = {"meta", "core"} \cup (IF v < 4 THEN {} ELSE {"drafts"})
                      \cup (IF v < 5 THEN {} ELSE {"inbox"}) \cup (IF v < 6 THEN {} ELSE {"queue"})
                      \cup (IF v < 11 THEN {} ELSE {"pending"})
        /\ f.columns = (IF v < 7 THEN {} ELSE {"consumer"})
                       \cup (IF v < 8 THEN {} ELSE {"org_core", "org_inbox", "org_queue"})
    BY DEF Shape
  <2> HIDE DEF f
  <2>3. f.tables \subseteq Tables /\ f.columns \subseteq Columns
    BY <2>2 DEF Tables, Columns, TableOf
  <2>4. /\ v >= 5 => "inbox" \in f.tables
        /\ v >= 6 => "queue" \in f.tables
        /\ v >= 8 => {"org_core", "org_inbox", "org_queue"} \subseteq f.columns
        /\ v >= 11 => "pending" \in f.tables
    BY <2>1, <2>2
  <2>5. v >= 12 => f.tables = Tables
    BY <2>1, <2>2 DEF Tables
  <2>6. QED
    BY <2>1, <2>2, <2>3, <2>4, <2>5 DEF Grown, FirstTablesTogether, f
<1>3. /\ Grown(file) /\ Grown(legacy) /\ FirstTablesTogether(file) /\ FirstTablesTogether(legacy)
  BY <1>1, <1>2 DEF Init
<1>4. Down.script \in Seq(Statements) /\ Down.pc = "idle" /\ Down.initialized = FALSE
  BY DEF Down
<1>5. \A p \in Processes : proc[p] = Down
  BY DEF Init
<1>6. \A p \in Processes : OnItsWay(proc[p], file)
  BY <1>4, <1>5 DEF OnItsWay
<1>7. Inv /\ writer = Nobody
  BY InitInv DEF Init
<1>8. QED
  BY <1>3, <1>4, <1>5, <1>6, <1>7 DEF ReadyInv, ReadyMeansComplete

\* The invariant is inductive.
LEMMA ReadyStep ==
    ASSUME ReadyInv, {"copy_race", "crash_in_schema"} \cap Environment = {}, [Next]_vars
    PROVE  ReadyInv'
<1>1. Inv'
  BY StepInv DEF ReadyInv
<1>2. ASSUME NEW p \in Processes, Begin(p) \/ Step(p) \/ LockedOut(p) \/ Crash(p) PROVE ReadyInv'
  BY <1>1, <1>2, BeginIsReady, CopyIsReady, PatchesAreReady, MigrationIsReady, ScriptIsReady,
     CommitIsReady DEF Step
<1>3. CASE UNCHANGED vars
  BY <1>1, <1>3 DEF vars, ReadyInv, ReadyMeansComplete
<1>4. QED
  BY <1>2, <1>3 DEF Next

\* A process that considers the database initialized (init_db) works on every table and
\* every column, whichever version it found, whoever else patched meanwhile, and wherever
\* an earlier upgrade stopped, as long as none stops between the first two tables and one
\* process is through with the copy of the legacy file before another looks for it.
THEOREM ReadyIsComplete ==
    ASSUME {"copy_race", "crash_in_schema"} \cap Environment = {}
    PROVE  Spec => []ReadyMeansComplete
<1>1. ReadyInv => ReadyMeansComplete
  BY DEF ReadyInv
<1>2. QED
  BY <1>1, ReadyInit, ReadyStep, PTL DEF Spec
=============================================================================
