------------------------------ MODULE Migrations ------------------------------
(***************************************************************************)
(* Opening a database file (migrations.py): processes of this release call *)
(* MemoryStore.init() or `migrations apply` on one file, while stores      *)
(* write to it, another program may have created it first, a newer release *)
(* may upgrade it further, and `migrations status` reads it.               *)
(*                                                                         *)
(* migrate() classifies, backs up and changes the file inside one write    *)
(* transaction; init() looks at the file once before, without a lock, and  *)
(* migration_status() never takes one.                                     *)
(*                                                                         *)
(* Data abstraction.  Rows are counted, those of the four tables that      *)
(* _db_row_count() looks at (mem) apart from those of later tables (aux).  *)
(* The journal mode, on which nothing here depends, is left out.           *)
(***************************************************************************)
EXTENDS Naturals

CONSTANTS
    Migrator,   \* processes that call init() or `migrations apply`
    Reader,     \* processes that call migration_status()
    Casts,      \* which processes take part together
    Latest,     \* CURRENT_SCHEMA_VERSION of this release
    TermsAt,    \* the migration that creates and fills the term index
    AuxAt,      \* the first migration that creates an uncounted table
    MaxRows,    \* bound on rows of each kind, for model checking
    None        \* no backup

ASSUME MigrationsAssumption ==
    /\ Latest \in Nat
    /\ TermsAt \in 2..Latest
    /\ AuxAt \in 2..Latest
    /\ MaxRows \in Nat
    /\ Migrator \cap Reader = {}
    /\ None \notin Migrator
    /\ Casts \subseteq SUBSET (Migrator \cup Reader)

VARIABLES
    db,       \* the file, as committed
    lock,     \* the migrator inside BEGIN IMMEDIATE, or None
    pc,       \* per process: its phase
    work,     \* per migrator: the file as its open transaction sees it
    next,     \* per migrator: the first version it has left to apply
    backup,   \* per migrator: the file in its complete backup, or None
    before,   \* history: per migrator: the file it upgraded, or None
    first,    \* per reader: what its first look at the tables showed
    answer,   \* per reader: the version it reports, or None
    held      \* history: per reader: the versions an accepted file has had
              \* since its query began

opening == <<db, lock, pc, work, next, backup, before>>
report == <<first, answer>>
vars == <<opening, report, held>>

-----------------------------------------------------------------------------
\* history: schema_migrations holds the versions 1..history, or does not exist;
\* objects: the tables, columns and indexes of versions 1..objects are there.
\* Without history, objects = 1 is the Batch 4 schema; altered: neither.
Shape == {"none", "platform", "altered", "legacy", "other"}

File == [shape : Shape,
         history : 0..Latest + 1, objects : 0..Latest + 1,
         mem : Nat, indexed : Nat, aux : Nat]

ASSUME NoneAssumption == None \notin File

MigratorPc == {"absent", "idle", "detect", "begin", "classify", "backup", "apply",
               "wal", "ready", "refused", "failed"}
Querying == {"tables", "rows", "baseline", "columns", "rest"}
ReaderPc == {"absent", "idle", "reported", "refused"} \cup Querying

TypeOK ==
    /\ db \in File
    /\ lock \in Migrator \cup {None}
    /\ pc \in [Migrator \cup Reader -> MigratorPc \cup ReaderPc]
    /\ work \in [Migrator -> File]
    /\ next \in [Migrator -> 1..Latest + 1]
    /\ backup \in [Migrator -> File \cup {None}]
    /\ before \in [Migrator -> File \cup {None}]
    /\ first \in [Reader -> Shape]
    /\ answer \in [Reader -> 0..Latest \cup {None}]
    /\ held \in [Reader -> SUBSET (0..Latest)]

\* Before anything of this release touches it, the file is missing or empty,
\* belongs to the old simple API or to another program, has the Batch 4
\* tables with or without alterations, or was left by some release.
Image(shape, history, objects, mem, aux) ==
    [shape |-> shape, history |-> history, objects |-> objects,
     mem |-> mem, indexed |-> IF objects >= TermsAt THEN mem ELSE 0, aux |-> aux]

Init ==
    /\ db \in {Image(shape, 0, 0, 0, 0) : shape \in {"none", "altered", "legacy", "other"}}
              \cup {Image("platform", 0, 1, m, 0) : m \in 0..MaxRows}
              \cup {Image("platform", v, v, m, 0) : v \in 1..Latest + 1, m \in 0..MaxRows}
    /\ lock = None
    /\ \E cast \in Casts :
          pc = [p \in Migrator \cup Reader |->
                   IF p \in cast THEN "idle" ELSE "absent"]
    /\ work = [m \in Migrator |-> db]
    /\ next = [m \in Migrator |-> 1]
    /\ backup = [m \in Migrator |-> None]
    /\ before = [m \in Migrator |-> None]
    /\ first = [r \in Reader |-> "none"]
    /\ answer = [r \in Reader |-> None]
    /\ held = [r \in Reader |-> {}]

Goto(p, phase) == pc' = [pc EXCEPT ![p] = phase]
At(p, phase) == pc[p] = phase

-----------------------------------------------------------------------------
(***************************************************************************)
(* MemoryStore.init() and migrate().                                       *)
(***************************************************************************)
Start(m) ==
    /\ At(m, "idle")
    /\ \E phase \in {"detect", "begin"} : Goto(m, phase)
    /\ UNCHANGED <<db, lock, work, next, backup, before>>

\* init() refuses a file of the simple API or of another program unlocked.
Detect(m) ==
    /\ At(m, "detect")
    /\ Goto(m, IF db.shape \in {"legacy", "other"} THEN "refused" ELSE "begin")
    /\ UNCHANGED <<db, lock, work, next, backup, before>>

BeginDeferred(m) ==
    /\ At(m, "begin")
    /\ work' = [work EXCEPT ![m] = db]
    /\ Goto(m, "classify")
    /\ UNCHANGED <<db, lock, next, backup, before>>

Begin(m) ==
    /\ At(m, "begin")
    /\ lock = None
    /\ lock' = m
    /\ work' = [work EXCEPT ![m] = db]
    /\ Goto(m, "classify")
    /\ UNCHANGED <<db, next, backup, before>>

AcceptedAsDetected(file) ==
    /\ file.history <= Latest
    /\ file.shape # "altered"

\* _classify_for_migrate: a valid history up to a known version, an empty
\* file, or the exact Batch 4 schema.
Accepted(file) ==
    /\ file.history <= Latest
    /\ file.shape \in {"none", "platform"}

RefuseLocked(m) ==
    /\ At(m, "classify")
    /\ ~Accepted(work[m])
    /\ Goto(m, "refused")
    /\ UNCHANGED <<db, lock, work, next, backup, before>>

Refuse(m) ==
    /\ At(m, "classify")
    /\ ~Accepted(work[m])
    /\ lock' = None
    /\ Goto(m, "refused")
    /\ UNCHANGED <<db, work, next, backup, before>>

NothingPending(m) ==
    /\ At(m, "classify")
    /\ Accepted(work[m])
    /\ work[m].history >= Latest
    /\ lock' = None
    /\ Goto(m, "wal")
    /\ UNCHANGED <<db, work, next, backup, before>>

\* Nonempty is what _db_row_count() counts.
Pending(m) ==
    /\ At(m, "classify")
    /\ Accepted(work[m])
    /\ work[m].history < Latest
    /\ next' = [next EXCEPT ![m] = work[m].history + 1]
    /\ Goto(m, IF work[m].mem > 0 THEN "backup" ELSE "apply")
    /\ UNCHANGED <<db, lock, work, backup, before>>

\* A second connection copies the committed file.
Backup(m) ==
    /\ At(m, "backup")
    /\ backup' = [backup EXCEPT ![m] = db]
    /\ Goto(m, "apply")
    /\ UNCHANGED <<db, lock, work, next, before>>

StepNoBackfill(file, v) ==
    [shape |-> "platform", history |-> v,
     objects |-> IF v > file.objects THEN v ELSE file.objects,
     mem |-> file.mem, indexed |-> file.indexed, aux |-> file.aux]

\* One migration: its objects (created unless they exist, as those of an
\* adopted Batch 4 file) and its row in schema_migrations, which user_version
\* mirrors.
Step(file, v) ==
    [shape |-> "platform", history |-> v,
     objects |-> IF v > file.objects THEN v ELSE file.objects,
     mem |-> file.mem,
     indexed |-> IF v = TermsAt THEN file.mem ELSE file.indexed,
     aux |-> file.aux]

ApplyPastLatest(m) ==
    /\ At(m, "apply")
    /\ next[m] > work[m].history
    /\ work' = [work EXCEPT ![m] = Step(work[m], next[m])]
    /\ next' = [next EXCEPT ![m] = next[m] + 1]
    /\ UNCHANGED <<db, lock, pc, backup, before>>

Apply(m) ==
    /\ At(m, "apply")
    /\ next[m] <= Latest
    /\ next[m] > work[m].history
    /\ work' = [work EXCEPT ![m] = Step(work[m], next[m])]
    /\ next' = [next EXCEPT ![m] = next[m] + 1]
    /\ UNCHANGED <<db, lock, pc, backup, before>>

Commit(m) ==
    /\ At(m, "apply")
    /\ next[m] > Latest
    /\ db' = work[m]
    /\ before' = [before EXCEPT ![m] = db]
    /\ lock' = None
    /\ Goto(m, "wal")
    /\ UNCHANGED <<work, next, backup>>

\* _enable_wal_if_file and _checkpoint_wal swallow their errors.
EnableWal(m) ==
    /\ At(m, "wal")
    /\ Goto(m, "ready")
    /\ UNCHANGED <<db, lock, work, next, backup, before>>

\* The lock is not granted in time, a statement fails, or the process ends.
Fail(m) ==
    /\ pc[m] \in {"detect", "begin", "classify", "backup", "apply", "wal"}
    /\ lock' = IF lock = m THEN None ELSE lock
    /\ Goto(m, "failed")
    /\ UNCHANGED <<db, work, next, backup, before>>

-----------------------------------------------------------------------------
(***************************************************************************)
(* migration_status(), on a read-only connection that opens no             *)
(* transaction: each query sees the file as it is by then.                 *)
(***************************************************************************)
readOnly == <<db, lock, work, next, backup, before>>

Report(r, version) ==
    /\ Goto(r, "reported")
    /\ answer' = [answer EXCEPT ![r] = version]

GoOn(r, phase) == Goto(r, phase) /\ UNCHANGED answer

\* There is no file, or an empty one.
FindEmpty(r) ==
    /\ At(r, "idle")
    /\ db.shape = "none"
    /\ Report(r, 0)
    /\ UNCHANGED <<first, readOnly>>

\* The first _table_names(), which is remembered.
ReadTables(r) ==
    /\ At(r, "idle")
    /\ first' = [first EXCEPT ![r] = db.shape]
    /\ GoOn(r, "tables")
    /\ UNCHANGED readOnly

\* The second, of _read_migration_rows().  Without a schema_migrations by now,
\* what the first one showed decides.
ReadHistory(r) ==
    /\ At(r, "tables")
    /\ \/ db.history > 0 /\ GoOn(r, "rows")
       \/ /\ db.history = 0
          /\ \/ first[r] = "none" /\ Report(r, 0)
             \/ first[r] \in {"platform", "altered"} /\ GoOn(r, "baseline")
             \/ first[r] \in {"legacy", "other"} /\ GoOn(r, "refused")
    /\ UNCHANGED <<first, readOnly>>

ReadRows(r) ==
    /\ At(r, "rows")
    /\ \/ db.history > Latest /\ GoOn(r, "refused")
       \/ db.history <= Latest /\ Report(r, db.history)
    /\ UNCHANGED <<first, readOnly>>

FourTables == db.shape = "altered" \/ db.history = 0

ReadBaselineNames(r) ==
    /\ At(r, "baseline")
    /\ \/ FourTables /\ Report(r, 0)
       \/ (db.shape = "altered" \/ ~FourTables) /\ GoOn(r, "refused")
    /\ UNCHANGED <<first, readOnly>>

\* _is_exact_batch4_baseline: a third _table_names(), then the columns of
\* memory_messages (which migration 2 extends), and then the other columns and
\* the indexes (which no migration takes away).  Altered tables fail one of the
\* three.
ReadBaseline(r) ==
    /\ At(r, "baseline")
    /\ \/ FourTables /\ GoOn(r, "columns")
       \/ (db.shape = "altered" \/ ~FourTables) /\ GoOn(r, "refused")
    /\ UNCHANGED <<first, readOnly>>

ReadColumns(r) ==
    /\ At(r, "columns")
    /\ \/ (db.shape = "altered" \/ db.objects < 2) /\ GoOn(r, "rest")
       \/ (db.shape = "altered" \/ db.objects >= 2) /\ GoOn(r, "refused")
    /\ UNCHANGED <<first, readOnly>>

ReadRest(r) ==
    /\ At(r, "rest")
    /\ \/ db.shape = "altered" /\ GoOn(r, "refused")
       \/ db.shape # "altered" /\ Report(r, 0)
    /\ UNCHANGED <<first, readOnly>>

-----------------------------------------------------------------------------
(***************************************************************************)
(* Others that use the file.                                               *)
(***************************************************************************)
otherOnly == <<lock, pc, work, next, backup, before>>

\* insert_messages() writes the term rows with the message.
WithMessage(file) ==
    [shape |-> file.shape, history |-> file.history, objects |-> file.objects,
     mem |-> file.mem + 1,
     indexed |-> IF file.objects >= TermsAt THEN file.indexed + 1 ELSE file.indexed,
     aux |-> file.aux]

\* A store inserts a row: one of this release after its init(), or one of an
\* earlier release until the file is upgraded.
Insert ==
    /\ lock = None
    /\ db.shape = "platform"
    /\ db.history < Latest \/ \E m \in Migrator : At(m, "ready")
    /\ \/ /\ db.mem < MaxRows
          /\ db' = WithMessage(db)
       \/ /\ db.objects >= AuxAt
          /\ db.aux < MaxRows
          /\ db' = [db EXCEPT !.aux = @ + 1]
    /\ UNCHANGED otherOnly

\* The simple API or another program creates its tables in an empty file.
OtherProgram ==
    /\ lock = None
    /\ db.shape = "none"
    /\ \E shape \in {"legacy", "other"} : db' = [db EXCEPT !.shape = shape]
    /\ UNCHANGED otherOnly

\* A release with one more migration opens the file.
NewerRelease ==
    /\ lock = None
    /\ Accepted(db)
    /\ db' = [Step(db, Latest + 1) EXCEPT !.indexed = db.mem]
    /\ UNCHANGED otherOnly

-----------------------------------------------------------------------------
Opening(m) ==
    \/ Detect(m)
    \/ Begin(m)
    \/ Refuse(m)
    \/ NothingPending(m)
    \/ Pending(m)
    \/ Backup(m)
    \/ Apply(m)
    \/ Commit(m)
    \/ EnableWal(m)

MigratorStep(m) == Start(m) \/ Opening(m) \/ Fail(m)

ReaderStep(r) ==
    \/ FindEmpty(r)
    \/ ReadTables(r)
    \/ ReadHistory(r)
    \/ ReadRows(r)
    \/ ReadBaseline(r)
    \/ ReadColumns(r)
    \/ ReadRest(r)

Verdict(file) == IF Accepted(file) THEN {file.history} ELSE {}

Watch ==
    held' = [r \in Reader |->
                IF pc'[r] \in Querying THEN held[r] \cup Verdict(db') ELSE {}]

Next ==
    /\ \/ /\ \/ \E m \in Migrator : MigratorStep(m)
             \/ Insert
             \/ OtherProgram
             \/ NewerRelease
          /\ UNCHANGED report
       \/ \E r \in Reader : ReaderStep(r)
    /\ Watch

\* A process that has begun to open the file goes on until it ends.  Nobody
\* has to begin, to fail, or to use the file otherwise.
Fairness == \A m \in Migrator : WF_opening(Opening(m))

Spec == Init /\ [][Next]_vars /\ Fairness

-----------------------------------------------------------------------------
\* Every upgrade of a file with rows in the counted tables leaves a complete
\* backup that holds exactly the file the upgrade replaced, and only upgrades
\* leave one: a migrator that ends well and finds the work done by another has
\* made none, so that concurrent openers of one old file make one.
UpgradeBackedUp ==
    \A m \in Migrator :
        /\ before[m] # None /\ before[m].mem > 0 => backup[m] = before[m]
        /\ pc[m] \in {"wal", "ready"} /\ backup[m] # None => before[m] # None

\* Every message is in the term index of a file that has one, also those that
\* were inserted while the upgrade was waiting for the lock.
IndexComplete == db.objects >= TermsAt => db.indexed = db.mem

\* A file of the simple API, of another program, or with altered tables is
\* never changed, even one that appears after init() found the path empty.
ForeignUntouched == [][db.shape \in {"altered", "legacy", "other"} => db' = db]_db

\* init() goes through only on a file it leaves at this release's version, so
\* never on one that a newer release has upgraded in the meantime.
EndsAtLatest ==
    [][\A m \in Migrator : lock = m /\ pc'[m] = "wal" => db'.history = Latest]_vars

\* Each query of migration_status() may see another file.  Whatever upgrades,
\* creations and newer releases fall between them, the version it reports is
\* one that the file, acceptable to migrate(), had at some moment of the call.
\* (The converse does not hold: a call that overlaps an upgrade may refuse a
\* good file.)
StatusAgrees ==
    [][\A r \in Reader :
          pc'[r] = "reported" /\ pc[r] # "reported"
          => answer'[r] \in held[r] \cup Verdict(db)]_vars

\* Whoever begins to open the file ends, ready, refused or with an error: no
\* way out of migrate() keeps the lock that the others wait for.
Opens ==
    \A m \in Migrator : pc[m] \in {"detect", "begin"}
                            ~> pc[m] \in {"ready", "refused", "failed"}
=============================================================================
