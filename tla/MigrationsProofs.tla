--------------------------- MODULE MigrationsProofs ---------------------------
(***************************************************************************)
(* Proofs about Migrations for any number of migrators and readers, any    *)
(* number of migrations and any number of rows.                            *)
(*                                                                         *)
(* The argument: whoever classifies, backs up or applies holds the lock,   *)
(* so the committed file is the one it classified and copied, and the one  *)
(* its commit replaces.                                                    *)
(***************************************************************************)
EXTENDS Migrations, TLAPS

Working(m) == pc[m] \in {"classify", "backup", "apply"}

Fresh(m) == pc[m] \in {"idle", "detect", "begin", "classify"}

Locked == \A m \in Migrator : Working(m) <=> lock = m

FileTypes ==
    /\ db \in File
    /\ lock \in Migrator \cup {None}
    /\ pc \in [Migrator \cup Reader -> MigratorPc \cup ReaderPc]
    /\ work \in [Migrator -> File]
    /\ next \in [Migrator -> 1..Latest + 1]
    /\ backup \in [Migrator -> File \cup {None}]
    /\ before \in [Migrator -> File \cup {None}]

\* Shape, history, objects and term index of one file agree.
FileOK(file) ==
    /\ file.history > 0 => file.shape = "platform"
    /\ file.history > 0 => file.objects = file.history
    /\ file.history = 0 => file.objects <= 1
    /\ file.objects >= TermsAt => file.indexed = file.mem

WorkOK(m) ==
    /\ pc[m] \in {"classify", "backup"} => work[m] = db
    /\ pc[m] \in {"backup", "apply"} => Accepted(db)
    /\ pc[m] = "backup" => work[m].history < Latest
    /\ pc[m] \in {"backup", "apply"} => next[m] = work[m].history + 1
    /\ pc[m] = "apply" => /\ FileOK(work[m])
                          /\ work[m].mem = db.mem
                          /\ db.mem > 0 => backup[m] = db

HistoryOK(m) ==
    /\ Fresh(m) => backup[m] = None
    /\ Fresh(m) \/ Working(m) => before[m] = None
    /\ before[m] # None /\ before[m].mem > 0 => backup[m] = before[m]
    /\ pc[m] \in {"wal", "ready"} /\ backup[m] # None => before[m] # None

Inv ==
    /\ FileTypes
    /\ Locked
    /\ FileOK(db)
    /\ \A m \in Migrator : WorkOK(m)
    /\ \A m \in Migrator : HistoryOK(m)

-----------------------------------------------------------------------------
\* What a step makes of a file, field by field.
LEMMA StepFields ==
    ASSUME NEW file \in File, NEW v \in 1..Latest + 1
    PROVE  LET new == Step(file, v)
           IN  /\ new \in File
               /\ new.shape = "platform"
               /\ new.history = v
               /\ new.objects = IF v > file.objects THEN v ELSE file.objects
               /\ new.mem = file.mem
               /\ new.indexed = IF v = TermsAt THEN file.mem ELSE file.indexed
<1>1. Latest \in Nat
  BY MigrationsAssumption
<1>2. Step(file, v) \in File
  BY <1>1 DEF Step, File, Shape
<1>3. QED
  BY <1>2 DEF Step, File

\* The next step keeps a file's history, objects and index in agreement, and
\* its rows.
LEMMA StepOK ==
    ASSUME NEW file \in File, FileOK(file), file.history < Latest
    PROVE  LET new == Step(file, file.history + 1)
           IN  /\ new \in File
               /\ FileOK(new)
               /\ new.history = file.history + 1
               /\ new.mem = file.mem
<1>1. Latest \in Nat /\ TermsAt \in 2..Latest
  BY MigrationsAssumption
<1>2. file.history \in 0..Latest + 1 /\ file.objects \in 0..Latest + 1
  BY DEF File
<1>3. file.history + 1 \in 1..Latest + 1
  BY <1>1, <1>2
<1>4. DEFINE new == Step(file, file.history + 1)
<1>5. /\ new \in File
      /\ new.shape = "platform"
      /\ new.history = file.history + 1
      /\ new.objects = IF file.history + 1 > file.objects
                       THEN file.history + 1 ELSE file.objects
      /\ new.mem = file.mem
      /\ new.indexed = IF file.history + 1 = TermsAt
                       THEN file.mem ELSE file.indexed
  BY <1>3, StepFields
<1> HIDE DEF new
<1>6. FileOK(new)
  BY <1>1, <1>2, <1>5 DEF FileOK
<1>7. QED
  BY <1>5, <1>6 DEF new

\* So do all the steps of a newer release together.
LEMMA NewerOK ==
    ASSUME NEW file \in File
    PROVE  LET new == [Step(file, Latest + 1) EXCEPT !.indexed = file.mem]
           IN  /\ new \in File
               /\ FileOK(new)
<1>1. Latest \in Nat /\ TermsAt \in 2..Latest
  BY MigrationsAssumption
<1>2. file.objects \in 0..Latest + 1 /\ file.mem \in Nat
  BY DEF File
<1>3. DEFINE step == Step(file, Latest + 1)
<1>4. /\ step \in File
      /\ step.shape = "platform"
      /\ step.history = Latest + 1
      /\ step.objects = Latest + 1
      /\ step.mem = file.mem
  <2>1. Latest + 1 \in 1..Latest + 1
    BY <1>1
  <2>2. /\ step \in File
        /\ step.shape = "platform"
        /\ step.history = Latest + 1
        /\ step.objects = IF Latest + 1 > file.objects
                          THEN Latest + 1 ELSE file.objects
        /\ step.mem = file.mem
    BY <2>1, StepFields
  <2> HIDE DEF step
  <2>3. QED
    BY <1>1, <1>2, <2>2
<1> HIDE DEF step
<1>5. DEFINE new == [step EXCEPT !.indexed = file.mem]
<1>6. /\ new \in File
      /\ new.shape = "platform"
      /\ new.history = Latest + 1
      /\ new.objects = Latest + 1
      /\ new.mem = file.mem
      /\ new.indexed = file.mem
  BY <1>2, <1>4 DEF File
<1> HIDE DEF new
<1>7. FileOK(new)
  BY <1>1, <1>6 DEF FileOK
<1>8. QED
  BY <1>6, <1>7 DEF new, step

\* The states the program can start from satisfy the invariant.
LEMMA InitInv == Init => Inv
<1> SUFFICES ASSUME Init PROVE Inv
  OBVIOUS
<1>1. /\ Latest \in Nat
      /\ TermsAt \in 2..Latest
      /\ MaxRows \in Nat
      /\ Migrator \cap Reader = {}
      /\ None \notin Migrator
  BY MigrationsAssumption
<1>2. db \in File /\ FileOK(db)
  <2>1. CASE \E shape \in {"none", "altered", "legacy", "other"} :
                db = Image(shape, 0, 0, 0, 0)
    BY <1>1, <2>1 DEF Image, File, Shape, FileOK
  <2>2. CASE \E r \in 0..MaxRows : db = Image("platform", 0, 1, r, 0)
    BY <1>1, <2>2 DEF Image, File, Shape, FileOK
  <2>3. CASE \E v \in 1..Latest + 1, r \in 0..MaxRows :
                db = Image("platform", v, v, r, 0)
    BY <1>1, <2>3 DEF Image, File, Shape, FileOK
  <2>4. QED
    BY <2>1, <2>2, <2>3 DEF Init
<1>3. pc \in [Migrator \cup Reader -> {"absent", "idle"}]
  <2>1. PICK cast \in Casts :
           pc = [p \in Migrator \cup Reader |->
                    IF p \in cast THEN "idle" ELSE "absent"]
    BY DEF Init
  <2>2. QED
    BY <2>1
<1>4. FileTypes
  BY <1>1, <1>2, <1>3 DEF Init, FileTypes, MigratorPc, ReaderPc, Querying
<1>5. Locked
  BY <1>1, <1>3 DEF Init, Locked, Working
<1>6. \A m \in Migrator : WorkOK(m) /\ HistoryOK(m)
  BY <1>3 DEF Init, WorkOK, HistoryOK, Fresh, Working
<1>7. QED
  BY <1>2, <1>4, <1>5, <1>6 DEF Inv

-----------------------------------------------------------------------------
(***************************************************************************)
(* One lemma per group of actions.                                         *)
(***************************************************************************)

\* Phases in which a migrator does not hold the lock, on a file nobody changes.
LEMMA UnlockedInv ==
    ASSUME Inv, NEW m \in Migrator, Start(m) \/ Detect(m) \/ EnableWal(m)
    PROVE  Inv'
<1> USE DEF Inv, Start, Detect, EnableWal, Goto, At
<1>1. m \notin Reader
  BY MigrationsAssumption
<1>2. FileTypes'
  BY <1>1 DEF FileTypes, MigratorPc, ReaderPc, Querying
<1>3. Locked'
  BY DEF Locked, Working, FileTypes
<1>4. FileOK(db)'
  BY DEF FileOK
<1>5. ASSUME NEW n \in Migrator PROVE WorkOK(n)' /\ HistoryOK(n)'
  <2>1. WorkOK(n) /\ HistoryOK(n)
    OBVIOUS
  <2>2. CASE n = m
    BY <2>1, <2>2 DEF WorkOK, HistoryOK, Fresh, Working, FileTypes
  <2>3. CASE n # m
    BY <2>1, <2>3 DEF WorkOK, HistoryOK, Fresh, Working, FileTypes, FileOK, Accepted
  <2>4. QED
    BY <2>2, <2>3
<1>6. QED
  BY <1>2, <1>3, <1>4, <1>5

\* A migrator takes the lock: what it classifies is the committed file.
LEMMA BeginInv == ASSUME Inv, NEW m \in Migrator, Begin(m) PROVE Inv'
<1> USE DEF Inv, Begin, Goto, At
<1>1. m \notin Reader /\ None \notin Migrator
  BY MigrationsAssumption
<1>2. FileTypes'
  BY <1>1 DEF FileTypes, MigratorPc, ReaderPc, Querying
<1>3. Locked'
  BY <1>1 DEF Locked, Working, FileTypes
<1>4. FileOK(db)'
  BY DEF FileOK
<1>5. ASSUME NEW n \in Migrator PROVE WorkOK(n)' /\ HistoryOK(n)'
  <2>1. WorkOK(n) /\ HistoryOK(n)
    OBVIOUS
  <2>2. CASE n = m
    BY <2>1, <2>2 DEF WorkOK, HistoryOK, Fresh, Working, FileTypes
  <2>3. CASE n # m
    BY <2>1, <2>3 DEF WorkOK, HistoryOK, Fresh, Working, FileTypes, FileOK, Accepted
  <2>4. QED
    BY <2>2, <2>3
<1>6. QED
  BY <1>2, <1>3, <1>4, <1>5

\* The transaction ends without a change to the file, or without having begun.
LEMMA EndInv ==
    ASSUME Inv, NEW m \in Migrator, Refuse(m) \/ NothingPending(m) \/ Fail(m)
    PROVE  Inv'
<1> USE DEF Inv, Refuse, NothingPending, Fail, Goto, At
<1>1. m \notin Reader /\ None \notin Migrator
  BY MigrationsAssumption
<1>2. FileTypes'
  BY <1>1 DEF FileTypes, MigratorPc, ReaderPc, Querying
<1>3. Locked'
  BY <1>1 DEF Locked, Working, FileTypes
<1>4. FileOK(db)'
  BY DEF FileOK
<1>5. ASSUME NEW n \in Migrator PROVE WorkOK(n)' /\ HistoryOK(n)'
  <2>1. WorkOK(n) /\ HistoryOK(n)
    OBVIOUS
  <2>2. CASE n = m
    BY <2>1, <2>2 DEF WorkOK, HistoryOK, Fresh, Working, FileTypes
  <2>3. CASE n # m
    BY <2>1, <2>3 DEF WorkOK, HistoryOK, Fresh, Working, FileTypes, FileOK, Accepted
  <2>4. QED
    BY <2>2, <2>3
<1>6. QED
  BY <1>2, <1>3, <1>4, <1>5

\* There is work to do: the migrator goes on to the backup or to the first step.
LEMMA PendingInv == ASSUME Inv, NEW m \in Migrator, Pending(m) PROVE Inv'
<1> USE DEF Inv, Pending, Goto, At
<1>1. m \notin Reader /\ Latest \in Nat
  BY MigrationsAssumption
<1>2. work[m] = db /\ db \in File /\ db.history \in 0..Latest + 1 /\ db.mem \in Nat
  BY DEF WorkOK, FileTypes, File
<1>3. FileTypes'
  <2>1. work[m].history + 1 \in 1..Latest + 1
    BY <1>1, <1>2
  <2>2. QED
    BY <1>1, <2>1 DEF FileTypes, MigratorPc, ReaderPc, Querying
<1>4. Locked'
  BY DEF Locked, Working, FileTypes
<1>5. FileOK(db)'
  BY DEF FileOK
<1>6. ASSUME NEW n \in Migrator PROVE WorkOK(n)' /\ HistoryOK(n)'
  <2>1. WorkOK(n) /\ HistoryOK(n)
    OBVIOUS
  <2>2. CASE n = m
    BY <1>2, <2>1, <2>2 DEF WorkOK, HistoryOK, Fresh, Working, FileTypes, FileOK, Accepted
  <2>3. CASE n # m
    BY <2>1, <2>3 DEF WorkOK, HistoryOK, Fresh, Working, FileTypes, FileOK, Accepted
  <2>4. QED
    BY <2>2, <2>3
<1>7. QED
  BY <1>3, <1>4, <1>5, <1>6

\* The backup is the committed file, which is the file to be upgraded.
LEMMA BackupInv == ASSUME Inv, NEW m \in Migrator, Backup(m) PROVE Inv'
<1> USE DEF Inv, Backup, Goto, At
<1>1. m \notin Reader
  BY MigrationsAssumption
<1>2. FileTypes'
  BY <1>1 DEF FileTypes, MigratorPc, ReaderPc, Querying
<1>3. Locked'
  BY DEF Locked, Working, FileTypes
<1>4. FileOK(db)'
  BY DEF FileOK
<1>5. ASSUME NEW n \in Migrator PROVE WorkOK(n)' /\ HistoryOK(n)'
  <2>1. WorkOK(n) /\ HistoryOK(n)
    OBVIOUS
  <2>2. CASE n = m
    BY <2>1, <2>2 DEF WorkOK, HistoryOK, Fresh, Working, FileTypes, FileOK, Accepted
  <2>3. CASE n # m
    BY <2>1, <2>3 DEF WorkOK, HistoryOK, Fresh, Working, FileTypes, FileOK, Accepted
  <2>4. QED
    BY <2>2, <2>3
<1>6. QED
  BY <1>2, <1>3, <1>4, <1>5

\* A step changes the transaction's own view only.
LEMMA ApplyInv == ASSUME Inv, NEW m \in Migrator, Apply(m) PROVE Inv'
<1> USE DEF Inv, Apply, At
<1>1. Latest \in Nat
  BY MigrationsAssumption
<1>2. /\ work[m] \in File
      /\ work[m].history \in 0..Latest + 1
      /\ FileOK(work[m])
      /\ next[m] = work[m].history + 1
      /\ work[m].history < Latest
  BY <1>1 DEF WorkOK, FileTypes, File
<1>3. DEFINE new == Step(work[m], next[m])
<1>4. /\ new \in File
      /\ FileOK(new)
      /\ new.history = next[m]
      /\ new.mem = work[m].mem
  BY <1>2, StepOK
<1> HIDE DEF new
<1>5. work' = [work EXCEPT ![m] = new]
  BY DEF new
<1>6. next[m] + 1 \in 1..Latest + 1
  BY <1>1, <1>2
<1>7. FileTypes'
  BY <1>4, <1>5, <1>6 DEF FileTypes
<1>8. Locked'
  BY DEF Locked, Working
<1>9. FileOK(db)'
  BY DEF FileOK
<1>10. ASSUME NEW n \in Migrator PROVE WorkOK(n)' /\ HistoryOK(n)'
  <2>1. WorkOK(n) /\ HistoryOK(n)
    OBVIOUS
  <2>2. CASE n = m
    <3>1. work'[m] = new /\ next'[m] = next[m] + 1
      BY <1>5 DEF FileTypes
    <3>2. WorkOK(n)'
      BY <1>4, <2>1, <2>2, <3>1 DEF WorkOK, Accepted, FileOK
    <3>3. HistoryOK(n)'
      BY <2>1 DEF HistoryOK, Fresh, Working
    <3>4. QED
      BY <3>2, <3>3
  <2>3. CASE n # m
    BY <1>5, <2>1, <2>3 DEF WorkOK, HistoryOK, Fresh, Working, FileTypes, FileOK, Accepted
  <2>4. QED
    BY <2>2, <2>3
<1>11. QED
  BY <1>7, <1>8, <1>9, <1>10

\* The commit replaces the file the migrator copied.
LEMMA CommitInv == ASSUME Inv, NEW m \in Migrator, Commit(m) PROVE Inv'
<1> USE DEF Inv, Commit, Goto, At
<1>1. m \notin Reader /\ None \notin Migrator
  BY MigrationsAssumption
<1>2. WorkOK(m) /\ HistoryOK(m) /\ lock = m
  BY DEF Locked, Working
<1>3. FileTypes'
  BY <1>1 DEF FileTypes, MigratorPc, ReaderPc, Querying
<1>4. Locked'
  BY <1>1 DEF Locked, Working, FileTypes
<1>5. FileOK(db)'
  BY <1>2 DEF FileOK, WorkOK
<1>6. ASSUME NEW n \in Migrator PROVE WorkOK(n)' /\ HistoryOK(n)'
  <2>1. WorkOK(n) /\ HistoryOK(n)
    OBVIOUS
  <2>2. CASE n = m
    <3>1. before'[m] = db /\ pc'[m] = "wal" /\ backup'[m] = backup[m]
      BY <1>1 DEF FileTypes
    <3>2. backup[m] # None => db # None
      BY NoneAssumption DEF FileTypes
    <3>3. WorkOK(n)'
      BY <2>2, <3>1 DEF WorkOK
    <3>4. HistoryOK(n)'
      BY <1>2, <2>2, <3>1, <3>2 DEF HistoryOK, WorkOK, Fresh, Working
    <3>5. QED
      BY <3>3, <3>4
  <2>3. CASE n # m
    <3>1. pc'[n] = pc[n] /\ before'[n] = before[n] /\ ~Working(n)
      BY <1>2, <2>3 DEF FileTypes, Locked
    <3>2. WorkOK(n)'
      BY <3>1 DEF WorkOK, Working
    <3>3. HistoryOK(n)'
      BY <2>1, <3>1 DEF HistoryOK, Fresh, Working
    <3>4. QED
      BY <3>2, <3>3
  <2>4. QED
    BY <2>2, <2>3
<1>7. QED
  BY <1>3, <1>4, <1>5, <1>6

\* A status query changes nothing but its own phase.
LEMMA ReaderInv == ASSUME Inv, NEW r \in Reader, ReaderStep(r) PROVE Inv'
<1> USE DEF Inv, ReaderStep, FindEmpty, ReadTables, ReadHistory, ReadRows,
            ReadBaseline, ReadColumns, ReadRest, Report, GoOn, readOnly, Goto, At
<1>1. r \notin Migrator
  BY MigrationsAssumption
<1>2. \A m \in Migrator : pc'[m] = pc[m]
  BY <1>1 DEF FileTypes
<1>3. FileTypes'
  BY DEF FileTypes, MigratorPc, ReaderPc, Querying
<1>4. Locked' /\ FileOK(db)'
  BY <1>2 DEF Locked, Working, FileOK
<1>5. \A m \in Migrator : WorkOK(m)' /\ HistoryOK(m)'
  BY <1>2 DEF WorkOK, HistoryOK, Fresh, Working, FileOK, Accepted
<1>6. QED
  BY <1>3, <1>4, <1>5

\* Others change the file only while no migrator holds the lock.
LEMMA OtherInv ==
    ASSUME Inv, Insert \/ OtherProgram \/ NewerRelease
    PROVE  Inv'
<1> USE DEF Inv
<1>1. /\ Latest \in Nat
      /\ TermsAt \in 2..Latest
      /\ None \notin Migrator
  BY MigrationsAssumption
<1>2. lock = None /\ UNCHANGED otherOnly
  BY DEF Insert, OtherProgram, NewerRelease
<1>3. \A m \in Migrator : ~Working(m)
  BY <1>1, <1>2 DEF Locked
<1>4. db' \in File /\ FileOK(db)'
  <2>1. CASE Insert
    <3>1. db \in File /\ FileOK(db)
      BY DEF FileTypes
    <3>2. CASE db' = WithMessage(db)
      BY <1>1, <3>1, <3>2 DEF WithMessage, File, FileOK
    <3>3. CASE db' = [db EXCEPT !.aux = @ + 1]
      BY <1>1, <3>1, <3>3 DEF File, FileOK
    <3>4. QED
      BY <2>1, <3>2, <3>3 DEF Insert
  <2>2. CASE OtherProgram
    BY <1>1, <2>2 DEF OtherProgram, FileTypes, File, Shape, FileOK
  <2>3. CASE NewerRelease
    BY <2>3, NewerOK DEF NewerRelease, FileTypes
  <2>4. QED
    BY <2>1, <2>2, <2>3
<1>5. FileTypes' /\ Locked'
  BY <1>2, <1>4 DEF FileTypes, Locked, Working, otherOnly
<1>6. \A m \in Migrator : WorkOK(m)' /\ HistoryOK(m)'
  BY <1>2, <1>3 DEF WorkOK, HistoryOK, Fresh, Working, otherOnly
<1>7. QED
  BY <1>4, <1>5, <1>6

-----------------------------------------------------------------------------
\* The invariant of those who open the file holds in every reachable state.
THEOREM Invariance == Spec => []Inv
<1>1. Init => Inv
  BY InitInv
<1>2. Inv /\ [Next]_vars => Inv'
  <2> SUFFICES ASSUME Inv, [Next]_vars PROVE Inv'
    OBVIOUS
  <2>1. CASE UNCHANGED vars
    BY <2>1 DEF Inv, vars, opening, FileTypes, Locked, Working, FileOK, WorkOK, HistoryOK,
                Fresh, Accepted
  <2>2. ASSUME NEW m \in Migrator, MigratorStep(m) PROVE Inv'
    BY <2>2, UnlockedInv, BeginInv, EndInv, PendingInv, BackupInv, ApplyInv,
       CommitInv DEF MigratorStep, Opening
  <2>3. ASSUME NEW r \in Reader, ReaderStep(r) PROVE Inv'
    BY <2>3, ReaderInv
  <2>4. CASE Insert \/ OtherProgram \/ NewerRelease
    BY <2>4, OtherInv
  <2>5. QED
    BY <2>1, <2>2, <2>3, <2>4 DEF Next
<1>3. QED
  BY <1>1, <1>2, PTL DEF Spec

\* migrate(): every upgrade of a file with counted rows has its exact backup,
\* and a migrator that finds nothing to do leaves none.
THEOREM UpgradeBackedUpHolds == Spec => []UpgradeBackedUp
<1>1. Inv => UpgradeBackedUp
  BY DEF Inv, HistoryOK, UpgradeBackedUp
<1>2. QED
  BY <1>1, Invariance, PTL

\* The term index of a file that has one covers all its messages.
THEOREM IndexCompleteHolds == Spec => []IndexComplete
<1>1. Inv => IndexComplete
  BY DEF Inv, FileOK, IndexComplete
<1>2. QED
  BY <1>1, Invariance, PTL

\* No process of this release changes a file that is not its own.
THEOREM ForeignUntouchedHolds == Spec => ForeignUntouched
<1>1. Inv /\ [Next]_vars =>
          [db.shape \in {"altered", "legacy", "other"} => db' = db]_db
  <2> SUFFICES ASSUME Inv, [Next]_vars, db' # db
               PROVE  db.shape \in {"none", "platform"}
    BY DEF Inv, FileTypes, File
  <2>1. CASE \E m \in Migrator : Commit(m)
    BY <2>1 DEF Inv, WorkOK, Commit, At, Accepted
  <2>2. CASE Insert \/ OtherProgram \/ NewerRelease
    BY <2>2 DEF Insert, OtherProgram, NewerRelease, Accepted
  <2>3. QED
    BY <2>1, <2>2 DEF Next, vars, MigratorStep, Opening, Start, Detect, Begin,
       Refuse, NothingPending, Pending, Backup, Apply, EnableWal, Fail, ReaderStep,
       FindEmpty, ReadTables, ReadHistory, ReadRows, ReadBaseline, ReadColumns,
       ReadRest, readOnly, opening
<1>2. QED
  BY <1>1, Invariance, PTL DEF Spec, ForeignUntouched

\* migrate() goes through only on a file it leaves at this release's version.
THEOREM EndsAtLatestHolds == Spec => EndsAtLatest
<1>1. Inv /\ [Next]_vars =>
          [\A m \in Migrator :
              lock = m /\ pc'[m] = "wal" => db'.history = Latest]_vars
  <2> SUFFICES ASSUME Inv, [Next]_vars, vars' # vars,
                      NEW m \in Migrator, lock = m, pc'[m] = "wal"
               PROVE  db'.history = Latest
    OBVIOUS
  <2>1. Latest \in Nat /\ None \notin Migrator /\ Migrator \cap Reader = {}
    BY MigrationsAssumption
  <2>2. Working(m) /\ WorkOK(m)
    BY DEF Inv, Locked
  <2>3. pc[m] # "wal"
    BY <2>2 DEF Working
  <2>4. NothingPending(m) \/ Commit(m)
    BY <2>1, <2>3 DEF Next, vars, MigratorStep, Opening, Start, Detect, Begin,
       Refuse, NothingPending, Pending, Backup, Apply, Commit, EnableWal, Fail, ReaderStep,
       FindEmpty, ReadTables, ReadHistory, ReadRows, ReadBaseline, ReadColumns,
       ReadRest, readOnly, Report, GoOn, Insert, OtherProgram, NewerRelease,
       otherOnly, opening, Goto, At, Inv, FileTypes
  <2>5. CASE NothingPending(m)
    <3>1. work[m] = db /\ db' = db
      BY <2>2, <2>5 DEF NothingPending, At, WorkOK
    <3>2. db.history \in 0..Latest + 1 /\ db.history <= Latest /\ db.history >= Latest
      BY <2>5, <3>1 DEF NothingPending, Accepted, Inv, FileTypes, File
    <3>3. QED
      BY <2>1, <3>1, <3>2
  <2>6. CASE Commit(m)
    <3>1. /\ next[m] = work[m].history + 1
          /\ next[m] > Latest
          /\ db' = work[m]
      BY <2>2, <2>6 DEF Commit, At, WorkOK
    <3>2. work[m].history \in 0..Latest + 1 /\ next[m] \in 1..Latest + 1
      BY DEF Inv, FileTypes, File
    <3>3. QED
      BY <2>1, <3>1, <3>2
  <2>7. QED
    BY <2>4, <2>5, <2>6
<1>2. QED
  BY <1>1, Invariance, PTL DEF Spec, EndsAtLatest

-----------------------------------------------------------------------------
(***************************************************************************)
(* migration_status().  A file with tables of this program keeps them, and *)
(* one with a history keeps one, whatever happens between two queries; so  *)
(* what an earlier query settled is a verdict the file did have.           *)
(***************************************************************************)
ReportTypes ==
    /\ first \in [Reader -> Shape]
    /\ answer \in [Reader -> 0..Latest \cup {None}]
    /\ held \in [Reader -> SUBSET (0..Latest)]

QueryOK(r) ==
    /\ pc[r] \in Querying => Verdict(db) \subseteq held[r]
    /\ pc[r] = "tables" =>
          /\ first[r] = "none" => 0 \in held[r]
          /\ first[r] \in {"platform", "altered"} => db.shape = first[r]
    /\ pc[r] = "rows" => db.history > 0
    /\ pc[r] \in {"baseline", "columns", "rest"} =>
          db.shape \in {"platform", "altered"}
    /\ pc[r] \in {"columns", "rest"} => db.shape = "altered" \/ 0 \in held[r]

QueryInv == ReportTypes /\ \A r \in Reader : QueryOK(r)

\* The version of an accepted file.
LEMMA VerdictFacts ==
    ASSUME NEW file \in File, FileOK(file)
    PROVE  /\ Verdict(file) \subseteq 0..Latest
           /\ file.shape = "none" => 0 \in Verdict(file)
           /\ file.shape = "platform" /\ file.history = 0 => 0 \in Verdict(file)
           /\ file.history \in 1..Latest => file.history \in Verdict(file)
<1>1. Latest \in Nat /\ file.history \in 0..Latest + 1
  BY MigrationsAssumption DEF File
<1>2. QED
  BY <1>1 DEF Verdict, Accepted, FileOK

\* No step takes this program's tables, altered or not, or a history away, and
\* only a reader's own steps move it.
LEMMA FileStep ==
    ASSUME Inv, Next
    PROVE  /\ db.shape \in {"platform", "altered"} => db'.shape = db.shape
           /\ db.history > 0 => db'.history > 0
<1>1. Latest \in Nat /\ TermsAt \in 2..Latest
  BY MigrationsAssumption
<1>2. db \in File /\ FileOK(db) /\ db.history \in 0..Latest + 1
  BY DEF Inv, FileTypes, File
<1>3. CASE db' = db
  BY <1>3
<1>4. ASSUME NEW m \in Migrator, Commit(m)
      PROVE  /\ db'.shape = "platform" /\ db'.history > 0
             /\ db.shape # "altered"
  <2>1. /\ FileOK(work[m]) /\ Accepted(db)
        /\ next[m] = work[m].history + 1 /\ next[m] > Latest
        /\ db' = work[m]
    BY <1>4 DEF Commit, At, Inv, WorkOK
  <2>2. work[m].history \in 0..Latest + 1
    BY DEF Inv, FileTypes, File
  <2>3. work[m].history > 0
    BY <1>1, <2>1, <2>2
  <2>4. QED
    BY <2>1, <2>3 DEF FileOK, Accepted
<1>5. CASE Insert
  <2>1. CASE db' = WithMessage(db)
    BY <1>2, <2>1 DEF WithMessage, File
  <2>2. CASE db' = [db EXCEPT !.aux = @ + 1]
    BY <1>2, <2>2 DEF File
  <2>3. QED
    BY <1>5, <2>1, <2>2 DEF Insert
<1>6. CASE OtherProgram
  BY <1>2, <1>6 DEF OtherProgram, FileOK
<1>7. CASE NewerRelease
  <2>1. Latest + 1 \in 1..Latest + 1
    BY <1>1
  <2>2. /\ Step(db, Latest + 1) \in File
        /\ Step(db, Latest + 1).shape = "platform"
        /\ Step(db, Latest + 1).history = Latest + 1
    BY <1>2, <2>1, StepFields
  <2>3. db'.shape = "platform" /\ db'.history = Latest + 1 /\ db.shape # "altered"
    BY <1>7, <2>2 DEF NewerRelease, Accepted, File
  <2>4. QED
    BY <1>1, <2>3
<1>8. QED
  BY <1>3, <1>4, <1>5, <1>6, <1>7 DEF Next, MigratorStep, Opening, Start, Detect,
     Begin, Refuse, NothingPending, Pending, Backup, Apply, EnableWal, Fail,
     ReaderStep, FindEmpty, ReadTables, ReadHistory, ReadRows, ReadBaseline,
     ReadColumns, ReadRest, readOnly

\* What a query sees is kept for the verdicts of the call.
LEMMA WatchFacts ==
    ASSUME QueryInv, Watch, NEW r \in Reader
    PROVE  /\ pc'[r] \in Querying => held'[r] = held[r] \cup Verdict(db')
           /\ held' = [q \in Reader |-> held'[q]]
  BY DEF Watch

\* A step of another process leaves a call between its queries.
LEMMA OthersQueryStep ==
    ASSUME Inv, Inv', QueryInv, Next, NEW r \in Reader, ~ReaderStep(r)
    PROVE  QueryOK(r)' /\ pc'[r] = pc[r]
<1>1. Migrator \cap Reader = {}
  BY MigrationsAssumption
<1>2. pc'[r] = pc[r]
  BY <1>1 DEF Next, MigratorStep, Opening, Start, Detect, Begin, Refuse,
     NothingPending, Pending, Backup, Apply, Commit, EnableWal, Fail, Insert,
     OtherProgram, NewerRelease, otherOnly, ReaderStep, FindEmpty, ReadTables,
     ReadHistory, ReadRows, ReadBaseline, ReadColumns, ReadRest, Report, GoOn,
     Goto, At, Inv, FileTypes
<1>3. first'[r] = first[r]
  BY DEF Next, report, ReaderStep, FindEmpty, ReadTables, ReadHistory, ReadRows,
     ReadBaseline, ReadColumns, ReadRest, QueryInv, ReportTypes
<1>4. pc'[r] \in Querying => held'[r] = held[r] \cup Verdict(db')
  BY WatchFacts DEF Next
<1>5. QED
  BY <1>2, <1>3, <1>4, FileStep DEF QueryInv, QueryOK, Querying

\* A query of the call: it goes on with what the query settled, or reports a
\* version the file had.
LEMMA OwnQueryStep ==
    ASSUME Inv, QueryInv, NEW r \in Reader, ReaderStep(r), Watch
    PROVE  /\ QueryOK(r)'
           /\ pc'[r] = "reported" => answer'[r] \in held[r] \cup Verdict(db)
           /\ first' \in [Reader -> Shape]
           /\ answer' \in [Reader -> 0..Latest \cup {None}]
<1>1. /\ db' = db /\ db \in File /\ FileOK(db) /\ db.shape \in Shape
      /\ Latest \in Nat /\ db.history \in 0..Latest + 1
  BY MigrationsAssumption DEF ReaderStep, FindEmpty, ReadTables, ReadHistory,
     ReadRows, ReadBaseline, ReadColumns, ReadRest, readOnly, Inv, FileTypes, File
<1>2. /\ pc'[r] \in Querying => held'[r] = held[r] \cup Verdict(db)
      /\ QueryOK(r)
  BY <1>1, WatchFacts DEF QueryInv
<1>3. /\ Verdict(db) \subseteq 0..Latest
      /\ db.shape = "none" => 0 \in Verdict(db)
      /\ db.shape = "platform" /\ db.history = 0 => 0 \in Verdict(db)
      /\ db.history \in 1..Latest => db.history \in Verdict(db)
  BY <1>1, VerdictFacts
<1> USE DEF Report, GoOn, Goto, At, Querying, QueryOK, QueryInv, ReportTypes
<1>4. CASE FindEmpty(r)
  BY <1>1, <1>2, <1>3, <1>4 DEF FindEmpty, Inv, FileTypes
<1>5. CASE ReadTables(r)
  BY <1>1, <1>2, <1>3, <1>5 DEF ReadTables, Inv, FileTypes
<1>6. CASE ReadHistory(r)
  BY <1>1, <1>2, <1>3, <1>6 DEF ReadHistory, Inv, FileTypes
<1>7. CASE ReadRows(r)
  BY <1>1, <1>2, <1>3, <1>7 DEF ReadRows, Inv, FileTypes
<1>8. CASE ReadBaseline(r)
  BY <1>1, <1>2, <1>3, <1>8 DEF ReadBaseline, FourTables, Inv, FileTypes
<1>9. CASE ReadColumns(r)
  BY <1>1, <1>2, <1>3, <1>9 DEF ReadColumns, Inv, FileTypes
<1>10. CASE ReadRest(r)
  BY <1>1, <1>2, <1>3, <1>10 DEF ReadRest, Inv, FileTypes
<1>11. QED
  BY <1>4, <1>5, <1>6, <1>7, <1>8, <1>9, <1>10 DEF ReaderStep

\* The invariant of the readers is inductive beside that of the migrators, and
\* what is reported is a version the file had.
LEMMA QueryStep ==
    ASSUME Inv, Inv', QueryInv, [Next]_vars
    PROVE  /\ QueryInv'
           /\ \A r \in Reader :
                 pc'[r] = "reported" /\ pc[r] # "reported"
                 => answer'[r] \in held[r] \cup Verdict(db)
<1>1. CASE UNCHANGED vars
  BY <1>1 DEF vars, opening, report, QueryInv, ReportTypes, QueryOK, Verdict,
              Accepted
<1>2. CASE Next
  <2>1. /\ first' \in [Reader -> Shape]
        /\ answer' \in [Reader -> 0..Latest \cup {None}]
    BY <1>2, OwnQueryStep DEF Next, report, QueryInv, ReportTypes
  <2>2. held' \in [Reader -> SUBSET (0..Latest)]
    <3>1. Verdict(db') \subseteq 0..Latest
      BY VerdictFacts DEF Inv, FileTypes
    <3>2. Watch
      BY <1>2 DEF Next
    <3>3. QED
      BY <3>1, <3>2 DEF Watch, QueryInv, ReportTypes
  <2>3. ASSUME NEW r \in Reader
        PROVE  /\ QueryOK(r)'
               /\ pc'[r] = "reported" /\ pc[r] # "reported"
                  => answer'[r] \in held[r] \cup Verdict(db)
    BY <1>2, OthersQueryStep, OwnQueryStep DEF Next
  <2>4. QED
    BY <2>1, <2>2, <2>3 DEF QueryInv, ReportTypes
<1>3. QED
  BY <1>1, <1>2

\* The invariant of the readers holds in every reachable state.
THEOREM QueryInvariance == Spec => []QueryInv
<1>1. Init => QueryInv
  <2> SUFFICES ASSUME Init PROVE QueryInv
    OBVIOUS
  <2>1. ReportTypes
    BY DEF Init, ReportTypes, Shape
  <2>2. \A r \in Reader : pc[r] \in {"idle", "absent"}
    BY DEF Init
  <2>3. QED
    BY <2>1, <2>2 DEF QueryInv, QueryOK, Querying
<1>2. Inv /\ Inv' /\ QueryInv /\ [Next]_vars => QueryInv'
  BY QueryStep
<1>3. QED
  BY <1>1, <1>2, Invariance, PTL DEF Spec

\* Types, for any number of migrations, processes and rows.
THEOREM TypeCorrect == Spec => []TypeOK
<1>1. Inv /\ QueryInv => TypeOK
  BY DEF Inv, FileTypes, QueryInv, ReportTypes, TypeOK
<1>2. QED
  BY <1>1, Invariance, QueryInvariance, PTL

\* migration_status() takes no transaction, and each of its queries may see
\* another file; the version it reports is still one that the file, accepted by
\* migrate(), had at some moment of the call.
THEOREM StatusAgreesHolds == Spec => StatusAgrees
<1>1. Inv /\ Inv' /\ QueryInv /\ [Next]_vars =>
          [\A r \in Reader :
              pc'[r] = "reported" /\ pc[r] # "reported"
              => answer'[r] \in held[r] \cup Verdict(db)]_vars
  BY QueryStep
<1>2. QED
  BY <1>1, Invariance, QueryInvariance, PTL DEF Spec, StatusAgrees
=============================================================================
