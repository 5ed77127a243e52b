--------------------------- MODULE MeshStoreProofs ---------------------------
(***************************************************************************)
(* Proofs about MeshStore, for every number of stores, lifecycle           *)
(* processes, keys and rows: what holds for any timing of stores and       *)
(* lifecycle commands (SharedInv, Scrubbed, Sources), and then what holds  *)
(* when a lifecycle command runs alone (ExclusiveInv).                     *)
(***************************************************************************)
EXTENDS MeshStore, SequenceTheorems, TLAPS

-----------------------------------------------------------------------------
(***************************************************************************)
(* Images: what a re-keying and a client's write make of a database.       *)
(***************************************************************************)

\* A function on 1..n is a sequence.
LEMMA FunctionIsSeq ==
    ASSUME NEW S, NEW n \in Nat, NEW f \in [1..n -> S]
    PROVE  f \in Seq(S)
  BY SeqDef

\* A re-keyed image keeps the rows, their contents and owners, and has every
\* message sealed under the new key.
LEMMA ResealFacts ==
    ASSUME NEW image \in Image, NEW k \in Key
    PROVE  /\ Reseal(image, k) \in Image
           /\ Reseal(image, k).active = k
           /\ DOMAIN Reseal(image, k).rows = DOMAIN image.rows
           /\ \A i \in DOMAIN image.rows :
                 /\ Reseal(image, k).rows[i].facade = image.rows[i].facade
                 /\ Reseal(image, k).rows[i].content = image.rows[i].content
                 /\ Reseal(image, k).rows[i].seal = k
                 /\ Reseal(image, k).rows[i].emb \in {None, k}
           /\ \A s \in Slot : Reseal(image, k).side[s] \in {None, k}
<1> DEFINE new(i) == [image.rows[i] EXCEPT
                        !.seal = k,
                        !.term = k,
                        !.emb = IF image.rows[i].emb = None THEN None ELSE k]
           rows == [i \in DOMAIN image.rows |-> new(i)]
<1>1. /\ image.rows \in Seq(Row)
      /\ image.side \in [Slot -> Mode \cup {None}]
  BY DEF Image
<1>2. DOMAIN image.rows = 1..Len(image.rows) /\ Len(image.rows) \in Nat
  BY <1>1
<1>3. ASSUME NEW i \in DOMAIN image.rows
      PROVE  /\ new(i) \in Row
             /\ new(i).facade = image.rows[i].facade
             /\ new(i).content = image.rows[i].content
             /\ new(i).seal = k
             /\ new(i).emb \in {None, k}
  <2>1. image.rows[i] \in Row
    BY <1>1, <1>2
  <2>2. QED
    BY <2>1 DEF Row, Mode
<1>4. rows \in Seq(Row)
  <2>1. rows \in [1..Len(image.rows) -> Row]
    BY <1>2, <1>3
  <2>2. QED
    BY <1>2, <2>1, FunctionIsSeq
<1>5. [s \in Slot |-> IF image.side[s] = None THEN None ELSE k]
        \in [Slot -> Mode \cup {None}]
  BY <1>1 DEF Mode
<1>6. Reseal(image, k) = [active |-> k, rows |-> rows,
        side |-> [s \in Slot |-> IF image.side[s] = None THEN None ELSE k]]
  BY DEF Reseal
<1>7. Reseal(image, k) \in Image
  <2> HIDE DEF rows
  <2>1. k \in Mode
    BY DEF Mode
  <2>2. QED
    BY <1>4, <1>5, <1>6, <2>1 DEF Image
<1>8. /\ DOMAIN rows = DOMAIN image.rows
      /\ \A i \in DOMAIN image.rows : rows[i] = new(i)
  OBVIOUS
<1> HIDE DEF new, rows
<1>9. /\ Reseal(image, k).active = k
      /\ Reseal(image, k).rows = rows
      /\ \A s \in Slot : Reseal(image, k).side[s] \in {None, k}
  BY <1>6
<1>10. QED
  BY <1>3, <1>7, <1>8, <1>9

\* What any write of store c makes of the live database: rows keep their
\* content, owner and seal; at most one row is added, sealed in the mode c
\* cached, and if it is a facade row then c found no row with its content.
Written(c, image) ==
    /\ image \in Image
    /\ image.active = db.active
    /\ \A s \in Slot : image.side[s] \in {db.side[s], ctx[c]}
    /\ DOMAIN db.rows \subseteq DOMAIN image.rows
    /\ \A i \in DOMAIN db.rows :
          /\ image.rows[i].facade = db.rows[i].facade
          /\ image.rows[i].content = db.rows[i].content
          /\ image.rows[i].seal = db.rows[i].seal
          /\ image.rows[i].emb \in {db.rows[i].emb, ctx[c]}
    /\ \A i, j \in DOMAIN image.rows \ DOMAIN db.rows : i = j
    /\ \A i \in DOMAIN image.rows \ DOMAIN db.rows :
          /\ image.rows[i].seal = ctx[c]
          /\ image.rows[i].emb \in {None, ctx[c]}
          /\ image.rows[i].facade => ~FoundFacade(c, image.rows[i].content)

\* A write that finds nothing to change.
LEMMA WrittenSame ==
    ASSUME db \in Image, NEW c \in Client
    PROVE  Written(c, db)
  BY DEF Written

\* A write that appends one row, as the id MAX(id) + 1 does.
LEMMA WrittenRow ==
    ASSUME db \in Image, NEW c \in Client, NEW row \in Row,
           row.seal = ctx[c], row.emb \in {None, ctx[c]},
           row.facade => ~FoundFacade(c, row.content)
    PROVE  Written(c, WithRow(row))
<1> DEFINE n == Len(db.rows)
           rows == Append(db.rows, row)
<1>1. db.rows \in Seq(Row) /\ n \in Nat /\ DOMAIN db.rows = 1..n
  BY DEF Image
<1>2. /\ rows \in Seq(Row)
      /\ DOMAIN rows = 1..(n + 1)
      /\ \A i \in 1..n : rows[i] = db.rows[i]
      /\ rows[n + 1] = row
  BY <1>1
<1>3. WithRow(row) = [db EXCEPT !.rows = rows]
  BY DEF WithRow
<1> HIDE DEF n, rows
<1>4. /\ WithRow(row) \in Image
      /\ WithRow(row).active = db.active
      /\ WithRow(row).side = db.side
      /\ WithRow(row).rows = rows
  BY <1>2, <1>3 DEF Image
<1>5. /\ DOMAIN db.rows \subseteq DOMAIN rows
      /\ \A i \in DOMAIN rows \ DOMAIN db.rows : i = n + 1
  BY <1>1, <1>2
<1>6. QED
  BY <1>1, <1>2, <1>4, <1>5 DEF Written

\* A write that updates embeddings or index terms of the rows there are.
LEMMA WrittenRows ==
    ASSUME db \in Image, NEW c \in Client, NEW rows,
           DOMAIN rows = DOMAIN db.rows,
           \A i \in DOMAIN db.rows :
              /\ rows[i] \in Row
              /\ rows[i].facade = db.rows[i].facade
              /\ rows[i].content = db.rows[i].content
              /\ rows[i].seal = db.rows[i].seal
              /\ rows[i].emb \in {db.rows[i].emb, ctx[c]},
           rows = [i \in DOMAIN db.rows |-> rows[i]]
    PROVE  Written(c, [db EXCEPT !.rows = rows])
<1>1. db.rows \in Seq(Row) /\ DOMAIN db.rows = 1..Len(db.rows) /\ Len(db.rows) \in Nat
  BY DEF Image
<1>2. rows \in [1..Len(db.rows) -> Row]
  BY <1>1
<1>3. rows \in Seq(Row)
  BY <1>1, <1>2, FunctionIsSeq
<1> DEFINE image == [db EXCEPT !.rows = rows]
<1>4. /\ image \in Image
      /\ image.active = db.active
      /\ image.side = db.side
      /\ image.rows = rows
  BY <1>3 DEF Image
<1> HIDE DEF image
<1>5. Written(c, image)
  BY <1>4 DEF Written
<1>6. QED
  BY <1>5 DEF image

\* The writing operations of a store, seen as one.
LEMMA ClientWriteFacts ==
    ASSUME TypeOK, NEW c \in Client, ctx[c] # None, ClientWrite(c)
    PROVE  /\ \E image : Written(c, image) /\ Commit(c, image)
           /\ UNCHANGED <<ctx, clientOnly>>
<1>1. db \in Image /\ ctx[c] \in Mode
  BY DEF TypeOK
<1>2. ASSUME NEW x \in Content, NEW t \in Stamp, StoreFacade(c, x, t)
      PROVE  \E image : Written(c, image) /\ Commit(c, image)
  <2> DEFINE row == [content |-> x, stamp |-> t, source |-> None,
                     facade |-> TRUE, seal |-> ctx[c],
                     term |-> ctx[c], emb |-> ctx[c]]
  <2>1. row \in Row
    BY <1>1 DEF Row
  <2>2. CASE FoundFacade(c, x)
    BY <1>1, <1>2, <2>2, WrittenSame DEF StoreFacade
  <2>3. CASE ~FoundFacade(c, x)
    <3>1. /\ row.seal = ctx[c]
          /\ row.emb \in {None, ctx[c]}
          /\ row.content = x
      OBVIOUS
    <3>2. Commit(c, WithRow(row))
      BY <1>2, <2>3 DEF StoreFacade
    <3> HIDE DEF row
    <3>3. Written(c, WithRow(row))
      BY <1>1, <2>1, <2>3, <3>1, WrittenRow
    <3>4. QED
      BY <3>2, <3>3
  <2>4. QED
    BY <2>2, <2>3
<1>3. ASSUME NEW x \in Content, NEW t \in Stamp,
             NEW s \in SourceKey \cup {None}, InsertMessage(c, x, t, s)
      PROVE  \E image : Written(c, image) /\ Commit(c, image)
  <2> DEFINE row == [content |-> x, stamp |-> t, source |-> s,
                     facade |-> FALSE, seal |-> ctx[c],
                     term |-> ctx[c], emb |-> None]
             ignored == \E i \in DOMAIN db.rows : Blocks(c, db.rows[i], x, t, s)
  <2>1. row \in Row
    BY <1>1 DEF Row
  <2>2. CASE ignored
    BY <1>1, <1>3, <2>2, WrittenSame DEF InsertMessage
  <2>3. CASE ~ignored
    <3>1. /\ row.seal = ctx[c]
          /\ row.emb \in {None, ctx[c]}
          /\ ~row.facade
      OBVIOUS
    <3>2. Commit(c, WithRow(row))
      BY <1>3, <2>3 DEF InsertMessage
    <3> HIDE DEF row
    <3>3. Written(c, WithRow(row))
      BY <1>1, <2>1, <3>1, WrittenRow
    <3>4. QED
      BY <3>2, <3>3
  <2>4. QED
    BY <2>2, <2>3
<1>4. ASSUME NEW i \in DOMAIN db.rows, SaveEmbedding(c, i)
      PROVE  \E image : Written(c, image) /\ Commit(c, image)
  <2> DEFINE rows == [db.rows EXCEPT ![i].emb = ctx[c]]
  <2>1. db.rows \in Seq(Row) /\ DOMAIN db.rows = 1..Len(db.rows)
    BY <1>1 DEF Image
  <2>2. \A j \in DOMAIN db.rows : db.rows[j] \in Row
    BY <2>1
  <2>3. ASSUME NEW j \in DOMAIN db.rows
        PROVE  /\ rows[j] \in Row
               /\ rows[j].facade = db.rows[j].facade
               /\ rows[j].content = db.rows[j].content
               /\ rows[j].seal = db.rows[j].seal
               /\ rows[j].emb \in {db.rows[j].emb, ctx[c]}
    BY <1>1, <2>2 DEF Row
  <2>4. DOMAIN rows = DOMAIN db.rows /\ rows = [j \in DOMAIN db.rows |-> rows[j]]
    OBVIOUS
  <2>5. Commit(c, [db EXCEPT !.rows = rows])
    BY <1>4 DEF SaveEmbedding
  <2> HIDE DEF rows
  <2>6. Written(c, [db EXCEPT !.rows = rows])
    BY <1>1, <2>3, <2>4, WrittenRows
  <2>7. QED
    BY <2>5, <2>6
<1>5. ASSUME NEW s \in Slot, SetSide(c, s)
      PROVE  \E image : Written(c, image) /\ Commit(c, image)
  <2> DEFINE image == [db EXCEPT !.side[s] = ctx[c]]
  <2>1. /\ image \in Image
        /\ image.active = db.active
        /\ image.rows = db.rows
        /\ \A r \in Slot : image.side[r] \in {db.side[r], ctx[c]}
    BY <1>1 DEF Image
  <2>2. Commit(c, image)
    BY <1>5 DEF SetSide
  <2> HIDE DEF image
  <2>3. Written(c, image)
    BY <2>1 DEF Written
  <2>4. QED
    BY <2>2, <2>3
<1>6. ASSUME RebuildIndex(c)
      PROVE  \E image : Written(c, image) /\ Commit(c, image)
  <2> DEFINE rows == RebuiltIndex(db.rows)
  <2>1. db.rows \in Seq(Row) /\ DOMAIN db.rows = 1..Len(db.rows)
    BY <1>1 DEF Image
  <2>2. \A j \in DOMAIN db.rows : db.rows[j] \in Row
    BY <2>1
  <2>3. ASSUME NEW j \in DOMAIN db.rows
        PROVE  /\ rows[j] \in Row
               /\ rows[j].facade = db.rows[j].facade
               /\ rows[j].content = db.rows[j].content
               /\ rows[j].seal = db.rows[j].seal
               /\ rows[j].emb = db.rows[j].emb
    BY <2>2 DEF Row, Mode, RebuiltIndex
  <2>4. DOMAIN rows = DOMAIN db.rows /\ rows = [j \in DOMAIN db.rows |-> rows[j]]
    BY DEF RebuiltIndex
  <2>5. Commit(c, [db EXCEPT !.rows = rows])
    BY <1>6 DEF RebuildIndex
  <2> HIDE DEF rows
  <2>6. Written(c, [db EXCEPT !.rows = rows])
    BY <1>1, <2>3, <2>4, WrittenRows
  <2>7. QED
    BY <2>5, <2>6
<1>7. UNCHANGED <<ctx, clientOnly>>
  BY DEF ClientWrite, StoreFacade, InsertMessage, SaveEmbedding, SetSide, RebuildIndex
<1>8. QED
  BY <1>2, <1>3, <1>4, <1>5, <1>6, <1>7 DEF ClientWrite

-----------------------------------------------------------------------------
(***************************************************************************)
(* The invariant has four parts besides the types.                         *)
(***************************************************************************)

\* Connections: a store writes only when it is open, a lifecycle command has
\* one exactly during its transaction and its VACUUM INTO, and the lock owner
\* is the one process with a transaction on the live file.
Conns ==
    /\ \A c \in Client : conn[c] # "none" => ctx[c] # None
    /\ \A a \in Admin : conn[a] # "none" <=> admin[a].pc \in {"txn", "copy"}
    /\ \A a \in Admin : admin[a].pc = "txn" => admin[a].key \in Key
    /\ \A p \in Process :
          lock = p <=> conn[p] = "live" /\ (p \in Admin => admin[p].pc = "txn")

Scrubbing(a) == admin[a].pc \in {"unlink", "vacuum", "copy", "swap"}

\* Whatever happens only after a first commit of a lifecycle command finds
\* the live file encrypted.
Encrypted ==
    /\ tmp # None => tmp.active \in Key
    /\ \A a \in Admin : Scrubbing(a) => db.active \in Key
    /\ \A p \in Process : conn[p] = "orphan" => db.active \in Key

\* A database never encrypted holds plaintext only, and so do the caches; a
\* command inside its transaction found every message in the active mode.
Sealed ==
    /\ db.active = Plain => /\ \A i \in DOMAIN db.rows : db.rows[i].seal = Plain
                           /\ \A c \in Client : ctx[c] \in {None, Plain}
    /\ \A a \in Admin : conn[a] = "live" /\ admin[a].pc = "txn" =>
          \A i \in DOMAIN db.rows : db.rows[i].seal = db.active

Unique ==
    /\ UniquePerMode(db)
    /\ tmp # None => UniquePerMode(tmp)

SharedInv == TypeOK /\ Conns /\ Encrypted /\ Sealed /\ Unique

\* What the steps below leave to FlagStep.
Flags ==
    /\ sidecar \in BOOLEAN
    /\ spoiled \in BOOLEAN
    /\ unfinished \subseteq {"live", "tmp"}
    /\ made \in [Admin -> {"none", "tmp", "live", "gone"}]

\* The flags of the replaced file's log and of the copies keep their types.
LEMMA FlagStep ==
    ASSUME TypeOK,
           \/ \E c \in Client : ClientStep(c)
           \/ \E a \in Admin : AdminStep(a)
    PROVE  Flags'
<1>1. ASSUME NEW c \in Client, ClientStep(c)
      PROVE  Flags'
  <2>1. /\ UNCHANGED <<unfinished, made>>
        /\ sidecar' = sidecar
        /\ spoiled' = spoiled \/ spoiled' = (sidecar \/ "live" \in unfinished)
    BY <1>1 DEF ClientStep, Open, Close, Begin, Abort, ClientWrite, StoreFacade,
                InsertMessage, SaveEmbedding, SetSide, RebuildIndex, clientOnly,
                Connect, EndTxn, Commit, BeginTxn
  <2>2. QED
    BY <2>1 DEF TypeOK, Flags
<1>2. ASSUME NEW a \in Admin, AdminStep(a)
      PROVE  Flags'
  <2>1. CASE \/ \E k \in Key : BeginEnable(a, k)
             \/ \E old, k \in Key : BeginRotate(a, old, k)
    <3>1. /\ UNCHANGED <<unfinished, made, sidecar>>
          /\ spoiled' = (sidecar \/ "live" \in unfinished)
      BY <2>1 DEF BeginEnable, BeginRotate, BeginLifecycle, BeginTxn, Connect, files
    <3>2. QED
      BY <3>1 DEF TypeOK, Flags
  <2>2. CASE CommitLifecycle(a)
    BY <2>2 DEF CommitLifecycle, Commit, EndTxn, filesOnly, TypeOK, Flags
  <2>3. CASE StopLifecycle(a)
    BY <2>3 DEF StopLifecycle, EndTxn, files, TypeOK, Flags
  <2>4. CASE UnlinkTmp(a)
    BY <2>4 DEF UnlinkTmp, TmpTaken, scrubOnly, TypeOK, Flags
  <2>5. CASE VacuumInto(a)
    BY <2>5 DEF VacuumInto, Connect, TypeOK, Flags
  <2>6. CASE VacuumDone(a)
    BY <2>6 DEF VacuumDone, scrubOnly, TypeOK, Flags
  <2>7. CASE Replace(a)
    <3>1. \A b \in Admin : TmpTaken("live")[b] \in {"none", "tmp", "live", "gone"}
      BY DEF TmpTaken, TypeOK
    <3>2. LiveOpen \in BOOLEAN
      BY DEF LiveOpen
    <3>3. QED
      BY <2>7, <3>1, <3>2 DEF Replace, TypeOK, Flags
  <2>8. CASE UnlinkSidecars(a)
    <3>1. LiveOpen \in BOOLEAN
      BY DEF LiveOpen
    <3>2. QED
      BY <2>8, <3>1 DEF UnlinkSidecars, files, TypeOK, Flags
  <2>9. CASE VacuumFails(a)
    BY <2>9 DEF VacuumFails, TmpTaken, TypeOK, Flags
  <2>10. QED
    BY <1>2, <2>1, <2>2, <2>3, <2>4, <2>5, <2>6, <2>7, <2>8, <2>9 DEF AdminStep
<1>3. QED
  BY <1>1, <1>2

\* The initial state satisfies the invariant.
LEMMA SharedInit == Init => SharedInv
<1> SUFFICES ASSUME Init PROVE SharedInv
  OBVIOUS
<1> USE MeshStoreAssumption
<1>1. db \in Image /\ DOMAIN db.rows = {}
  BY DEF Init, Image, Mode
<1>2. TypeOK
  BY <1>1 DEF Init, TypeOK, Mode, Phase
<1>3. Conns
  BY DEF Init, Conns, Process
<1>4. Encrypted
  BY DEF Init, Encrypted, Scrubbing, Process
<1>5. Sealed /\ Unique
  BY <1>1 DEF Init, Sealed, Unique, UniquePerMode, Process
<1>6. QED
  BY <1>2, <1>3, <1>4, <1>5 DEF SharedInv

\* A client's write, seen through its connection.
LEMMA ClientWriteStep ==
    ASSUME SharedInv, NEW c \in Client, ClientWrite(c)
    PROVE  /\ ctx[c] \in Mode
           /\ conn[c] # "none"
           /\ EndTxn(c)
           /\ UNCHANGED <<ctx, tmp, unfinished, made, residue, admin, claimed,
                          vacuumed>>
           /\ db' = db \/ (conn[c] = "live" /\ Written(c, db'))
<1>1. conn[c] # "none"
  BY DEF ClientWrite, StoreFacade, InsertMessage, SaveEmbedding, SetSide,
         RebuildIndex, Commit
<1>2. ctx[c] # None /\ ctx[c] \in Mode
  BY <1>1 DEF SharedInv, Conns, TypeOK
<1>3. PICK image : Written(c, image) /\ Commit(c, image)
  BY <1>2, ClientWriteFacts DEF SharedInv
<1>4. UNCHANGED <<ctx, clientOnly>>
  BY <1>2, ClientWriteFacts DEF SharedInv
<1>5. QED
  BY <1>1, <1>2, <1>3, <1>4 DEF Commit, clientOnly

\* A step that leaves the files alone keeps the facade rows unique in them.
LEMMA UniqueFrame ==
    ASSUME Unique, db' = db, tmp' \in {tmp, None}
    PROVE  Unique'
  BY DEF Unique, UniquePerMode, SameFacade

\* Opening, closing, beginning and aborting touch neither file.
LEMMA ClientFrameStep ==
    ASSUME SharedInv, NEW c \in Client,
           (\E k \in Key : Open(c, k)) \/ Close(c) \/ Begin(c) \/ Abort(c)
    PROVE  SharedInv'
<1> USE MeshStoreAssumption DEF SharedInv, Process
<1>1. /\ Flags'
      /\ UNCHANGED <<db, tmp, residue, admin, acked, claimed, vacuumed>>
  <2>1. ClientStep(c)
    BY DEF ClientStep
  <2>2. QED
    BY <2>1, FlagStep DEF Open, Close, Begin, Abort, clientOnly
<1>2. Unique'
  BY <1>1, UniqueFrame
<1>3. CASE \E k \in Key : Open(c, k)
  <2>1. UNCHANGED <<conn, lock>> /\ ctx' = [ctx EXCEPT ![c] = db.active] /\ ctx[c] = None
    BY <1>3 DEF Open
  <2>2. db.active \in Mode
    BY DEF TypeOK, Image
  <2>3. TypeOK'
    BY <1>1, <2>1, <2>2 DEF Flags, TypeOK
  <2>4. Conns'
    BY <1>1, <2>1, <2>2 DEF Conns, TypeOK, Mode
  <2>5. Encrypted'
    BY <1>1, <2>1 DEF Encrypted, Scrubbing
  <2>6. Sealed'
    BY <1>1, <2>1 DEF Sealed, TypeOK
  <2>7. QED
    BY <1>2, <2>3, <2>4, <2>5, <2>6
<1>4. CASE Close(c)
  <2>1. UNCHANGED <<conn, lock>> /\ ctx' = [ctx EXCEPT ![c] = None] /\ conn[c] = "none"
    BY <1>4 DEF Close
  <2>2. TypeOK'
    BY <1>1, <2>1 DEF Flags, TypeOK
  <2>3. Conns'
    BY <1>1, <2>1 DEF Conns, TypeOK
  <2>4. Encrypted'
    BY <1>1, <2>1 DEF Encrypted, Scrubbing
  <2>5. Sealed'
    BY <1>1, <2>1 DEF Sealed, TypeOK
  <2>6. QED
    BY <1>2, <2>2, <2>3, <2>4, <2>5
<1>5. CASE Begin(c)
  <2>1. /\ ctx[c] # None /\ lock = None /\ ctx' = ctx
        /\ conn' = [conn EXCEPT ![c] = "live"] /\ lock' = c
    BY <1>5 DEF Begin, BeginTxn
  <2>2. TypeOK'
    BY <1>1, <2>1 DEF Flags, TypeOK
  <2>3. Conns'
    BY <1>1, <2>1 DEF Conns, TypeOK
  <2>4. Encrypted'
    BY <1>1, <2>1 DEF Encrypted, Scrubbing, TypeOK
  <2>5. Sealed'
    BY <1>1, <2>1 DEF Sealed, TypeOK
  <2>6. QED
    BY <1>2, <2>2, <2>3, <2>4, <2>5
<1>6. CASE Abort(c)
  <2>1. /\ ctx' = ctx /\ conn' = [conn EXCEPT ![c] = "none"]
        /\ lock' = IF lock = c THEN None ELSE lock
    BY <1>6 DEF Abort, EndTxn
  <2>2. TypeOK'
    BY <1>1, <2>1 DEF Flags, TypeOK
  <2>3. Conns'
    BY <1>1, <2>1 DEF Conns, TypeOK
  <2>4. Encrypted'
    BY <1>1, <2>1 DEF Encrypted, Scrubbing, TypeOK
  <2>5. Sealed'
    BY <1>1, <2>1 DEF Sealed, TypeOK
  <2>6. QED
    BY <1>2, <2>2, <2>3, <2>4, <2>5
<1>7. QED
  BY <1>3, <1>4, <1>5, <1>6

\* A write adds at most one row, and not a second facade row for a content
\* already there under the writer's mode.
LEMMA WrittenUnique ==
    ASSUME UniquePerMode(db), NEW c \in Client, NEW image, Written(c, image)
    PROVE  UniquePerMode(image)
<1> SUFFICES ASSUME NEW i \in DOMAIN image.rows, NEW j \in DOMAIN image.rows,
                    SameFacade(image, i, j),
                    image.rows[i].seal = image.rows[j].seal
             PROVE  i = j
  BY DEF UniquePerMode
<1>1. CASE i \in DOMAIN db.rows /\ j \in DOMAIN db.rows
  BY <1>1 DEF Written, UniquePerMode, SameFacade
<1>2. CASE i \notin DOMAIN db.rows /\ j \notin DOMAIN db.rows
  BY <1>2 DEF Written
<1>3. ASSUME NEW new \in DOMAIN image.rows \ DOMAIN db.rows,
             NEW old \in DOMAIN db.rows,
             SameFacade(image, new, old),
             image.rows[new].seal = image.rows[old].seal
      PROVE  FALSE
  <2>1. /\ image.rows[new].facade
        /\ image.rows[new].seal = ctx[c]
        /\ ~FoundFacade(c, image.rows[new].content)
    BY <1>3 DEF Written, SameFacade
  <2>2. /\ db.rows[old].facade
        /\ db.rows[old].content = image.rows[new].content
        /\ db.rows[old].seal = ctx[c]
    BY <1>3, <2>1 DEF Written, SameFacade
  <2>3. QED
    BY <2>1, <2>2 DEF FoundFacade
<1>4. QED
  BY <1>1, <1>2, <1>3 DEF SameFacade

\* Every writing operation of a store preserves the invariant.
LEMMA ClientWriteKeepsShared ==
    ASSUME SharedInv, NEW c \in Client, ClientWrite(c)
    PROVE  SharedInv'
<1> USE MeshStoreAssumption DEF Process
<1>1. /\ ctx[c] \in Mode
      /\ conn[c] # "none"
      /\ conn' = [conn EXCEPT ![c] = "none"]
      /\ lock' = IF lock = c THEN None ELSE lock
      /\ UNCHANGED <<ctx, tmp, residue, admin, claimed, vacuumed>>
      /\ db' = db \/ (conn[c] = "live" /\ Written(c, db'))
  BY ClientWriteStep DEF EndTxn
<1>2. acked' \in SUBSET Content /\ Flags'
  BY FlagStep DEF ClientStep, SharedInv, TypeOK, ClientWrite, StoreFacade, InsertMessage,
         SaveEmbedding, SetSide, RebuildIndex
<1>3. db' \in Image /\ db'.active = db.active
  BY <1>1 DEF SharedInv, TypeOK, Written
<1>4. TypeOK'
  BY <1>1, <1>2, <1>3 DEF Flags, SharedInv, TypeOK
<1>5. Conns'
  BY <1>1 DEF SharedInv, Conns, TypeOK
<1>6. Encrypted'
  BY <1>1, <1>3 DEF SharedInv, Encrypted, Scrubbing, TypeOK
<1>7. Sealed'
  <2>1. CASE db' = db
    BY <1>1, <2>1 DEF SharedInv, Sealed, TypeOK
  <2>2. CASE conn[c] = "live" /\ Written(c, db')
    <3>1. \A a \in Admin : admin[a].pc = "txn" => conn[a] # "live"
      BY <2>2 DEF SharedInv, Conns, TypeOK
    <3>2. \A a \in Admin : admin'[a].pc = "txn" => conn'[a] # "live"
      BY <1>1, <3>1 DEF SharedInv, TypeOK
    <3>3. ASSUME db.active = Plain
          PROVE  \A i \in DOMAIN db'.rows : db'.rows[i].seal = Plain
      BY <1>1, <2>2, <3>3 DEF SharedInv, Sealed, Written, Mode
    <3>4. QED
      BY <1>1, <1>3, <3>2, <3>3 DEF SharedInv, Sealed
  <2>3. QED
    BY <1>1, <2>1, <2>2
<1>8. Unique'
  <2>1. CASE db' = db
    BY <1>1, <2>1, UniqueFrame DEF SharedInv
  <2>2. CASE Written(c, db')
    BY <1>1, <2>2, WrittenUnique DEF SharedInv, Unique, UniquePerMode, SameFacade
  <2>3. QED
    BY <1>1, <2>1, <2>2
<1>9. QED
  BY <1>4, <1>5, <1>6, <1>7, <1>8 DEF SharedInv

\* Taking the lock for a lifecycle command settles that every message is in
\* the active mode.
LEMMA BeginLifecycleStep ==
    ASSUME SharedInv, NEW a \in Admin, NEW k \in Key,
           BeginEnable(a, k) \/ \E old \in Key : BeginRotate(a, old, k)
    PROVE  SharedInv'
<1> USE MeshStoreAssumption DEF Process
<1>1. /\ Idle(a)
      /\ lock = None
      /\ conn' = [conn EXCEPT ![a] = "live"]
      /\ lock' = a
      /\ admin' = [admin EXCEPT ![a] = [pc |-> "txn", key |-> k]]
      /\ vacuumed' = FALSE
      /\ Flags'
      /\ UNCHANGED <<db, tmp, residue, claimed, ctx, acked>>
  BY FlagStep DEF AdminStep, SharedInv, BeginEnable, BeginRotate,
                  BeginLifecycle, BeginTxn, adminOnly, files
<1>2. \A i \in DOMAIN db.rows : db.rows[i].seal = db.active
  BY DEF BeginEnable, BeginRotate, Rotatable, AllUnderActiveKey, SharedInv, Sealed
<1>3. TypeOK'
  BY <1>1 DEF Flags, SharedInv, TypeOK, Phase
<1>4. Conns'
  BY <1>1 DEF SharedInv, Conns, TypeOK
<1>5. Encrypted'
  BY <1>1 DEF SharedInv, Encrypted, Scrubbing, TypeOK
<1>6. Sealed'
  BY <1>1, <1>2 DEF SharedInv, Sealed, TypeOK
<1>7. Unique'
  BY <1>1, UniqueFrame DEF SharedInv
<1>8. QED
  BY <1>3, <1>4, <1>5, <1>6, <1>7 DEF SharedInv

\* The commit of a lifecycle command: on the live file it re-keys rows that
\* were all in one mode, so distinct facade contents stay distinct.
LEMMA CommitLifecycleStep ==
    ASSUME SharedInv, NEW a \in Admin, CommitLifecycle(a)
    PROVE  SharedInv' /\ db'.active \in Key
<1> USE MeshStoreAssumption DEF Process
<1> DEFINE k == admin[a].key
<1>1. /\ admin[a].pc = "txn"
      /\ conn[a] # "none"
      /\ db' = IF conn[a] = "live" THEN Reseal(db, k) ELSE db
      /\ conn' = [conn EXCEPT ![a] = "none"]
      /\ lock' = IF lock = a THEN None ELSE lock
      /\ residue' \in BOOLEAN
      /\ claimed' = k
      /\ admin' = [admin EXCEPT ![a] = [pc |-> "unlink", key |-> None]]
      /\ Flags'
      /\ UNCHANGED <<tmp, vacuumed, ctx, acked>>
  BY FlagStep DEF AdminStep, CommitLifecycle, Commit, EndTxn, Goto, adminOnly,
                  SharedInv, TypeOK
<1>2. k \in Key /\ k # Plain /\ db \in Image
  BY <1>1 DEF SharedInv, Conns, TypeOK
<1>3. /\ Reseal(db, k) \in Image
      /\ Reseal(db, k).active = k
      /\ DOMAIN Reseal(db, k).rows = DOMAIN db.rows
      /\ \A i \in DOMAIN db.rows :
            /\ Reseal(db, k).rows[i].facade = db.rows[i].facade
            /\ Reseal(db, k).rows[i].content = db.rows[i].content
            /\ Reseal(db, k).rows[i].seal = k
  BY <1>2, ResealFacts
<1> HIDE DEF k
<1>4. conn[a] # "live" => conn[a] = "orphan"
  BY <1>1 DEF SharedInv, TypeOK
<1>5. db' \in Image /\ db'.active \in Key
  BY <1>1, <1>2, <1>3, <1>4 DEF SharedInv, Encrypted
<1>6. TypeOK'
  BY <1>1, <1>2, <1>5 DEF Flags, SharedInv, TypeOK, Phase, Mode
<1>7. Conns'
  BY <1>1 DEF SharedInv, Conns, TypeOK
<1>8. Encrypted'
  BY <1>1, <1>5 DEF SharedInv, Encrypted, Scrubbing, TypeOK
<1>9. Sealed'
  <2>1. CASE conn[a] = "live"
    <3>1. \A b \in Admin : admin'[b].pc = "txn" => conn'[b] # "live"
      BY <1>1, <2>1 DEF SharedInv, Conns, TypeOK
    <3>2. QED
      BY <1>5, <3>1 DEF Sealed
  <2>2. CASE conn[a] # "live"
    BY <1>1, <1>5, <2>2 DEF SharedInv, Sealed, TypeOK
  <2>3. QED
    BY <2>1, <2>2
<1>10. Unique'
  <2>1. CASE conn[a] = "live"
    <3>1. \A i, j \in DOMAIN db.rows : SameFacade(db, i, j) => i = j
      BY <1>1, <2>1 DEF SharedInv, Sealed, Unique, UniquePerMode
    <3>2. UniquePerMode(Reseal(db, k))
      BY <1>3, <3>1 DEF UniquePerMode, SameFacade
    <3>3. QED
      BY <1>1, <2>1, <3>2 DEF SharedInv, Unique, UniquePerMode, SameFacade
  <2>2. CASE conn[a] # "live"
    BY <1>1, <2>2, UniqueFrame DEF SharedInv
  <2>3. QED
    BY <2>1, <2>2
<1>11. QED
  BY <1>5, <1>6, <1>7, <1>8, <1>9, <1>10 DEF SharedInv

\* A lifecycle command that fails or is killed preserves the invariant.
LEMMA StopLifecycleStep ==
    ASSUME SharedInv, NEW a \in Admin, StopLifecycle(a)
    PROVE  SharedInv'
<1> USE MeshStoreAssumption DEF Process
<1>1. /\ conn' = [conn EXCEPT ![a] = "none"]
      /\ lock' = IF lock = a THEN None ELSE lock
      /\ admin' = [admin EXCEPT ![a] = [pc |-> "idle", key |-> None]]
      /\ Flags'
      /\ UNCHANGED <<db, tmp, residue, claimed, vacuumed, ctx, acked>>
  BY FlagStep DEF AdminStep, SharedInv, StopLifecycle, EndTxn, Goto, adminOnly,
                  files
<1>2. TypeOK'
  BY <1>1 DEF Flags, SharedInv, TypeOK, Phase
<1>3. Conns'
  BY <1>1 DEF SharedInv, Conns, TypeOK
<1>4. Encrypted'
  BY <1>1 DEF SharedInv, Encrypted, Scrubbing, TypeOK
<1>5. Sealed'
  BY <1>1 DEF SharedInv, Sealed, TypeOK
<1>6. Unique'
  BY <1>1, UniqueFrame DEF SharedInv
<1>7. QED
  BY <1>2, <1>3, <1>4, <1>5, <1>6 DEF SharedInv

\* The steps of the scrubbing phase that leave the live file in place.
LEMMA ScrubStep ==
    ASSUME SharedInv, NEW a \in Admin,
           \/ UnlinkTmp(a) \/ VacuumInto(a) \/ VacuumDone(a)
           \/ UnlinkSidecars(a) \/ VacuumFails(a)
    PROVE  SharedInv'
<1> USE MeshStoreAssumption DEF Process
<1>1. /\ Scrubbing(a) \/ admin[a].pc = "sidecars"
      /\ \E pc \in Phase \ {"unlink", "txn"} :
            /\ admin' = [admin EXCEPT ![a] = [pc |-> pc, key |-> None]]
            /\ conn' = [conn EXCEPT ![a] = IF pc = "copy" THEN "live" ELSE "none"]
            /\ pc # "idle" => Scrubbing(a) /\ Scrubbing(a)'
      /\ tmp' \in {None, tmp} \/ (tmp' = db /\ Scrubbing(a))
      /\ vacuumed' \in BOOLEAN
      /\ Flags'
      /\ UNCHANGED <<db, residue, lock, claimed, ctx, acked>>
  <2>1. Flags'
    BY FlagStep DEF AdminStep, SharedInv
  <2>2. admin[a].pc # "copy" /\ admin[a].pc # "txn"
          => conn[a] = "none" /\ conn = [conn EXCEPT ![a] = "none"]
    BY DEF SharedInv, Conns, TypeOK
  <2>3. \A pc : admin' = [admin EXCEPT ![a] = [pc |-> pc, key |-> None]]
                => admin'[a].pc = pc
    BY DEF SharedInv, TypeOK
  <2>4. CASE UnlinkTmp(a)
    BY <2>1, <2>2, <2>3, <2>4 DEF UnlinkTmp, Goto, adminOnly, scrubOnly, Scrubbing,
                             Phase, SharedInv, TypeOK
  <2>5. CASE VacuumInto(a)
    BY <2>1, <2>2, <2>3, <2>5 DEF VacuumInto, Goto, adminOnly, Scrubbing, Phase,
                             SharedInv, TypeOK
  <2>6. CASE VacuumDone(a)
    BY <2>1, <2>2, <2>3, <2>6 DEF VacuumDone, Goto, adminOnly, scrubOnly, Scrubbing,
                             Phase, SharedInv, TypeOK
  <2>7. CASE UnlinkSidecars(a)
    BY <2>1, <2>2, <2>3, <2>7 DEF UnlinkSidecars, Goto, adminOnly, files, Phase,
                             SharedInv, TypeOK
  <2>8. CASE VacuumFails(a)
    BY <2>1, <2>2, <2>3, <2>8 DEF VacuumFails, Goto, adminOnly, Scrubbing, Phase,
                             SharedInv, TypeOK
  <2>9. QED
    BY <2>4, <2>5, <2>6, <2>7, <2>8
<1>2. TypeOK'
  <2>1. conn' \in [Process -> {"none", "live", "orphan"}]
    BY <1>1 DEF SharedInv, TypeOK
  <2>2. admin' \in [Admin -> [pc : Phase, key : Key \cup {None}]]
    BY <1>1 DEF SharedInv, TypeOK
  <2>3. tmp' \in Image \cup {None}
    BY <1>1 DEF SharedInv, TypeOK
  <2>4. QED
    BY <1>1, <2>1, <2>2, <2>3 DEF Flags, SharedInv, TypeOK
<1>3. Conns'
  BY <1>1 DEF SharedInv, Conns, TypeOK, Scrubbing
<1>4. Encrypted'
  BY <1>1 DEF SharedInv, Encrypted, Scrubbing, TypeOK
<1>5. Sealed'
  BY <1>1 DEF SharedInv, Sealed, TypeOK
<1>6. Unique'
  BY <1>1 DEF SharedInv, Unique, UniquePerMode, SameFacade
<1>7. QED
  BY <1>2, <1>3, <1>4, <1>5, <1>6 DEF SharedInv

\* The swap: the file that becomes live was encrypted when it was copied, and
\* a transaction in progress is left on the old one.
LEMMA ReplaceStep ==
    ASSUME SharedInv, NEW a \in Admin, Replace(a)
    PROVE  SharedInv' /\ db'.active \in Key
<1> USE MeshStoreAssumption DEF Process
<1>1. /\ admin[a].pc = "swap"
      /\ tmp # None
      /\ db' = tmp
      /\ tmp' = None
      /\ residue' = FALSE
      /\ conn' = [p \in Process |-> IF conn[p] = "live" THEN "orphan" ELSE conn[p]]
      /\ lock' = None
      /\ admin' = [admin EXCEPT ![a] = [pc |-> "sidecars", key |-> None]]
      /\ vacuumed' = TRUE
      /\ Flags'
      /\ UNCHANGED <<claimed, ctx, acked>>
  BY FlagStep DEF AdminStep, SharedInv, Replace, Goto, adminOnly
<1>2. db' \in Image /\ db'.active \in Key /\ db'.active # Plain
  BY <1>1 DEF SharedInv, TypeOK, Encrypted
<1>3. TypeOK'
  BY <1>1, <1>2 DEF Flags, SharedInv, TypeOK, Phase
<1>4. Conns'
  BY <1>1 DEF SharedInv, Conns, TypeOK
<1>5. Encrypted'
  BY <1>1, <1>2 DEF SharedInv, Encrypted
<1>6. Sealed'
  BY <1>1, <1>2 DEF Sealed
<1>7. Unique'
  BY <1>1 DEF SharedInv, Unique, UniquePerMode, SameFacade
<1>8. QED
  BY <1>2, <1>3, <1>4, <1>5, <1>6, <1>7 DEF SharedInv

\* The invariant is inductive, and no step turns encryption off.
LEMMA SharedStep ==
    ASSUME SharedInv, [Next]_vars
    PROVE  SharedInv' /\ (db.active # Plain => db'.active # Plain)
<1> USE MeshStoreAssumption
<1>1. ASSUME NEW c \in Client, ClientStep(c)
      PROVE  SharedInv' /\ db'.active = db.active
  <2>1. CASE ClientWrite(c)
    BY <2>1, ClientWriteKeepsShared, ClientWriteStep DEF Written
  <2>2. CASE (\E k \in Key : Open(c, k)) \/ Close(c) \/ Begin(c) \/ Abort(c)
    <3>1. db' = db
      BY <2>2 DEF Open, Close, Begin, Abort
    <3>2. QED
      BY <2>2, <3>1, ClientFrameStep
  <2>3. QED
    BY <1>1, <2>1, <2>2 DEF ClientStep
<1>2. ASSUME NEW a \in Admin, AdminStep(a)
      PROVE  SharedInv' /\ (db.active # Plain => db'.active # Plain)
  <2>1. CASE CommitLifecycle(a) \/ Replace(a)
    BY <2>1, CommitLifecycleStep, ReplaceStep
  <2>2. CASE \/ \E k \in Key : BeginEnable(a, k)
             \/ \E old, k \in Key : BeginRotate(a, old, k)
    <3>1. db' = db
      BY <2>2 DEF BeginEnable, BeginRotate, BeginLifecycle, files
    <3>2. QED
      BY <2>2, <3>1, BeginLifecycleStep
  <2>3. CASE StopLifecycle(a)
    BY <2>3, StopLifecycleStep DEF StopLifecycle, files
  <2>4. CASE \/ UnlinkTmp(a) \/ VacuumInto(a) \/ VacuumDone(a)
             \/ UnlinkSidecars(a) \/ VacuumFails(a)
    <3>1. db' = db
      BY <2>4 DEF UnlinkTmp, VacuumInto, VacuumDone, UnlinkSidecars, VacuumFails,
                  files
    <3>2. QED
      BY <2>4, <3>1, ScrubStep
  <2>5. QED
    BY <1>2, <2>1, <2>2, <2>3, <2>4 DEF AdminStep
<1>3. CASE UNCHANGED vars
  BY <1>3 DEF vars, files, SharedInv, TypeOK, Conns, Encrypted, Scrubbing,
              Sealed, Unique, UniquePerMode, SameFacade
<1>4. QED
  BY <1>1, <1>2, <1>3 DEF Next, Malformed

\* The invariant holds in every reachable state.
THEOREM SharedInvariant == Spec => []SharedInv
<1>1. SharedInv /\ [Next]_vars => SharedInv'
  BY SharedStep
<1>2. QED
  BY SharedInit, <1>1, PTL DEF Spec

\* Every variable keeps its type.
THEOREM TypeCorrect == Spec => []TypeOK
<1>1. SharedInv => TypeOK
  BY DEF SharedInv
<1>2. QED
  BY SharedInvariant, <1>1, PTL

\* Stores that share a cached mode never store one facade content twice, even
\* across re-keyings, failed commands, swaps and stale stores.
THEOREM FacadeUniquePerModeHolds == Spec => []FacadeUniquePerMode
<1>1. SharedInv => FacadeUniquePerMode
  BY DEF SharedInv, Unique, FacadeUniquePerMode
<1>2. QED
  BY SharedInvariant, <1>1, PTL

\* A lifecycle command between VACUUM INTO and the swap knows where the copy it
\* made is; one at the temporary path is there, and whole before the swap.
Copies ==
    /\ \A a \in Admin : made[a] # "none" <=> admin[a].pc \in {"copy", "swap"}
    /\ \A a \in Admin : made[a] = "tmp" =>
          /\ tmp # None
          /\ admin[a].pc = "swap" => "tmp" \notin unfinished

\* Every step keeps track of the copies, and an unfinished one becomes the live
\* file only in a swap by a command whose own copy is gone.
LEMMA CopiesStep ==
    ASSUME TypeOK, Copies, [Next]_vars
    PROVE  /\ Copies'
           /\ "live" \in unfinished' \ unfinished
                => \E a \in Admin : SwapsForeign(a)
<1> USE MeshStoreAssumption
<1>1. CASE \/ UNCHANGED vars \/ Malformed
           \/ \E c \in Client : ClientStep(c)
  <2>1. UNCHANGED <<tmp, unfinished, made, admin>>
    BY <1>1 DEF vars, files, Malformed, ClientStep, Open, Close, Begin, Abort,
                ClientWrite, StoreFacade, InsertMessage, SaveEmbedding, SetSide,
                RebuildIndex, clientOnly
  <2>2. QED
    BY <2>1 DEF Copies
<1>2. ASSUME NEW a \in Admin, AdminStep(a)
      PROVE  /\ Copies'
             /\ "live" \in unfinished' \ unfinished => SwapsForeign(a)
  <2>1. CASE \/ \E k \in Key : BeginEnable(a, k)
             \/ \E old, k \in Key : BeginRotate(a, old, k)
             \/ CommitLifecycle(a)
    <3>1. /\ UNCHANGED <<tmp, unfinished, made>>
          /\ admin[a].pc \in {"idle", "txn"}
          /\ \E k \in Key \cup {None}, pc \in {"txn", "unlink"} :
                admin' = [admin EXCEPT ![a] = [pc |-> pc, key |-> k]]
      BY <2>1 DEF BeginEnable, BeginRotate, BeginLifecycle, CommitLifecycle, Idle,
                  Goto, files, filesOnly
    <3>2. QED
      BY <3>1 DEF Copies, TypeOK
  <2>2. CASE StopLifecycle(a)
    BY <2>2 DEF StopLifecycle, Goto, files, Copies, TypeOK
  <2>3. CASE UnlinkTmp(a)
    BY <2>3 DEF UnlinkTmp, TmpTaken, Goto, Copies, TypeOK
  <2>4. CASE VacuumInto(a)
    <3>1. tmp' # None
      BY <2>4, NoFileAssumption DEF VacuumInto, TypeOK
    <3>2. \A b \in Admin : made[b] # "tmp"
      BY <2>4 DEF VacuumInto, Copies
    <3>3. QED
      BY <2>4, <3>1, <3>2 DEF VacuumInto, Goto, Copies, TypeOK
  <2>5. CASE VacuumDone(a)
    BY <2>5 DEF VacuumDone, Goto, Copies, TypeOK
  <2>6. CASE Replace(a)
    <3>1. /\ admin[a].pc = "swap" /\ admin'[a].pc = "sidecars"
          /\ made[a] # "none"
      BY <2>6 DEF Replace, Goto, Copies, TypeOK
    <3>2. "live" \in unfinished' => SwapsForeign(a)
      BY <2>6, <3>1 DEF Replace, SwapsForeign, Copies, TypeOK
    <3>3. \A b \in Admin : /\ made'[b] # "tmp"
                           /\ made'[b] # "none" <=> b # a /\ made[b] # "none"
      BY <2>6 DEF Replace, TmpTaken, TypeOK
    <3>4. Copies'
      BY <2>6, <3>3 DEF Replace, Goto, Copies, TypeOK
    <3>5. QED
      BY <3>2, <3>4
  <2>7. CASE UnlinkSidecars(a)
    BY <2>7 DEF UnlinkSidecars, Goto, files, Copies, TypeOK
  <2>8. CASE VacuumFails(a)
    BY <2>8 DEF VacuumFails, TmpTaken, Goto, Copies, TypeOK
  <2>9. QED
    BY <1>2, <2>1, <2>2, <2>3, <2>4, <2>5, <2>6, <2>7, <2>8 DEF AdminStep
<1>3. QED
  BY <1>1, <1>2 DEF Next

\* No interleaving of lifecycle commands, kills and swaps puts a plaintext file
\* in the place of an encrypted one; a copy that VACUUM INTO has not finished
\* gets there only if another command took away that of the one that swaps.
THEOREM NeverDisabledHolds == Spec => NeverDisabled
<1>1. Init => Copies
  BY DEF Init, Copies
<1>2. TypeOK /\ Copies /\ [Next]_vars => Copies'
  BY CopiesStep
<1>3. SharedInv /\ Copies /\ [Next]_vars =>
        [/\ db.active # Plain => db'.active # Plain
         /\ "live" \in unfinished' \ unfinished
               => \E a \in Admin : SwapsForeign(a)]_<<db, unfinished>>
  BY SharedStep, CopiesStep DEF SharedInv
<1>4. QED
  BY <1>1, <1>2, <1>3, SharedInvariant, TypeCorrect, PTL DEF Spec, NeverDisabled

-----------------------------------------------------------------------------
(***************************************************************************)
(* Freed pages.                                                            *)
(***************************************************************************)

\* While the last report was "vacuumed", the live file is the vacuumed copy,
\* and no lifecycle command holds a transaction on it whose commit would leave
\* plaintext in its pages: the swap took the file away from the commands that
\* had one, and a new command withdraws the report.
Scrubbed ==
    vacuumed => /\ ~residue
                /\ \A a \in Admin : admin[a].pc = "txn" => conn[a] # "live"

\* Only a lifecycle command touches the report, the freed pages or its own
\* connection.
LEMMA ClientScrubbedStep ==
    ASSUME TypeOK, Scrubbed, NEW c \in Client, ClientStep(c)
    PROVE  Scrubbed'
<1> USE MeshStoreAssumption DEF Process
<1>1. UNCHANGED <<residue, vacuumed, admin>>
  BY DEF ClientStep, Open, Close, Begin, Abort, ClientWrite, StoreFacade,
         InsertMessage, SaveEmbedding, SetSide, RebuildIndex, clientOnly
<1>2. \E to \in {"none", "live"} : conn' \in {conn, [conn EXCEPT ![c] = to]}
  BY DEF ClientStep, Open, Close, Begin, Abort, ClientWrite, StoreFacade,
         InsertMessage, SaveEmbedding, SetSide, RebuildIndex, BeginTxn, Commit,
         EndTxn
<1>3. \A a \in Admin : conn'[a] = conn[a] /\ admin'[a] = admin[a]
  BY <1>1, <1>2 DEF TypeOK
<1>4. QED
  BY <1>1, <1>3 DEF Scrubbed

\* A lifecycle command leaves plaintext behind only by a commit to the live
\* file, and reports "vacuumed" only with the swap.
LEMMA AdminScrubbedStep ==
    ASSUME TypeOK, Scrubbed, NEW a \in Admin, AdminStep(a)
    PROVE  Scrubbed'
<1> USE MeshStoreAssumption DEF Process
<1>1. CASE \/ \E k \in Key : BeginEnable(a, k)
           \/ \E old, k \in Key : BeginRotate(a, old, k)
  BY <1>1 DEF BeginEnable, BeginRotate, BeginLifecycle, Scrubbed
<1>2. CASE CommitLifecycle(a)
  <2>1. /\ residue' = (residue \/ conn[a] = "live")
        /\ conn' = [conn EXCEPT ![a] = "none"]
        /\ vacuumed' = vacuumed
        /\ admin[a].pc = "txn"
        /\ admin' = [admin EXCEPT ![a] = [pc |-> "unlink", key |-> None]]
    BY <1>2 DEF CommitLifecycle, Commit, EndTxn, Goto
  <2>2. QED
    BY <2>1 DEF Scrubbed, TypeOK
<1>3. CASE StopLifecycle(a)
  <2>1. /\ conn' = [conn EXCEPT ![a] = "none"]
        /\ admin' = [admin EXCEPT ![a] = [pc |-> "idle", key |-> None]]
        /\ UNCHANGED <<residue, vacuumed>>
    BY <1>3 DEF StopLifecycle, EndTxn, Goto
  <2>2. QED
    BY <2>1 DEF Scrubbed, TypeOK
<1>4. CASE UnlinkTmp(a) \/ VacuumInto(a) \/ VacuumDone(a) \/ UnlinkSidecars(a)
  <2>1. /\ \E to \in {"none", "live"} : conn' \in {conn, [conn EXCEPT ![a] = to]}
        /\ \E pc \in {"vacuum", "copy", "swap", "idle"} :
              admin' = [admin EXCEPT ![a] = [pc |-> pc, key |-> None]]
        /\ UNCHANGED <<residue, vacuumed>>
    BY <1>4 DEF UnlinkTmp, VacuumInto, VacuumDone, UnlinkSidecars, Goto, scrubOnly
  <2>2. QED
    BY <2>1 DEF Scrubbed, TypeOK
<1>5. CASE VacuumFails(a)
  BY <1>5 DEF VacuumFails, Scrubbed
<1>6. CASE Replace(a)
  <2>1. /\ residue' = FALSE
        /\ \A p \in Process : conn'[p] # "live"
    BY <1>6 DEF Replace
  <2>2. QED
    BY <2>1 DEF Scrubbed
<1>7. QED
  BY <1>1, <1>2, <1>3, <1>4, <1>5, <1>6 DEF AdminStep

\* A report of a scrubbed file stays true until the next lifecycle command,
\* whatever other commands and stores did in the meantime.
THEOREM ScrubHonestHolds == Spec => []ScrubHonest
<1>1. Init => Scrubbed
  BY DEF Init, Scrubbed
<1>2. TypeOK /\ Scrubbed /\ [Next]_vars => Scrubbed'
  <2>1. UNCHANGED vars /\ Scrubbed => Scrubbed'
    BY DEF vars, Scrubbed
  <2>2. QED
    BY <2>1, ClientScrubbedStep, AdminScrubbedStep DEF Next, Malformed
<1>3. Scrubbed => ScrubHonest
  BY DEF Scrubbed, ScrubHonest
<1>4. QED
  BY <1>1, <1>2, <1>3, TypeCorrect, PTL DEF Spec

-----------------------------------------------------------------------------
(***************************************************************************)
(* Source keys.                                                            *)
(***************************************************************************)

\* A provider's identity names at most one row of the image, and facade rows
\* carry none.
SourcesApart(image) ==
    /\ \A i, j \in DOMAIN image.rows :
          /\ image.rows[i].source # None
          /\ image.rows[i].source = image.rows[j].source
          => i = j
    /\ \A i \in DOMAIN image.rows :
          image.rows[i].facade => image.rows[i].source = None

Sources == SourcesApart(db) /\ (tmp # None => SourcesApart(tmp))

\* An image with the rows of another, as far as identity and owner go.
LEMMA SourcesSame ==
    ASSUME NEW old, NEW new, SourcesApart(old),
           DOMAIN new.rows = DOMAIN old.rows,
           \A i \in DOMAIN old.rows :
              /\ new.rows[i].source = old.rows[i].source
              /\ new.rows[i].facade = old.rows[i].facade
    PROVE  SourcesApart(new)
  BY DEF SourcesApart

\* An appended row whose identity no row has yet, or that has none.
LEMMA SourcesAppended ==
    ASSUME db \in Image, SourcesApart(db), NEW row \in Row,
           row.facade => row.source = None,
           row.source # None =>
              \A i \in DOMAIN db.rows : db.rows[i].source # row.source
    PROVE  SourcesApart(WithRow(row))
<1> DEFINE n == Len(db.rows)
           rows == Append(db.rows, row)
<1>1. db.rows \in Seq(Row) /\ n \in Nat /\ DOMAIN db.rows = 1..n
  BY DEF Image
<1>2. /\ DOMAIN rows = 1..(n + 1)
      /\ \A i \in 1..n : rows[i] = db.rows[i]
      /\ rows[n + 1] = row
  BY <1>1
<1>3. WithRow(row).rows = rows
  BY DEF WithRow, Image
<1> HIDE DEF n, rows
<1>4. \A i \in DOMAIN rows : i \in DOMAIN db.rows \/ i = n + 1
  BY <1>1, <1>2
<1>5. QED
  BY <1>1, <1>2, <1>3, <1>4 DEF SourcesApart

\* What a store may write of rows: nothing, one row with an identity that is
\* new, or rows that keep theirs.
LEMMA ClientSourcesStep ==
    ASSUME TypeOK, Conns, Sources, NEW c \in Client, ClientStep(c)
    PROVE  Sources'
<1>1. db \in Image /\ SourcesApart(db)
  BY DEF TypeOK, Sources
<1>2. tmp' = tmp
  BY DEF ClientStep, Open, Close, Begin, Abort, ClientWrite, StoreFacade,
         InsertMessage, SaveEmbedding, SetSide, RebuildIndex, clientOnly
<1>3. ASSUME conn[c] # "none"
      PROVE  ctx[c] \in Mode
  BY <1>3 DEF TypeOK, Conns
<1>4. SourcesApart(db')
  <2>1. CASE (\E k \in Key : Open(c, k)) \/ Close(c) \/ Begin(c) \/ Abort(c)
    BY <1>1, <2>1 DEF Open, Close, Begin, Abort
  <2>2. ASSUME NEW x \in Content, NEW t \in Stamp, StoreFacade(c, x, t)
        PROVE  SourcesApart(db')
    <3> DEFINE row == [content |-> x, stamp |-> t, source |-> None,
                       facade |-> TRUE, seal |-> ctx[c],
                       term |-> ctx[c], emb |-> ctx[c]]
    <3>1. db' \in {db, WithRow(row)} /\ conn[c] # "none"
      BY <2>2 DEF StoreFacade, Commit
    <3>2. row \in Row /\ row.source = None
      BY <1>3, <3>1 DEF Row
    <3> HIDE DEF row
    <3>3. SourcesApart(WithRow(row))
      BY <1>1, <3>2, SourcesAppended
    <3>4. QED
      BY <1>1, <3>1, <3>3
  <2>3. ASSUME NEW x \in Content, NEW t \in Stamp,
               NEW s \in SourceKey \cup {None}, InsertMessage(c, x, t, s)
        PROVE  SourcesApart(db')
    <3> DEFINE row == [content |-> x, stamp |-> t, source |-> s,
                       facade |-> FALSE, seal |-> ctx[c],
                       term |-> ctx[c], emb |-> None]
               ignored == \E i \in DOMAIN db.rows : Blocks(c, db.rows[i], x, t, s)
    <3>1. /\ db' = db \/ (~ignored /\ db' = WithRow(row))
          /\ conn[c] # "none"
      BY <2>3 DEF InsertMessage, Commit
    <3>2. row \in Row /\ row.source = s /\ ~row.facade
      BY <1>3, <3>1 DEF Row
    <3>3. ASSUME ~ignored, s # None, NEW i \in DOMAIN db.rows,
                 db.rows[i].source = s
          PROVE  FALSE
      BY <1>1, <3>3 DEF Blocks, SourcesApart
    <3> HIDE DEF row
    <3>4. ~ignored => SourcesApart(WithRow(row))
      BY <1>1, <3>2, <3>3, SourcesAppended
    <3>5. QED
      BY <1>1, <3>1, <3>4
  <2>4. ASSUME NEW i \in DOMAIN db.rows, SaveEmbedding(c, i)
        PROVE  SourcesApart(db')
    <3> DEFINE image == [db EXCEPT !.rows[i].emb = ctx[c]]
    <3>1. db' \in {db, image}
      BY <2>4 DEF SaveEmbedding, Commit
    <3>2. /\ DOMAIN image.rows = DOMAIN db.rows
          /\ \A j \in DOMAIN db.rows :
                /\ image.rows[j].source = db.rows[j].source
                /\ image.rows[j].facade = db.rows[j].facade
      <4>1. db.rows \in Seq(Row)
        BY <1>1 DEF Image
      <4>2. \A j \in DOMAIN db.rows : db.rows[j] \in Row
        BY <4>1
      <4>3. image.rows = [db.rows EXCEPT ![i].emb = ctx[c]]
        BY <1>1 DEF Image
      <4>4. QED
        BY <4>2, <4>3 DEF Row
    <3> HIDE DEF image
    <3>3. SourcesApart(image)
      BY <1>1, <3>2, SourcesSame
    <3>4. QED
      BY <1>1, <3>1, <3>3
  <2>5. ASSUME NEW s \in Slot, SetSide(c, s)
        PROVE  SourcesApart(db')
    <3>1. db'.rows = db.rows
      BY <1>1, <2>5 DEF SetSide, Commit, Image
    <3>2. QED
      BY <1>1, <3>1 DEF SourcesApart
  <2>6. ASSUME RebuildIndex(c)
        PROVE  SourcesApart(db')
    <3> DEFINE image == [db EXCEPT !.rows = RebuiltIndex(db.rows)]
    <3>1. db' \in {db, image}
      BY <2>6 DEF RebuildIndex, Commit
    <3>2. /\ DOMAIN image.rows = DOMAIN db.rows
          /\ \A j \in DOMAIN db.rows :
                /\ image.rows[j].source = db.rows[j].source
                /\ image.rows[j].facade = db.rows[j].facade
      <4>1. db.rows \in Seq(Row)
        BY <1>1 DEF Image
      <4>2. \A j \in DOMAIN db.rows : db.rows[j] \in Row
        BY <4>1
      <4>3. image.rows = RebuiltIndex(db.rows)
        BY <1>1 DEF Image
      <4>4. QED
        BY <4>2, <4>3 DEF Row, RebuiltIndex
    <3> HIDE DEF image
    <3>3. SourcesApart(image)
      BY <1>1, <3>2, SourcesSame
    <3>4. QED
      BY <1>1, <3>1, <3>3
  <2>7. QED
    BY <2>1, <2>2, <2>3, <2>4, <2>5, <2>6 DEF ClientStep, ClientWrite
<1>5. QED
  BY <1>2, <1>4 DEF Sources, SourcesApart

\* A re-keying leaves the column alone, and a swap brings in a copy.
LEMMA AdminSourcesStep ==
    ASSUME TypeOK, Sources, NEW a \in Admin, AdminStep(a)
    PROVE  Sources'
<1>1. CASE \/ \E k \in Key : BeginEnable(a, k)
           \/ \E old, k \in Key : BeginRotate(a, old, k)
           \/ StopLifecycle(a)
  <2>1. db' = db /\ tmp' = tmp
    BY <1>1 DEF BeginEnable, BeginRotate, BeginLifecycle, StopLifecycle, files
  <2>2. QED
    BY <2>1 DEF Sources, SourcesApart
<1>2. CASE CommitLifecycle(a)
  <2> DEFINE image == Reseal(db, admin[a].key)
  <2>1. db' \in {db, image} /\ tmp' = tmp
    BY <1>2 DEF CommitLifecycle, Commit
  <2>2. \A i \in DOMAIN db.rows : db.rows[i] \in Row
    <3>1. db.rows \in Seq(Row)
      BY DEF TypeOK, Image
    <3>2. QED
      BY <3>1
  <2>3. /\ DOMAIN image.rows = DOMAIN db.rows
        /\ \A i \in DOMAIN db.rows :
              /\ image.rows[i].source = db.rows[i].source
              /\ image.rows[i].facade = db.rows[i].facade
    BY <2>2 DEF Reseal, Row
  <2> HIDE DEF image
  <2>4. SourcesApart(image)
    BY <2>3, SourcesSame DEF Sources
  <2>5. QED
    BY <2>1, <2>4 DEF Sources, SourcesApart
<1>3. CASE \/ UnlinkTmp(a) \/ VacuumInto(a) \/ VacuumDone(a)
           \/ UnlinkSidecars(a) \/ VacuumFails(a)
  <2>1. db' = db /\ tmp' \in {None, tmp, db}
    BY <1>3 DEF UnlinkTmp, VacuumInto, VacuumDone, UnlinkSidecars, VacuumFails,
                files
  <2>2. QED
    BY <2>1 DEF Sources, SourcesApart
<1>4. CASE Replace(a)
  <2>1. db' = tmp /\ tmp # None /\ tmp' = None
    BY <1>4 DEF Replace
  <2>2. QED
    BY <2>1 DEF Sources, SourcesApart
<1>5. QED
  BY <1>1, <1>2, <1>3, <1>4 DEF AdminStep

\* An import run again, also by a store with another cached key, adds no
\* second row for an identity.
THEOREM SourceKeyUniqueHolds == Spec => []SourceKeyUnique
<1>1. Init => Sources
  <2>1. Init => DOMAIN db.rows = {} /\ tmp = None
    BY DEF Init
  <2>2. QED
    BY <2>1 DEF Sources, SourcesApart
<1>2. SharedInv /\ Sources /\ [Next]_vars => Sources'
  <2>1. UNCHANGED vars /\ Sources => Sources'
    BY DEF vars, files, Sources, SourcesApart
  <2>2. QED
    BY <2>1, ClientSourcesStep, AdminSourcesStep DEF Next, Malformed, SharedInv
<1>3. Sources => SourceKeyUnique
  BY DEF Sources, SourcesApart, SourceKeyUnique
<1>4. QED
  BY <1>1, <1>2, <1>3, SharedInvariant, PTL DEF Spec

-----------------------------------------------------------------------------
(***************************************************************************)
(* Under the discipline that the code leaves to its operator: a key        *)
(* lifecycle command runs alone (Exclusive).  Then every stored value      *)
(* stays readable, no acknowledged memory and no committed key is lost,    *)
(* and the facade implements MemoryBook.                                   *)
(***************************************************************************)

\* Open stores have the database's context and no lifecycle command runs
\* beside them; at most one command runs, on the live file, and the copy it
\* swaps in is the database it was taken from; no log outlives its file.
Alone ==
    /\ ~sidecar
    /\ ~spoiled
    /\ \A c \in Client : ctx[c] # None =>
          /\ ctx[c] = db.active
          /\ \A a \in Admin : Idle(a)
    /\ \A a, b \in Admin : ~Idle(a) /\ ~Idle(b) => a = b
    /\ \A p \in Process : conn[p] # "orphan"
    /\ "live" \notin unfinished
    /\ \A a \in Admin : admin[a].pc \in {"copy", "swap"} =>
          /\ tmp # None => tmp = db
          /\ made[a] = "tmp"
          /\ admin[a].pc = "swap" => "tmp" \notin unfinished

ExclusiveInv ==
    /\ SharedInv
    /\ Alone
    /\ Readable
    /\ AckedDurable
    /\ LifecycleDurable

\* The initial state satisfies the invariant.
LEMMA ExclusiveInit == Init => ExclusiveInv
<1> SUFFICES ASSUME Init PROVE ExclusiveInv
  OBVIOUS
<1> USE MeshStoreAssumption
<1>1. Alone
  BY DEF Init, Alone, Idle, Process
<1>2. Readable /\ AckedDurable /\ LifecycleDurable
  BY DEF Init, Readable, AllUnderActiveKey, AckedDurable, LifecycleDurable
<1>3. QED
  BY <1>1, <1>2, SharedInit DEF ExclusiveInv

-----------------------------------------------------------------------------
(***************************************************************************)
(* The facade contents of the database across a step.                      *)
(***************************************************************************)

\* Updates in place keep the set of facade contents.
LEMMA SameContents ==
    ASSUME DOMAIN db'.rows = DOMAIN db.rows,
           \A i \in DOMAIN db.rows :
              /\ db'.rows[i].facade = db.rows[i].facade
              /\ db'.rows[i].content = db.rows[i].content
    PROVE  FacadeContents' = FacadeContents
  BY DEF FacadeContents

\* An appended row adds its content if it is a facade row.
LEMMA AppendedContents ==
    ASSUME db \in Image, NEW row \in Row, db' = WithRow(row)
    PROVE  FacadeContents' =
             FacadeContents \cup (IF row.facade THEN {row.content} ELSE {})
<1> DEFINE n == Len(db.rows)
           rows == Append(db.rows, row)
<1>1. db.rows \in Seq(Row) /\ n \in Nat /\ DOMAIN db.rows = 1..n
  BY DEF Image
<1>2. /\ DOMAIN rows = 1..(n + 1)
      /\ \A i \in 1..n : rows[i] = db.rows[i]
      /\ rows[n + 1] = row
  BY <1>1
<1>3. db'.rows = rows
  BY DEF WithRow, Image
<1> HIDE DEF n, rows
<1>4. \A i \in 1..(n + 1) : i \in 1..n \/ i = n + 1
  BY <1>1
<1>5. 1..n \subseteq 1..(n + 1) /\ n + 1 \in 1..(n + 1)
  BY <1>1
<1>6. QED
  BY <1>1, <1>2, <1>3, <1>4, <1>5 DEF FacadeContents

\* A store() on the live file puts its content among the facade contents.
LEMMA StoreContents ==
    ASSUME SharedInv, NEW c \in Client, NEW x \in Content, NEW t \in Stamp,
           StoreFacade(c, x, t), conn[c] = "live"
    PROVE  /\ FacadeContents' = FacadeContents \cup {x}
           /\ acked' \in {acked, acked \cup {x}}
<1> DEFINE row == [content |-> x, stamp |-> t, source |-> None,
                   facade |-> TRUE, seal |-> ctx[c],
                   term |-> ctx[c], emb |-> ctx[c]]
<1>1. ctx[c] \in Mode /\ db \in Image
  BY DEF SharedInv, Conns, TypeOK
<1>2. row \in Row
  BY <1>1 DEF Row
<1>3. CASE FoundFacade(c, x)
  <2>1. db' = db
    BY <1>3 DEF StoreFacade, Commit
  <2>2. x \in FacadeContents
    BY <1>3 DEF FoundFacade, FacadeContents
  <2>3. FacadeContents' = FacadeContents
    BY <2>1, SameContents
  <2>4. QED
    BY <2>2, <2>3 DEF StoreFacade
<1>4. CASE ~FoundFacade(c, x)
  <2>1. db' = WithRow(row)
    BY <1>4 DEF StoreFacade, Commit
  <2>2. row.facade /\ row.content = x
    OBVIOUS
  <2> HIDE DEF row
  <2>3. FacadeContents' = FacadeContents \cup {x}
    BY <1>1, <1>2, <2>1, <2>2, AppendedContents
  <2>4. QED
    BY <2>3 DEF StoreFacade
<1>5. QED
  BY <1>3, <1>4

\* No other operation of a store touches the facade rows.
LEMMA OtherContents ==
    ASSUME SharedInv, NEW c \in Client, ClientWrite(c), conn[c] = "live",
           ~ \E x \in Content, t \in Stamp : StoreFacade(c, x, t)
    PROVE  FacadeContents' = FacadeContents /\ acked' = acked
<1>1. ctx[c] \in Mode /\ db \in Image /\ db.rows \in Seq(Row)
  BY DEF SharedInv, Conns, TypeOK, Image
<1>2. ASSUME NEW x \in Content, NEW t \in Stamp,
             NEW s \in SourceKey \cup {None}, InsertMessage(c, x, t, s)
      PROVE  FacadeContents' = FacadeContents
  <2> DEFINE row == [content |-> x, stamp |-> t, source |-> s,
                     facade |-> FALSE, seal |-> ctx[c],
                     term |-> ctx[c], emb |-> None]
             ignored == \E i \in DOMAIN db.rows : Blocks(c, db.rows[i], x, t, s)
  <2>1. row \in Row /\ ~row.facade
    BY <1>1 DEF Row
  <2>2. CASE ignored
    <3>1. db' = db
      BY <1>2, <2>2 DEF InsertMessage, Commit
    <3>2. QED
      BY <3>1, SameContents
  <2>3. CASE ~ignored
    <3>1. db' = WithRow(row)
      BY <1>2, <2>3 DEF InsertMessage, Commit
    <3> HIDE DEF row
    <3>2. QED
      BY <1>1, <2>1, <3>1, AppendedContents
  <2>4. QED
    BY <2>2, <2>3
<1>3. ASSUME NEW i \in DOMAIN db.rows, SaveEmbedding(c, i)
      PROVE  FacadeContents' = FacadeContents
  <2>1. db' = [db EXCEPT !.rows[i].emb = ctx[c]]
    BY <1>3 DEF SaveEmbedding, Commit
  <2>2. \A j \in DOMAIN db.rows : db.rows[j] \in Row
    BY <1>1
  <2>3. db'.rows = [db.rows EXCEPT ![i].emb = ctx[c]]
    BY <1>1, <2>1 DEF Image
  <2>4. \A j \in DOMAIN db.rows : /\ db'.rows[j].facade = db.rows[j].facade
                                  /\ db'.rows[j].content = db.rows[j].content
    BY <2>2, <2>3 DEF Row
  <2>5. QED
    BY <2>3, <2>4, SameContents
<1>4. ASSUME NEW s \in Slot, SetSide(c, s)
      PROVE  FacadeContents' = FacadeContents
  <2>1. db'.rows = db.rows
    BY <1>1, <1>4 DEF SetSide, Commit, Image
  <2>2. QED
    BY <2>1, SameContents
<1>5. ASSUME RebuildIndex(c)
      PROVE  FacadeContents' = FacadeContents
  <2>1. db'.rows = RebuiltIndex(db.rows)
    BY <1>1, <1>5 DEF RebuildIndex, Commit, Image
  <2>2. \A j \in DOMAIN db.rows : db.rows[j] \in Row
    BY <1>1
  <2>3. DOMAIN db'.rows = DOMAIN db.rows
    BY <2>1 DEF RebuiltIndex
  <2>4. \A j \in DOMAIN db.rows : /\ db'.rows[j].facade = db.rows[j].facade
                                  /\ db'.rows[j].content = db.rows[j].content
    BY <2>1, <2>2 DEF RebuiltIndex, Row
  <2>5. QED
    BY <2>3, <2>4, SameContents
<1>6. acked' = acked
  BY DEF ClientWrite, InsertMessage, SaveEmbedding, SetSide, RebuildIndex
<1>7. QED
  BY <1>2, <1>3, <1>4, <1>5, <1>6 DEF ClientWrite

-----------------------------------------------------------------------------
(***************************************************************************)
(* The invariant, one class of steps at a time.  While a store is open or  *)
(* writes, no lifecycle command is under way, so what it writes is sealed  *)
(* in the active mode.                                                     *)
(***************************************************************************)

\* An open store works on the live file, in the active mode, alone.
LEMMA OpenStoreFacts ==
    ASSUME ExclusiveInv, NEW c \in Client, conn[c] # "none"
    PROVE  /\ conn[c] = "live"
           /\ ctx[c] = db.active
           /\ \A a \in Admin : Idle(a)
  BY DEF ExclusiveInv, SharedInv, Conns, Alone, TypeOK, Process

\* Every step of a store preserves the invariant and is a step, or a stutter,
\* of the book of memories.
LEMMA ClientExclusiveStep ==
    ASSUME ExclusiveInv, Exclusive, SharedInv', NEW c \in Client, ClientStep(c)
    PROVE  ExclusiveInv' /\ [Book!Next]_<<FacadeContents, acked>>
<1> USE MeshStoreAssumption DEF Process
<1>1. CASE (\E k \in Key : Open(c, k)) \/ Close(c) \/ Begin(c) \/ Abort(c)
  <2>1. UNCHANGED <<db, tmp, unfinished, made, admin, acked, claimed>>
    BY <1>1 DEF Open, Close, Begin, Abort, clientOnly
  <2>2. /\ UNCHANGED <<sidecar, spoiled>>
        /\ conn' \in {conn, [conn EXCEPT ![c] = "none"], [conn EXCEPT ![c] = "live"]}
        /\ \/ ctx' = [ctx EXCEPT ![c] = None]
           \/ ctx' = ctx
           \/ ctx' = [ctx EXCEPT ![c] = db.active] /\ \A a \in Admin : Idle(a)
    <3>1. sidecar = FALSE /\ spoiled = FALSE /\ "live" \notin unfinished
      BY DEF ExclusiveInv, SharedInv, TypeOK, Alone
    <3>2. QED
      BY <1>1, <3>1 DEF Open, Close, Begin, Abort, BeginTxn, EndTxn, Connect
  <2>3. FacadeContents' = FacadeContents
    BY <2>1, SameContents
  <2>4. Alone'
    BY <2>1, <2>2 DEF ExclusiveInv, SharedInv, TypeOK, Alone, Idle
  <2>5. Readable' /\ AckedDurable' /\ LifecycleDurable'
    BY <2>1, <2>3 DEF ExclusiveInv, Readable, AllUnderActiveKey, AckedDurable,
                      LifecycleDurable
  <2>6. QED
    BY <2>1, <2>3, <2>4, <2>5 DEF ExclusiveInv
<1>2. CASE ClientWrite(c)
  <2>1. /\ ctx[c] \in Mode
        /\ conn[c] = "live"
        /\ ctx[c] = db.active
        /\ \A a \in Admin : Idle(a)
        /\ conn' = [conn EXCEPT ![c] = "none"]
        /\ UNCHANGED <<sidecar, spoiled, ctx, tmp, unfinished, made, admin, claimed>>
        /\ db' = db \/ Written(c, db')
    BY <1>2, ClientWriteStep, OpenStoreFacts DEF ExclusiveInv, EndTxn
  <2>2. db'.active = db.active
    BY <2>1 DEF Written
  <2>3. Alone'
    BY <2>1, <2>2 DEF ExclusiveInv, SharedInv, TypeOK, Alone, Idle
  <2>4. Readable'
    <3>1. CASE db' = db
      BY <3>1 DEF ExclusiveInv, Readable, AllUnderActiveKey
    <3>2. CASE Written(c, db')
      BY <2>1, <3>2 DEF ExclusiveInv, Readable, AllUnderActiveKey, Written
    <3>3. QED
      BY <2>1, <3>1, <3>2
  <2>5. LifecycleDurable'
    BY <2>1, <2>2 DEF ExclusiveInv, LifecycleDurable
  <2>6. AckedDurable' /\ [Book!Next]_<<FacadeContents, acked>>
    <3>1. ASSUME NEW x \in Content, NEW t \in Stamp, StoreFacade(c, x, t)
          PROVE  AckedDurable' /\ Book!Next
      <4>1. /\ FacadeContents' = FacadeContents \cup {x}
            /\ acked' \in {acked, acked \cup {x}}
        BY <2>1, <3>1, StoreContents DEF ExclusiveInv
      <4>2. QED
        BY <4>1 DEF ExclusiveInv, AckedDurable, Book!Next, Book!Store
    <3>2. CASE ~ \E x \in Content, t \in Stamp : StoreFacade(c, x, t)
      <4>1. FacadeContents' = FacadeContents /\ acked' = acked
        BY <1>2, <2>1, <3>2, OtherContents DEF ExclusiveInv
      <4>2. QED
        BY <4>1 DEF ExclusiveInv, AckedDurable
    <3>3. QED
      BY <3>1, <3>2
  <2>7. QED
    BY <2>3, <2>4, <2>5, <2>6 DEF ExclusiveInv
<1>3. QED
  BY <1>1, <1>2 DEF ClientStep

\* A lifecycle command runs beside no other and no open store.
LEMMA RunningFacts ==
    ASSUME ExclusiveInv, NEW a \in Admin, ~Idle(a)
    PROVE  /\ \A c \in Client : ctx[c] = None
           /\ \A b \in Admin : b # a => Idle(b)
           /\ admin[a].pc = "txn" => conn[a] = "live"
  BY DEF ExclusiveInv, Alone, SharedInv, Conns, TypeOK, Process

\* A lifecycle step that leaves the database as it is, or replaces it by the
\* copy that equals it.
LEMMA KeepsDb ==
    ASSUME ExclusiveInv, SharedInv', Alone', db' = db, acked' = acked,
           claimed' = claimed
    PROVE  ExclusiveInv' /\ FacadeContents' = FacadeContents
<1>1. FacadeContents' = FacadeContents
  BY SameContents
<1>2. Readable' /\ AckedDurable' /\ LifecycleDurable'
  BY <1>1 DEF ExclusiveInv, Readable, AllUnderActiveKey, AckedDurable,
              LifecycleDurable
<1>3. QED
  BY <1>1, <1>2 DEF ExclusiveInv

\* Every step of a lifecycle command preserves the invariant and leaves the
\* book of memories as it is.
LEMMA AdminExclusiveStep ==
    ASSUME ExclusiveInv, Exclusive, SharedInv', NEW a \in Admin, AdminStep(a)
    PROVE  /\ ExclusiveInv'
           /\ FacadeContents' = FacadeContents
           /\ acked' = acked
<1> USE MeshStoreAssumption DEF Process
<1>1. CASE \/ \E k \in Key : BeginEnable(a, k)
           \/ \E old, k \in Key : BeginRotate(a, old, k)
  <2>1. /\ \A c \in Client : ctx[c] = None
        /\ \A b \in Admin : Idle(b)
        /\ conn' = [conn EXCEPT ![a] = "live"]
        /\ \E k \in Key : admin' = [admin EXCEPT ![a] = [pc |-> "txn", key |-> k]]
        /\ UNCHANGED <<sidecar, spoiled, db, tmp, unfinished, made, claimed, ctx,
                       acked>>
    <3>1. sidecar = FALSE /\ spoiled = FALSE /\ "live" \notin unfinished
      BY DEF ExclusiveInv, SharedInv, TypeOK, Alone
    <3>2. QED
      BY <1>1, <3>1 DEF BeginEnable, BeginRotate, BeginLifecycle, BeginTxn,
                        Connect, adminOnly, files
  <2>2. Alone'
    BY <2>1 DEF ExclusiveInv, SharedInv, TypeOK, Alone, Idle
  <2>3. QED
    BY <2>1, <2>2, KeepsDb
<1>2. CASE CommitLifecycle(a)
  <2> DEFINE k == admin[a].key
  <2>1. admin[a].pc = "txn"
    BY <1>2 DEF CommitLifecycle
  <2>2. conn[a] = "live"
    BY <2>1, RunningFacts DEF Idle
  <2>3. /\ db' = Reseal(db, k)
        /\ conn' = [conn EXCEPT ![a] = "none"]
        /\ claimed' = k
        /\ admin' = [admin EXCEPT ![a] = [pc |-> "unlink", key |-> None]]
        /\ UNCHANGED <<sidecar, spoiled, tmp, unfinished, made, ctx, acked>>
    BY <1>2, <2>2 DEF CommitLifecycle, Commit, EndTxn, Goto, adminOnly, filesOnly
  <2>4. k \in Key /\ db \in Image
    BY <2>1 DEF ExclusiveInv, SharedInv, Conns, TypeOK
  <2>5. /\ db'.active = k
        /\ DOMAIN db'.rows = DOMAIN db.rows
        /\ \A i \in DOMAIN db.rows :
              /\ db'.rows[i].facade = db.rows[i].facade
              /\ db'.rows[i].content = db.rows[i].content
              /\ db'.rows[i].seal = k
              /\ db'.rows[i].emb \in {None, k}
        /\ \A s \in Slot : db'.side[s] \in {None, k}
    BY <2>3, <2>4, ResealFacts
  <2> HIDE DEF k
  <2>6. FacadeContents' = FacadeContents
    BY <2>5, SameContents
  <2>7. Alone'
    BY <2>1, <2>3, RunningFacts DEF ExclusiveInv, SharedInv, TypeOK, Alone, Idle
  <2>8. Readable' /\ LifecycleDurable' /\ AckedDurable'
    BY <2>3, <2>5, <2>6 DEF ExclusiveInv, Readable, AllUnderActiveKey,
                            LifecycleDurable, AckedDurable
  <2>9. QED
    BY <2>3, <2>6, <2>7, <2>8 DEF ExclusiveInv
<1>3. CASE \/ StopLifecycle(a) \/ UnlinkTmp(a) \/ VacuumInto(a) \/ VacuumDone(a)
           \/ UnlinkSidecars(a) \/ VacuumFails(a)
  <2>1. /\ ~Idle(a)
        /\ \E pc \in {"idle", "vacuum", "copy", "swap"} :
              /\ admin' = [admin EXCEPT ![a] = [pc |-> pc, key |-> None]]
              /\ pc \in {"copy", "swap"} => /\ tmp' # None => tmp' = db
                                            /\ made'[a] = "tmp"
              /\ pc = "swap" => "tmp" \notin unfinished'
        /\ \E to \in {"none", "live"} : conn' \in {conn, [conn EXCEPT ![a] = to]}
        /\ "live" \notin unfinished'
        /\ sidecar' = FALSE
        /\ spoiled' = FALSE
        /\ UNCHANGED <<db, claimed, ctx, acked>>
    <3>1. sidecar = FALSE /\ spoiled = FALSE /\ "live" \notin unfinished
      BY DEF ExclusiveInv, SharedInv, TypeOK, Alone
    <3>2. admin[a].pc = "sidecars" => ~LiveOpen
      BY RunningFacts DEF ExclusiveInv, SharedInv, Conns, TypeOK, Idle, LiveOpen
    <3>3. ~Idle(a)
      BY <1>3 DEF StopLifecycle, UnlinkTmp, VacuumInto, VacuumDone, UnlinkSidecars,
                  VacuumFails, Idle
    <3>4. CASE StopLifecycle(a)
      BY <3>1, <3>3, <3>4 DEF StopLifecycle, EndTxn, Goto, files, adminOnly
    <3>5. CASE UnlinkTmp(a)
      BY <3>1, <3>3, <3>5 DEF UnlinkTmp, Goto, scrubOnly, adminOnly
    <3>6. CASE VacuumInto(a)
      BY <3>1, <3>3, <3>6 DEF VacuumInto, Connect, Goto, adminOnly, ExclusiveInv,
                              SharedInv, TypeOK
    <3>7. CASE VacuumDone(a)
      BY <3>1, <3>3, <3>7 DEF VacuumDone, Goto, scrubOnly, adminOnly, ExclusiveInv,
                              Alone
    <3>8. CASE UnlinkSidecars(a)
      BY <3>1, <3>2, <3>3, <3>8 DEF UnlinkSidecars, Goto, files, adminOnly
    <3>9. CASE VacuumFails(a)
      BY <3>1, <3>3, <3>9 DEF VacuumFails, Goto, adminOnly
    <3>10. QED
      BY <1>3, <3>4, <3>5, <3>6, <3>7, <3>8, <3>9
  <2>2. Alone'
    BY <2>1, RunningFacts DEF ExclusiveInv, SharedInv, TypeOK, Alone, Idle
  <2>3. QED
    BY <2>1, <2>2, KeepsDb
<1>4. CASE Replace(a)
  <2>1. /\ admin[a].pc = "swap" /\ tmp # None
        /\ db' = tmp
        /\ unfinished' = IF "tmp" \in unfinished THEN {"live"} ELSE {}
        /\ sidecar' \in {sidecar, sidecar \/ LiveOpen}
        /\ conn' = [p \in Process |-> IF conn[p] = "live" THEN "orphan" ELSE conn[p]]
        /\ admin' = [admin EXCEPT ![a] = [pc |-> "sidecars", key |-> None]]
        /\ UNCHANGED <<spoiled, claimed, ctx, acked>>
    BY <1>4 DEF Replace, Goto, adminOnly
  <2>2. db' = db /\ unfinished' = {}
    BY <2>1 DEF ExclusiveInv, Alone
  <2>3. /\ \A c \in Client : ctx[c] = None
        /\ \A b \in Admin : b # a => Idle(b)
    BY <2>1, RunningFacts DEF Idle
  <2>4. \A p \in Process : conn[p] = "none"
    BY <2>1, <2>3 DEF ExclusiveInv, SharedInv, Conns, TypeOK, Idle
  <2>5. sidecar' = FALSE
    BY <2>1, <2>4 DEF LiveOpen, ExclusiveInv, SharedInv, TypeOK, Alone
  <2>6. Alone'
    BY <2>1, <2>2, <2>3, <2>4, <2>5
       DEF ExclusiveInv, SharedInv, TypeOK, Alone, Idle
  <2>7. QED
    BY <2>1, <2>2, <2>6, KeepsDb
<1>5. QED
  BY <1>1, <1>2, <1>3, <1>4 DEF AdminStep

\* The invariant is inductive, and every step implements the book.
LEMMA ExclusiveStep ==
    ASSUME ExclusiveInv, Exclusive, [Next]_vars
    PROVE  ExclusiveInv' /\ [Book!Next]_<<FacadeContents, acked>>
<1>1. SharedInv'
  BY SharedStep DEF ExclusiveInv
<1>2. ASSUME NEW c \in Client, ClientStep(c)
      PROVE  ExclusiveInv' /\ [Book!Next]_<<FacadeContents, acked>>
  BY <1>1, <1>2, ClientExclusiveStep
<1>3. ASSUME NEW a \in Admin, AdminStep(a)
      PROVE  ExclusiveInv' /\ [Book!Next]_<<FacadeContents, acked>>
  BY <1>1, <1>3, AdminExclusiveStep
<1>4. CASE UNCHANGED vars \/ Malformed
  <2>1. UNCHANGED <<sidecar, spoiled, db, tmp, unfinished, made, ctx, conn, admin,
                    acked, claimed>>
    BY <1>4 DEF vars, files, Malformed
  <2>2. Alone'
    BY <2>1 DEF ExclusiveInv, Alone, Idle
  <2>3. QED
    BY <1>1, <2>1, <2>2, KeepsDb
<1>5. QED
  BY <1>2, <1>3, <1>4 DEF Next

\* The invariant holds in every reachable state.
THEOREM ExclusiveInvariant == ASSUME Exclusive PROVE Spec => []ExclusiveInv
<1>1. ExclusiveInv /\ [Next]_vars => ExclusiveInv'
  BY ExclusiveStep
<1>2. QED
  BY ExclusiveInit, <1>1, PTL DEF Spec

\* When lifecycle commands run alone, a store that opens reads every value.
THEOREM ReadableHolds == ASSUME Exclusive PROVE Spec => []Readable
<1>1. ExclusiveInv => Readable
  BY DEF ExclusiveInv
<1>2. QED
  BY ExclusiveInvariant, <1>1, PTL

\* When lifecycle commands run alone, no memory is stored twice.
THEOREM FacadeUniqueHolds == ASSUME Exclusive PROVE Spec => []FacadeUnique
<1>1. ExclusiveInv => FacadeUnique
  BY DEF ExclusiveInv, SharedInv, Unique, UniquePerMode, Readable,
         AllUnderActiveKey, FacadeUnique
<1>2. QED
  BY ExclusiveInvariant, <1>1, PTL

\* When lifecycle commands run alone, no acknowledged memory is lost in a
\* re-keying or a swap, whether or not a command is killed half-way.
THEOREM AckedDurableHolds == ASSUME Exclusive PROVE Spec => []AckedDurable
<1>1. ExclusiveInv => AckedDurable
  BY DEF ExclusiveInv
<1>2. QED
  BY ExclusiveInvariant, <1>1, PTL

\* When lifecycle commands run alone, the key a command committed stays the
\* key of the database, also if the next command finds the temporary file of
\* one that was killed.
THEOREM LifecycleDurableHolds == ASSUME Exclusive PROVE Spec => []LifecycleDurable
<1>1. ExclusiveInv => LifecycleDurable
  BY DEF ExclusiveInv
<1>2. QED
  BY ExclusiveInvariant, <1>1, PTL

\* When lifecycle commands run alone, no connection reads one file through
\* the log of another, loses its own log, or opens an unfinished copy.
THEOREM NeverSpoiledHolds == ASSUME Exclusive PROVE Spec => []NeverSpoiled
<1>1. ExclusiveInv => NeverSpoiled
  BY DEF ExclusiveInv, Alone, NeverSpoiled
<1>2. QED
  BY ExclusiveInvariant, <1>1, PTL

\* When lifecycle commands run alone, the facade implements MemoryBook.
THEOREM ImplementsBook == ASSUME Exclusive PROVE Spec => BookSpec
<1>1. Init => Book!Init
  BY DEF Init, Book!Init, FacadeContents
<1>2. ExclusiveInv /\ [Next]_vars => [Book!Next]_<<FacadeContents, acked>>
  BY ExclusiveStep
<1>3. QED
  BY <1>1, <1>2, ExclusiveInvariant, PTL DEF Spec, BookSpec, Book!Spec
=============================================================================
