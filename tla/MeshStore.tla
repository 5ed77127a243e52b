------------------------------ MODULE MeshStore ------------------------------
(***************************************************************************)
(* The encrypted memory database: MemoryStore objects (storage.py) that    *)
(* write to one SQLite file, and the key lifecycle operations              *)
(* enable_encryption and rotate_encryption (encryption.py) that rewrite    *)
(* every row of that file and then swap a vacuumed copy of it into place.  *)
(*                                                                         *)
(* A store resolves its encryption context once, in init(), and keeps it   *)
(* for the life of the process.  The database may be enabled, re-keyed, or *)
(* replaced by another file behind its back.                               *)
(*                                                                         *)
(* Data abstraction.  A sealed value is the mode (Plain or a key) it was   *)
(* written under.  A row's metadata_json and content_fingerprint are       *)
(* written together with its content under the same mode by every          *)
(* operation, so one field, seal, stands for the three.                    *)
(***************************************************************************)
EXTENDS Naturals, Sequences

CONSTANTS
    Client,     \* MemoryStore objects, each in a process of its own
    Admin,      \* processes running `encryption enable` or `encryption rotate`
    Content,    \* message texts
    Stamp,      \* message timestamps
    SourceKey,  \* provider-supplied row identities
    Key,        \* master keys
    Slot,       \* conversations with a summary, and agent_state keys
    Plain,      \* the mode of a database that is not encrypted
    None,       \* absent: no key, no file, no owner
    MaxRows,    \* bound on memory_messages, for model checking
    Exclusive   \* TRUE: key lifecycle commands run while no store is open

ASSUME MeshStoreAssumption ==
    /\ Plain \notin Key
    /\ None \notin Key \cup {Plain} \cup SourceKey \cup Client \cup Admin
    /\ Client \cap Admin = {}
    /\ MaxRows \in Nat
    /\ Exclusive \in BOOLEAN

VARIABLES
    db,        \* the live database file
    tmp,       \* the file <db>.vacuum-tmp, or None
    unfinished, \* of these two, "live" and "tmp": VACUUM INTO has not filled it
    made,      \* per lifecycle process: where the copy is that it made
    sidecar,   \* the -wal beside the live file belongs to the file it replaced
    spoiled,   \* the live file was used while it was unfinished, or with a -wal
               \* that is not its own, or without its own
    residue,   \* the live file may keep plaintext in freed pages
    ctx,       \* per store: the cached context: None (not open), Plain or a key
    conn,      \* per process: no connection, one to the live or to a replaced file
    lock,      \* the process inside BEGIN IMMEDIATE on the live file, or None
    admin,     \* per lifecycle process: phase and new key
    acked,     \* history: contents whose store() call returned
    claimed,   \* history: the mode set by the last committed lifecycle operation
    vacuumed   \* history: the last lifecycle command to act will report `vacuumed`

files == <<db, tmp, unfinished>>
vars == <<files, made, sidecar, spoiled, residue, ctx, conn, lock, admin, acked,
          claimed, vacuumed>>

-----------------------------------------------------------------------------
Mode == Key \cup {Plain}
Process == Client \cup Admin

(***************************************************************************)
(* A row of memory_messages with its embedding row and its term rows.      *)
(* facade rows carry the ownership tuple of the Memory class, which no     *)
(* other writer uses; the others share one (project, provider,             *)
(* conversation, role).  emb is None when the message has no embedding.    *)
(* term is the mode of the index terms, or None when the index holds       *)
(* tokens of the ciphertext.  Rows are never deleted, so the id allocated  *)
(* as MAX(id) + 1 is the position in the sequence.                         *)
(***************************************************************************)
Row == [content : Content, stamp : Stamp, source : SourceKey \cup {None},
        facade : BOOLEAN, seal : Mode, term : Mode \cup {None},
        emb : Mode \cup {None}]

\* A database file: encryption_meta, the messages, and the mode of each
\* memory_summaries or agent_state row.
Image == [active : Mode, rows : Seq(Row), side : [Slot -> Mode \cup {None}]]

ASSUME NoFileAssumption == None \notin Image

Phase == {"idle", "txn", "unlink", "vacuum", "copy", "swap", "sidecars"}

TypeOK ==
    /\ db \in Image
    /\ tmp \in Image \cup {None}
    /\ unfinished \subseteq {"live", "tmp"}
    /\ made \in [Admin -> {"none", "tmp", "live", "gone"}]
    /\ sidecar \in BOOLEAN
    /\ spoiled \in BOOLEAN
    /\ residue \in BOOLEAN
    /\ ctx \in [Client -> Mode \cup {None}]
    /\ conn \in [Process -> {"none", "live", "orphan"}]
    /\ lock \in Process \cup {None}
    /\ admin \in [Admin -> [pc : Phase, key : Key \cup {None}]]
    /\ acked \in SUBSET Content
    /\ claimed \in Mode
    /\ vacuumed \in BOOLEAN

\* A database fresh from the migrations: encryption_meta.enabled = 0.
Init ==
    /\ db = [active |-> Plain, rows |-> <<>>, side |-> [s \in Slot |-> None]]
    /\ tmp = None
    /\ unfinished = {}
    /\ made = [a \in Admin |-> "none"]
    /\ sidecar = FALSE
    /\ spoiled = FALSE
    /\ residue = FALSE
    /\ ctx = [c \in Client |-> None]
    /\ conn = [p \in Process |-> "none"]
    /\ lock = None
    /\ admin = [a \in Admin |-> [pc |-> "idle", key |-> None]]
    /\ acked = {}
    /\ claimed = Plain
    /\ vacuumed = FALSE

-----------------------------------------------------------------------------
(***************************************************************************)
(* Transactions.                                                           *)
(***************************************************************************)
Idle(a) == admin[a].pc = "idle"

\* A connection is opened on the live path.  SQLite takes a -wal it finds
\* there for the file's own, and reads one file's pages through the other's
\* log ("database disk image is malformed"); an unfinished copy it takes for
\* an empty database, which init() fills with tables and an identity of its
\* own.  Of a file so spoiled the model says no more: nothing connects or
\* commits to it.
Connect ==
    /\ ~spoiled
    /\ spoiled' = (sidecar \/ "live" \in unfinished)
    /\ UNCHANGED sidecar

\* A connection to the live file takes the write lock.  SQLite grants it to
\* one connection at a time; a process that finds it taken retries and then
\* fails without effect.
BeginTxn(p) ==
    /\ conn[p] = "none"
    /\ lock = None
    /\ Connect
    /\ conn' = [conn EXCEPT ![p] = "live"]
    /\ lock' = p

EndTxn(p) ==
    /\ UNCHANGED <<sidecar, spoiled>>
    /\ conn' = [conn EXCEPT ![p] = "none"]
    /\ lock' = IF lock = p THEN None ELSE lock

\* What p commits reaches the live file only if p's connection is to it: a
\* file that os.replace unlinked takes the commit and disappears.  (When the
\* file is no longer in WAL mode and nothing was written yet, SQLite notices
\* the move and the transaction fails instead: Abort, StopLifecycle.)
Commit(p, image) ==
    /\ conn[p] # "none"
    /\ ~spoiled
    /\ db' = IF conn[p] = "live" THEN image ELSE db
    /\ EndTxn(p)

-----------------------------------------------------------------------------
(***************************************************************************)
(* MemoryStore.                                                            *)
(***************************************************************************)
clientOnly == <<tmp, unfinished, made, residue, admin, claimed, vacuumed>>

\* init() with master key k available.  A key that does not match the key id
\* of an enabled database raises WrongKeyError, and the store never opens.
Open(c, k) ==
    /\ ctx[c] = None
    /\ Exclusive => \A a \in Admin : Idle(a)
    /\ db.active \in {Plain, k}
    /\ Connect
    /\ ctx' = [ctx EXCEPT ![c] = db.active]
    /\ UNCHANGED <<db, conn, lock, acked, clientOnly>>

\* The process that owns the store ends.
Close(c) ==
    /\ ctx[c] # None
    /\ conn[c] = "none"
    /\ ctx' = [ctx EXCEPT ![c] = None]
    /\ UNCHANGED <<db, sidecar, spoiled, conn, lock, acked, clientOnly>>

Begin(c) ==
    /\ ctx[c] # None
    /\ BeginTxn(c)
    /\ UNCHANGED <<db, ctx, acked, clientOnly>>

\* An exception rolls the transaction back; a kill has the same effect.
Abort(c) ==
    /\ conn[c] # "none"
    /\ EndTxn(c)
    /\ UNCHANGED <<db, ctx, acked, clientOnly>>

FoundPlainFacade(c, x) ==
    \E i \in DOMAIN db.rows :
        /\ db.rows[i].facade
        /\ db.rows[i].content = x
        /\ db.rows[i].seal = Plain
        /\ ctx[c] = Plain

\* The facade row with content x that the lookup of c finds: by fingerprint
\* under its key, by the content column when it has none.
FoundFacade(c, x) ==
    \E i \in DOMAIN db.rows :
        /\ db.rows[i].facade
        /\ db.rows[i].content = x
        /\ db.rows[i].seal = ctx[c]

WithRow(row) == [db EXCEPT !.rows = Append(db.rows, row)]

\* The process may be killed after the commit and before store() returns.
StoreFacade(c, x, t) ==
    /\ FoundFacade(c, x) \/ Len(db.rows) < MaxRows
    /\ Commit(c, IF FoundFacade(c, x)
                 THEN db
                 ELSE WithRow([content |-> x, stamp |-> t, source |-> None,
                               facade |-> TRUE, seal |-> ctx[c],
                               term |-> ctx[c], emb |-> ctx[c]]))
    /\ acked' \in {acked, acked \cup {x}}
    /\ UNCHANGED <<ctx, clientOnly>>

BlocksFingerprintFirst(c, r, x, t, s) ==
    /\ ~r.facade
    /\ r.seal = ctx[c]
    /\ r.content = x
    /\ ctx[c] = Plain => r.stamp = t

\* The row r keeps insert_messages of store c from adding (x, t, s): the
\* unique index on source_key, the unique index on the stored columns (which
\* ciphertext never matches), or the fingerprint lookup for a record without
\* a source key under encryption (which ignores the timestamp).
Blocks(c, r, x, t, s) ==
    /\ ~r.facade
    /\ \/ s # None /\ r.source = s
       \/ /\ ctx[c] = Plain
          /\ r.seal = Plain
          /\ r.content = x
          /\ r.stamp = t
       \/ /\ ctx[c] # Plain
          /\ s = None
          /\ r.seal = ctx[c]
          /\ r.content = x

InsertMessage(c, x, t, s) ==
    LET ignored == \E i \in DOMAIN db.rows : Blocks(c, db.rows[i], x, t, s)
    IN  /\ ignored \/ Len(db.rows) < MaxRows
        /\ Commit(c, IF ignored
                     THEN db
                     ELSE WithRow([content |-> x, stamp |-> t, source |-> s,
                                   facade |-> FALSE, seal |-> ctx[c],
                                   term |-> ctx[c], emb |-> None]))
        /\ UNCHANGED <<ctx, acked, clientOnly>>

SaveEmbedding(c, i) ==
    /\ Commit(c, [db EXCEPT !.rows[i].emb = ctx[c]])
    /\ UNCHANGED <<ctx, acked, clientOnly>>

\* upsert_summary and set_agent_state.
SetSide(c, s) ==
    /\ Commit(c, [db EXCEPT !.side[s] = ctx[c]])
    /\ UNCHANGED <<ctx, acked, clientOnly>>

\* `search-index rebuild` tokenizes the stored column with no term mapper.
RebuiltIndex(rows) ==
    [i \in DOMAIN rows |->
        [rows[i] EXCEPT !.term = IF rows[i].seal = Plain THEN Plain ELSE None]]

RebuildIndex(c) ==
    /\ Commit(c, [db EXCEPT !.rows = RebuiltIndex(db.rows)])
    /\ UNCHANGED <<ctx, acked, clientOnly>>

-----------------------------------------------------------------------------
(***************************************************************************)
(* enable_encryption and rotate_encryption.                                *)
(***************************************************************************)
adminOnly == <<ctx, acked>>
filesOnly == <<unfinished, made>>

\* The key is needed up to the commit only.
Goto(a, pc) == admin' = [admin EXCEPT ![a] = [pc |-> pc, key |-> None]]

ResealMessages(image, k) ==
    [image EXCEPT !.active = k,
                  !.rows = [i \in DOMAIN image.rows |->
                              [image.rows[i] EXCEPT !.seal = k, !.term = k]]]

\* _encrypt_all_rows under k, and the encryption_meta update that goes with it.
Reseal(image, k) ==
    [active |-> k,
     rows |-> [i \in DOMAIN image.rows |->
                 [image.rows[i] EXCEPT
                    !.seal = k,
                    !.term = k,
                    !.emb = IF image.rows[i].emb = None THEN None ELSE k]],
     side |-> [s \in Slot |-> IF image.side[s] = None THEN None ELSE k]]

\* _decrypt_all_rows_for_rotation succeeds: every stored value is an envelope
\* under the active key, and no two decrypted rows meet in the unique index
\* on (project, provider, conversation, role, content, timestamp).
AllUnderActiveKey(image) ==
    /\ \A i \in DOMAIN image.rows :
          /\ image.rows[i].seal = image.active
          /\ image.rows[i].emb \in {None, image.active}
    /\ \A s \in Slot : image.side[s] \in {None, image.active}

DistinctWhenDecrypted(image) ==
    \A i, j \in DOMAIN image.rows :
        /\ image.rows[i].facade = image.rows[j].facade
        /\ image.rows[i].content = image.rows[j].content
        /\ image.rows[i].stamp = image.rows[j].stamp
        => i = j

Rotatable(image) == AllUnderActiveKey(image) /\ DistinctWhenDecrypted(image)

BeginLifecycle(a, k) ==
    /\ Idle(a)
    /\ Exclusive => /\ \A c \in Client : ctx[c] = None
                    /\ \A b \in Admin : Idle(b)
    /\ BeginTxn(a)
    /\ admin' = [admin EXCEPT ![a] = [pc |-> "txn", key |-> k]]
    /\ vacuumed' = FALSE
    /\ UNCHANGED <<files, made, residue, claimed, adminOnly>>

\* Both commands check under the write lock, so whether they go through is
\* settled when they take it; a command that fails a check rolls back.
BeginEnable(a, k) ==
    /\ db.active = Plain
    /\ BeginLifecycle(a, k)

BeginRotate(a, old, k) ==
    /\ db.active = old
    /\ Rotatable(db)
    /\ BeginLifecycle(a, k)

\* The in-place UPDATEs leave the old cell contents in freed pages.
CommitLifecycle(a) ==
    /\ admin[a].pc = "txn"
    /\ Commit(a, Reseal(db, admin[a].key))
    /\ residue' = (residue \/ conn[a] = "live")
    /\ claimed' = admin[a].key
    /\ Goto(a, "unlink")
    /\ UNCHANGED <<tmp, filesOnly, vacuumed, adminOnly>>

\* A rollback, or a kill in any phase; what was copied so far stays.
StopLifecycle(a) ==
    /\ ~Idle(a)
    /\ EndTxn(a)
    /\ Goto(a, "idle")
    /\ made' = [made EXCEPT ![a] = "none"]
    /\ UNCHANGED <<files, residue, claimed, vacuumed, adminOnly>>

scrubOnly == <<sidecar, spoiled, residue, claimed, vacuumed, adminOnly>>

\* The copy under the temporary name is no longer there: its maker, if it is
\* still at work, goes on without noticing.
TmpTaken(place) == [b \in Admin |-> IF made[b] = "tmp" THEN place ELSE made[b]]

UnlinkTmpKept(a) ==
    /\ admin[a].pc = "unlink"
    /\ Goto(a, IF tmp = None THEN "vacuum" ELSE "swap")
    /\ UNCHANGED <<files, made, conn, lock, scrubOnly>>

\* _vacuum_into_and_replace holds no lock.  The temporary path is a fixed name.
UnlinkTmp(a) ==
    /\ admin[a].pc = "unlink"
    /\ tmp' = None
    /\ unfinished' = unfinished \ {"tmp"}
    /\ made' = TmpTaken("gone")
    /\ Goto(a, "vacuum")
    /\ UNCHANGED <<db, conn, lock, scrubOnly>>

\* VACUUM INTO begins: it reads the live file as of now and creates the copy,
\* or takes over an empty one whose maker was killed (of which the lock is
\* gone), but no other file that is there.
VacuumInto(a) ==
    /\ admin[a].pc = "vacuum"
    /\ tmp = None \/ ("tmp" \in unfinished /\ \A b \in Admin : made[b] # "tmp")
    /\ Connect
    /\ conn' = [conn EXCEPT ![a] = "live"]
    /\ tmp' = db
    /\ unfinished' = unfinished \cup {"tmp"}
    /\ made' = [made EXCEPT ![a] = "tmp"]
    /\ Goto(a, "copy")
    /\ UNCHANGED <<db, residue, lock, claimed, vacuumed, adminOnly>>

VacuumDoneConnected(a) ==
    /\ admin[a].pc = "copy"
    /\ unfinished' = unfinished \ {made[a]}
    /\ Goto(a, "swap")
    /\ UNCHANGED <<db, tmp, made, conn, lock, scrubOnly>>

\* It ends: the copy is whole, wherever another command has put it.
VacuumDone(a) ==
    /\ admin[a].pc = "copy"
    /\ unfinished' = unfinished \ {made[a]}
    /\ conn' = [conn EXCEPT ![a] = "none"]
    /\ Goto(a, "swap")
    /\ UNCHANGED <<db, tmp, made, lock, scrubOnly>>

LiveOpen == \E p \in Process : conn[p] = "live"

\* os.replace, of whatever file is at the temporary path: open connections
\* keep the file that is no longer at the live path, and the -wal they keep
\* open may hold frames of that file.
Replace(a) ==
    /\ admin[a].pc = "swap"
    /\ tmp # None
    /\ db' = tmp
    /\ tmp' = None
    /\ unfinished' = IF "tmp" \in unfinished THEN {"live"} ELSE {}
    /\ made' = [b \in Admin |->
                   IF b = a THEN "none"
                   ELSE IF made[b] = "live" THEN "gone" ELSE TmpTaken("live")[b]]
    /\ sidecar' \in {sidecar, sidecar \/ LiveOpen}
    /\ residue' = FALSE
    /\ conn' = [p \in Process |-> IF conn[p] = "live" THEN "orphan" ELSE conn[p]]
    /\ lock' = None
    /\ Goto(a, "sidecars")
    /\ vacuumed' = TRUE
    /\ UNCHANGED <<spoiled, claimed, adminOnly>>

\* Errors are swallowed here.  A process that has opened the new file by now
\* may lose the log it has just begun.
UnlinkSidecars(a) ==
    /\ admin[a].pc = "sidecars"
    /\ sidecar' \in {FALSE, sidecar}
    /\ spoiled' \in {spoiled, spoiled \/ LiveOpen}
    /\ Goto(a, "idle")
    /\ UNCHANGED <<files, made, residue, conn, lock, claimed, vacuumed, adminOnly>>

VacuumFailsSilently(a) ==
    /\ admin[a].pc \in {"unlink", "vacuum", "copy", "swap"}
    /\ tmp' = None
    /\ unfinished' = unfinished \ {"tmp"}
    /\ made' = [TmpTaken("gone") EXCEPT ![a] = "none"]
    /\ conn' = [conn EXCEPT ![a] = "none"]
    /\ Goto(a, "idle")
    /\ vacuumed' = TRUE
    /\ UNCHANGED <<db, sidecar, spoiled, residue, lock, claimed, adminOnly>>

\* Any error up to the swap (an existing or missing temporary file among
\* them) is swallowed, and what is at the temporary path removed; so is an
\* error of this removal.
VacuumFails(a) ==
    /\ admin[a].pc \in {"unlink", "vacuum", "copy", "swap"}
    /\ \/ /\ tmp' = None
          /\ unfinished' = unfinished \ {"tmp"}
          /\ made' = [TmpTaken("gone") EXCEPT ![a] = "none"]
       \/ /\ UNCHANGED <<tmp, unfinished>>
          /\ made' = [made EXCEPT ![a] = "none"]
    /\ conn' = [conn EXCEPT ![a] = "none"]
    /\ Goto(a, "idle")
    /\ vacuumed' = FALSE
    /\ UNCHANGED <<db, sidecar, spoiled, residue, lock, claimed, adminOnly>>

-----------------------------------------------------------------------------
ClientWrite(c) ==
    \/ \E x \in Content, t \in Stamp : StoreFacade(c, x, t)
    \/ \E x \in Content, t \in Stamp, s \in SourceKey \cup {None} :
          InsertMessage(c, x, t, s)
    \/ \E i \in DOMAIN db.rows : SaveEmbedding(c, i)
    \/ \E s \in Slot : SetSide(c, s)
    \/ RebuildIndex(c)

ClientStep(c) ==
    \/ \E k \in Key : Open(c, k)
    \/ Close(c)
    \/ Begin(c)
    \/ Abort(c)
    \/ ClientWrite(c)

AdminStep(a) ==
    \/ \E k \in Key : BeginEnable(a, k)
    \/ \E old, k \in Key : BeginRotate(a, old, k)
    \/ CommitLifecycle(a)
    \/ StopLifecycle(a)
    \/ UnlinkTmp(a)
    \/ VacuumInto(a)
    \/ VacuumDone(a)
    \/ Replace(a)
    \/ UnlinkSidecars(a)
    \/ VacuumFails(a)

Malformed == spoiled /\ UNCHANGED vars

Next ==
    \/ \E c \in Client : ClientStep(c)
    \/ \E a \in Admin : AdminStep(a)
    \/ Malformed

Spec == Init /\ [][Next]_vars

-----------------------------------------------------------------------------
(***************************************************************************)
(* What holds whatever the timing of stores and lifecycle commands, as     *)
(* long as the live file is not spoiled.                                   *)
(***************************************************************************)

\* a swaps in a file that is not the copy it made: another command has
\* unlinked or replaced that one in the meantime.
SwapsForeign(a) ==
    /\ admin[a].pc = "swap" /\ admin'[a].pc = "sidecars"
    /\ made[a] \in {"live", "gone"}

\* A database that was encrypted once is never replaced by a plaintext one,
\* whatever copies killed commands left behind, nor by a copy that is still
\* being filled, unless another command has taken away the copy of the one
\* that swaps (_vacuum_into_and_replace; then a kill before the copy is whole
\* leaves an empty file at the database's path).
NeverDisabled ==
    [][/\ db.active # Plain => db'.active # Plain
       /\ "live" \in unfinished' \ unfinished
             => \E a \in Admin : SwapsForeign(a)]_<<db, unfinished>>

SameFacade(image, i, j) ==
    /\ image.rows[i].facade
    /\ image.rows[j].facade
    /\ image.rows[i].content = image.rows[j].content

UniquePerMode(image) ==
    \A i, j \in DOMAIN image.rows :
        SameFacade(image, i, j) /\ image.rows[i].seal = image.rows[j].seal
        => i = j

\* Stores that work under the same mode never add the same facade content
\* twice, and neither a re-keying nor a swap brings two copies under one mode.
FacadeUniquePerMode == UniquePerMode(db)

\* A source_key names at most one row, also across stores with different
\* cached contexts, because the column is never encrypted.
SourceKeyUnique ==
    \A i, j \in DOMAIN db.rows :
        /\ db.rows[i].source # None
        /\ db.rows[i].source = db.rows[j].source
        => i = j

\* A report that says vacuumed=True is right: until the next lifecycle
\* command starts, no plaintext is left in the freed pages of the live file.
ScrubHonest ==
    vacuumed => ~residue \/ \E a \in Admin : ~Idle(a)

-----------------------------------------------------------------------------
(***************************************************************************)
(* What holds when no store is open during a lifecycle command             *)
(* (Exclusive), and is lost otherwise.                                     *)
(***************************************************************************)

\* Every stored value is sealed in the mode encryption_meta announces, so a
\* store that opens now reads all of them.
Readable == AllUnderActiveKey(db)

\* An encrypted database holds no plaintext message.
NoPlaintextOnceEnabled ==
    db.active # Plain => \A i \in DOMAIN db.rows : db.rows[i].seal # Plain

\* One facade row per content.
FacadeUnique == \A i, j \in DOMAIN db.rows : SameFacade(db, i, j) => i = j

FacadeContents ==
    {db.rows[i].content : i \in {j \in DOMAIN db.rows : db.rows[j].facade}}

\* A memory whose store() returned is in the database.
AckedDurable == acked \subseteq FacadeContents

\* The committed key of the last enable or rotate is the key of the database.
LifecycleDurable == db.active = claimed

\* No connection ever reads one file through the log of another, loses its own
\* log, or takes an unfinished copy for an empty database.
NeverSpoiled == ~spoiled

\* The facade implements the abstract book of memories.
Book == INSTANCE MemoryBook WITH stored <- FacadeContents, acked <- acked
BookSpec == Book!Spec
=============================================================================
