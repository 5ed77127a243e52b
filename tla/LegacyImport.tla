---------------------------- MODULE LegacyImport ----------------------------
(***************************************************************************)
(* import_legacy_memory copies the rows of an old database into the        *)
(* namespace of the Memory facade, one by one in the order of their        *)
(* rowid: a lookup without a lock, the embedding, and a transaction that   *)
(* looks again and inserts the message with its vector                     *)
(* (store_facade_memory_with_embedding).  Memory.store runs the same       *)
(* transaction from other processes.  A facade message is named by its     *)
(* content.  The old database is only read, and what the importer refuses  *)
(* before the first row is left out.                                       *)
(***************************************************************************)
EXTENDS ProjectMesh, Sequences

CONSTANTS
    LegacyRows,     \* the old rows' messages, None if malformed
    BackendOf       \* the embedding backend of each worker's environment

ASSUME LegacyAssumption ==
    /\ LegacyRows \in Seq(Entry \cup {None})
    /\ BackendOf \in [Worker -> Backend]

VARIABLES
    legacy,     \* the import that each worker runs
    times       \* history: how often each message was inserted

legacyVars == <<legacy, times>>

NotImporting == [at |-> "idle"]

\* "mine" is a history: the messages that this import inserted.
LegacyJob == [at : {"row", "store"}, row : 1..Len(LegacyRows) + 1,
              dry : BOOLEAN, imported : Nat, importable : Nat,
              duplicates : Nat,
              failures : SUBSET (1..Len(LegacyRows)), mine : SUBSET Entry]

LegacyInit ==
    /\ legacy = [w \in Worker |-> NotImporting]
    /\ times = [e \in Entry |-> 0]

LegacyBegin(w) ==
    /\ "legacy" \in ops[w] /\ legacy[w] = NotImporting
    /\ \E d \in BOOLEAN :
          legacy' = [legacy EXCEPT ![w] =
              [at |-> "row", row |-> 1, dry |-> d, imported |-> 0,
               importable |-> 0, duplicates |-> 0, failures |-> {},
               mine |-> {}]]
    /\ UNCHANGED <<vars, times>>

RowOf(w) == LegacyRows[legacy[w].row]
AtRow(w) == /\ legacy[w] # NotImporting /\ legacy[w].at = "row"
            /\ legacy[w].row <= Len(LegacyRows)
AtStore(w) == legacy[w] # NotImporting /\ legacy[w].at = "store"

Found(w) == RowOf(w) \in stored

MalformedRow(w) ==
    /\ AtRow(w) /\ RowOf(w) = None
    /\ legacy' = [legacy EXCEPT ![w].failures = @ \cup {legacy[w].row},
                                ![w].row = @ + 1]
    /\ UNCHANGED <<vars, times>>

LookUp(w) ==
    /\ AtRow(w) /\ RowOf(w) # None
    /\ legacy' =
          IF Found(w)
          THEN [legacy EXCEPT ![w].duplicates = @ + 1, ![w].row = @ + 1]
          ELSE IF legacy[w].dry
          THEN [legacy EXCEPT ![w].importable = @ + 1, ![w].row = @ + 1]
          ELSE [legacy EXCEPT ![w].importable = @ + 1, ![w].at = "store"]
    /\ UNCHANGED <<vars, times>>

(***************************************************************************)
(* The transaction that stores a facade message: one that is there keeps   *)
(* its vector.                                                             *)
(***************************************************************************)
FacadeInsert(e, b) ==
    /\ stored' = stored \cup {e}
    /\ vec' = [vec EXCEPT ![e] = b]
    /\ times' = [times EXCEPT ![e] = @ + 1]

FacadeStore(e, b) ==
    IF e \in stored THEN UNCHANGED <<stored, vec, times>>
    ELSE /\ stored' = stored \cup {e}
         /\ vec' = [vec EXCEPT ![e] = b]
         /\ times' = [times EXCEPT ![e] = @ + 1]

StoreRow(w) ==
    LET e == RowOf(w) IN
    /\ AtStore(w)
    /\ FacadeStore(e, BackendOf[w])
    /\ legacy' =
          IF e \in stored
          THEN [legacy EXCEPT ![w].duplicates = @ + 1,
                              ![w].importable = @ - 1,
                              ![w].at = "row", ![w].row = @ + 1]
          ELSE [legacy EXCEPT ![w].imported = @ + 1, ![w].mine = @ \cup {e},
                              ![w].at = "row", ![w].row = @ + 1]
    /\ UNCHANGED <<ops, summary, catalog, job, covered, listed>>

\* The message cannot be embedded or stored: counted, and the others go on.
RowFails(w) ==
    /\ AtStore(w)
    /\ legacy' = [legacy EXCEPT ![w].failures = @ \cup {legacy[w].row},
                                ![w].importable = @ - 1,
                                ![w].at = "row", ![w].row = @ + 1]
    /\ UNCHANGED <<vars, times>>

\* The command has returned, or an error or a kill ends it before that.
LegacyEnds(w) ==
    /\ legacy[w] # NotImporting
    /\ legacy' = [legacy EXCEPT ![w] = NotImporting]
    /\ UNCHANGED <<vars, times>>

\* Memory.store.
MemoryStore(w) ==
    /\ "store" \in ops[w]
    /\ \E n \in DOMAIN LegacyRows :
          /\ LegacyRows[n] # None
          /\ FacadeStore(LegacyRows[n], BackendOf[w])
    /\ UNCHANGED <<ops, summary, catalog, job, covered, listed, legacy>>

LegacyStep(w) ==
    \/ LegacyBegin(w) \/ MalformedRow(w) \/ LookUp(w)
    \/ StoreRow(w) \/ RowFails(w) \/ LegacyEnds(w)
    \/ MemoryStore(w)

(***************************************************************************)
(* Types.                                                                  *)
(***************************************************************************)
LegacyTypeOK ==
    /\ legacy \in [Worker -> {NotImporting} \cup LegacyJob]
    /\ times \in [Entry -> Nat]

(***************************************************************************)
(* Importers that run together, with each other and with Memory.store,     *)
(* never insert a message twice, and one that was inserted has its vector. *)
(* A report says "imported" of the messages that this import inserted, and *)
(* of no message that another one claims.  When all rows are read it       *)
(* accounts for each and has lost none: what did not fail is stored.  A    *)
(* dry run has written nothing (import_legacy_memory).                     *)
(***************************************************************************)
Imports == {w \in Worker : legacy[w] # NotImporting}

LegacyExact ==
    /\ \A e \in Entry : /\ times[e] <= 1
                        /\ times[e] = 1 => e \in stored /\ vec[e] # None
    /\ \A w \in Imports : LET j == legacy[w] IN
          /\ j.imported = Cardinality(j.mine)
          /\ \A e \in j.mine : /\ times[e] = 1
                               /\ \A v \in Imports \ {w} : e \notin legacy[v].mine
    /\ \A w \in Imports : LET j == legacy[w] IN j.row > Len(LegacyRows) =>
          /\ j.importable + j.duplicates + Cardinality(j.failures)
                = Len(LegacyRows)
          /\ IF j.dry THEN j.imported = 0
             ELSE /\ j.imported = j.importable
                  /\ \A n \in DOMAIN LegacyRows :
                        n \in j.failures \/ LegacyRows[n] \in stored
=============================================================================
