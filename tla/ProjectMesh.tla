---------------------------- MODULE ProjectMesh ----------------------------
(***************************************************************************)
(* The operations of MemoryMesh that work on a whole project               *)
(* (sync_service.py): reading a directory of transcripts into the          *)
(* database, importing a bundle, compressing conversations, embedding      *)
(* messages and rebuilding the chat catalog.  Each reads a part of the     *)
(* database in one transaction and writes in later ones, while the others  *)
(* do the same from other processes, and the tools go on appending to      *)
(* their transcripts.  Messages are never deleted, so a message is named   *)
(* by what identifies it (its source key), a conversation has one          *)
(* transcript, and a summary is the set of the messages it was made from.  *)
(* An older release may have left several summaries of one conversation;   *)
(* they are updated together, so that what a conversation has is a set of  *)
(* them.                                                                   *)
(***************************************************************************)
EXTENDS Naturals, FiniteSets

CONSTANTS
    Worker,     \* processes that run these operations, one at a time
    Entry,      \* messages
    Conv,       \* conversations
    ConvOf,     \* the conversation of each message
    Backend,    \* embedding backends, which differ between environments
    Mixes,      \* which operations the workers run together
    None        \* no value

\* "brief" is no operation: it says that the settings of a worker have a
\* compression target that is not positive.
OpNames == {"sync", "import", "compress", "brief", "embed", "catalog", "search",
            "transfer", "legacy", "store", "aider", "encrypt"}

ASSUME ProjectAssumption ==
    /\ IsFiniteSet(Entry)
    /\ ConvOf \in [Entry -> Conv]
    /\ Mixes \subseteq [Worker -> SUBSET OpNames]
    /\ None \notin Backend \cup Conv

VARIABLES
    ops,        \* the operations that each worker runs
    stored,     \* memory_messages, with their terms
    vec,        \* memory_embeddings: the backend of each message's vector
    summary,    \* memory_summaries: the summaries of each conversation
    catalog,    \* chat_catalog: message_count by conversation
    job,        \* what each worker is doing
    covered,    \* history: the messages that summaries have to cover
    listed      \* history: the messages that the catalog has to count

vars == <<ops, stored, vec, summary, catalog, job, covered, listed>>

In(c) == {e \in Entry : ConvOf[e] = c}
ConvsOf(es) == {ConvOf[e] : e \in es}

Idle == [op |-> "idle"]

(***************************************************************************)
(* The local state of each operation.  "floor" is what was there when the  *)
(* operation began, "todo" what is left to do, and "solo" says that no     *)
(* other operation of its kind was under way when it read the database.    *)
(***************************************************************************)
SyncJob == [op : {"sync"}, floor : SUBSET Entry, todo : SUBSET Conv,
            file : Conv \cup {None}, got : SUBSET Entry,
            failed : SUBSET Conv]
ImportJob == [op : {"import"}, floor : SUBSET Entry, todo : SUBSET Conv,
              done : SUBSET Conv, written : BOOLEAN]
CompressJob == [op : {"compress"}, floor : SUBSET Entry, todo : SUBSET Conv,
                solo : BOOLEAN]
EmbedJob == [op : {"embed"}, floor : SUBSET Entry, todo : SUBSET Entry,
             backend : Backend]
CatalogJob == [op : {"catalog"}, floor : SUBSET Entry, todo : SUBSET Conv,
               first : Conv \cup {None}, count : Nat, solo : BOOLEAN,
               done : BOOLEAN]

Init ==
    /\ ops \in Mixes
    /\ stored = {}
    /\ vec = [e \in Entry |-> None]
    /\ summary = [c \in Conv |-> {}]
    /\ catalog = [c \in Conv |-> 0]
    /\ job = [w \in Worker |-> Idle]
    /\ covered = {} /\ listed = {}

Begins(w, j) ==
    /\ job[w] = Idle
    /\ job' = [job EXCEPT ![w] = j]

NoneRuns(op) == \A w \in Worker : job[w].op # op

(***************************************************************************)
(* sync_directory_report: the files are collected first, then each one is  *)
(* parsed and its messages inserted in one transaction.  The transcripts   *)
(* hold some messages when the sync begins, and may hold more of them when *)
(* they are parsed.  A file that fails is reported and the others go on.   *)
(***************************************************************************)
SyncBegin(w) ==
    /\ "sync" \in ops[w]
    /\ \E es \in SUBSET Entry \ {{}} :
          Begins(w, [op |-> "sync", floor |-> es, todo |-> ConvsOf(es),
                     file |-> None, got |-> {}, failed |-> {}])
    /\ UNCHANGED <<ops, stored, vec, summary, catalog, covered, listed>>

Parse(w, c) ==
    /\ job[w].op = "sync" /\ job[w].file = None /\ c \in job[w].todo
    /\ \E es \in SUBSET In(c) :
          /\ job[w].floor \cap In(c) \subseteq es
          /\ job' = [job EXCEPT ![w].file = c, ![w].got = es]
    /\ UNCHANGED <<ops, stored, vec, summary, catalog, covered, listed>>

IngestFile(w) ==
    /\ job[w].op = "sync" /\ job[w].file # None
    /\ stored' = stored \cup job[w].got
    /\ job' = [job EXCEPT ![w].todo = @ \ {job[w].file},
                          ![w].file = None, ![w].got = {}]
    /\ UNCHANGED <<ops, vec, summary, catalog, covered, listed>>

FileFailsBreak(w, c) ==
    /\ job[w].op = "sync" /\ c \in job[w].todo
    /\ job[w].file \in {None, c}
    /\ job' = [job EXCEPT ![w].todo = {}, ![w].failed = @ \cup {c},
                          ![w].file = None, ![w].got = {}]
    /\ UNCHANGED <<ops, stored, vec, summary, catalog, covered, listed>>

FileFails(w, c) ==
    /\ job[w].op = "sync" /\ c \in job[w].todo
    /\ job[w].file \in {None, c}
    /\ job' = [job EXCEPT ![w].todo = @ \ {c}, ![w].failed = @ \cup {c},
                          ![w].file = None, ![w].got = {}]
    /\ UNCHANGED <<ops, stored, vec, summary, catalog, covered, listed>>

(***************************************************************************)
(* import_bundle_with_report: the well-formed messages ms of a bundle in   *)
(* one transaction, then the summaries of the conversations cs one by one. *)
(* A summary that cannot be written is counted and skipped.  A summary     *)
(* made elsewhere covers none of this database's messages.                 *)
(***************************************************************************)
ImportBegin(w) ==
    /\ "import" \in ops[w]
    /\ \E ms \in SUBSET Entry, cs \in SUBSET Conv :
          /\ ms # {} \/ cs # {}
          /\ Begins(w, [op |-> "import", floor |-> ms, todo |-> cs,
                        done |-> {}, written |-> FALSE])
    /\ UNCHANGED <<ops, stored, vec, summary, catalog, covered, listed>>

ImportMessages(w) ==
    /\ job[w].op = "import" /\ ~job[w].written
    /\ stored' = stored \cup job[w].floor
    /\ job' = [job EXCEPT ![w].written = TRUE]
    /\ UNCHANGED <<ops, vec, summary, catalog, covered, listed>>

InsertOrIgnore(c, s) ==
    summary' = [summary EXCEPT ![c] = IF @ = {} THEN {s} ELSE @]

Upsert(c, s) == summary' = [summary EXCEPT ![c] = {s}]

ImportSummary(w, c) ==
    /\ job[w].op = "import" /\ job[w].written /\ c \in job[w].todo
    /\ Upsert(c, {})
    /\ covered' = covered \ In(c)
    /\ job' = [job EXCEPT ![w].todo = @ \ {c}, ![w].done = @ \cup {c}]
    /\ UNCHANGED <<ops, stored, vec, catalog, listed>>

SummaryFails(w, c) ==
    /\ job[w].op = "import" /\ job[w].written /\ c \in job[w].todo
    /\ job' = [job EXCEPT ![w].todo = @ \ {c}]
    /\ UNCHANGED <<ops, stored, vec, summary, catalog, covered, listed>>

(***************************************************************************)
(* compress_project: one read of the messages, then one summary after the  *)
(* other from what was read.                                               *)
(***************************************************************************)
CompressBegin(w) ==
    /\ "compress" \in ops[w]
    /\ Begins(w, [op |-> "compress", floor |-> stored,
                  todo |-> ConvsOf(stored), solo |-> NoneRuns("compress")])
    /\ UNCHANGED <<ops, stored, vec, summary, catalog, covered, listed>>

\* With such a target every summary is empty, and an empty one is passed over.
Brief(w) == "brief" \in ops[w]

Compress(w, c) ==
    /\ job[w].op = "compress" /\ c \in job[w].todo
    /\ \/ Brief(w) /\ UNCHANGED <<summary, covered>>
       \/ /\ ~Brief(w)
          /\ Upsert(c, job[w].floor \cap In(c))
          /\ covered' = IF job[w].solo
                        THEN covered \cup (job[w].floor \cap In(c)) ELSE covered
    /\ job' = [job EXCEPT ![w].todo = @ \ {c}]
    /\ UNCHANGED <<ops, stored, vec, catalog, listed>>

(***************************************************************************)
(* embed_project: one read of the messages, then one vector after the      *)
(* other, inserted or replaced.                                            *)
(***************************************************************************)
EmbedBegin(w) ==
    /\ "embed" \in ops[w]
    /\ \E b \in Backend :
          Begins(w, [op |-> "embed", floor |-> stored, todo |-> stored,
                     backend |-> b])
    /\ UNCHANGED <<ops, stored, vec, summary, catalog, covered, listed>>

SaveEmbedding(w, e) ==
    /\ job[w].op = "embed" /\ e \in job[w].todo
    /\ vec' = [vec EXCEPT ![e] = job[w].backend]
    /\ job' = [job EXCEPT ![w].todo = @ \ {e}]
    /\ UNCHANGED <<ops, stored, summary, catalog, covered, listed>>

(***************************************************************************)
(* rebuild_catalog: the groups and the statistics of the first one are     *)
(* read before any lock is held; the first write takes the lock, and the   *)
(* other groups are read and written under it, up to the commit.           *)
(***************************************************************************)
RebuildBegin(w) ==
    /\ "catalog" \in ops[w]
    /\ Begins(w, [op |-> "catalog", floor |-> stored,
                  todo |-> ConvsOf(stored), first |-> None, count |-> 0,
                  solo |-> NoneRuns("catalog"), done |-> stored = {}])
    /\ UNCHANGED <<ops, stored, vec, summary, catalog, covered, listed>>

CountIn(c) == Cardinality(stored \cap In(c))

ReadStats(w, c) ==
    /\ job[w].op = "catalog" /\ job[w].first = None /\ c \in job[w].todo
    /\ job' = [job EXCEPT ![w].first = c, ![w].count = CountIn(c)]
    /\ UNCHANGED <<ops, stored, vec, summary, catalog, covered, listed>>

WriteCatalogOnce(w) ==
    /\ job[w].op = "catalog" /\ job[w].first # None /\ ~job[w].done
    /\ catalog' = [c \in Conv |->
                      IF catalog[c] > 0 \/ c \notin job[w].todo THEN catalog[c]
                      ELSE IF c = job[w].first THEN job[w].count
                      ELSE CountIn(c)]
    /\ listed' = IF job[w].solo THEN listed \cup job[w].floor ELSE listed
    /\ job' = [job EXCEPT ![w].done = TRUE, ![w].todo = {}]
    /\ UNCHANGED <<ops, stored, vec, summary, covered>>

WriteCatalog(w) ==
    /\ job[w].op = "catalog" /\ job[w].first # None /\ ~job[w].done
    /\ catalog' = [c \in Conv |->
                      IF c \notin job[w].todo THEN catalog[c]
                      ELSE IF c = job[w].first THEN job[w].count
                      ELSE CountIn(c)]
    /\ listed' = IF job[w].solo THEN listed \cup job[w].floor ELSE listed
    /\ job' = [job EXCEPT ![w].done = TRUE, ![w].todo = {}]
    /\ UNCHANGED <<ops, stored, vec, summary, covered>>

(***************************************************************************)
(* An operation returns when nothing is left to do; the state is kept      *)
(* until its process goes on.  Any exception, or a kill, ends an operation *)
(* at any point.                                                           *)
(***************************************************************************)
Returned(j) ==
    /\ j.op # "idle" /\ j.todo = {}
    /\ j.op = "import" => j.written
    /\ j.op = "catalog" => j.done

End(w) ==
    /\ job[w] # Idle
    /\ job' = [job EXCEPT ![w] = Idle]
    /\ UNCHANGED <<ops, stored, vec, summary, catalog, covered, listed>>

Work(w) ==
    \/ SyncBegin(w) \/ IngestFile(w)
    \/ ImportBegin(w) \/ ImportMessages(w)
    \/ CompressBegin(w) \/ EmbedBegin(w)
    \/ RebuildBegin(w) \/ WriteCatalog(w)
    \/ \E c \in Conv : \/ Parse(w, c) \/ FileFails(w, c)
                       \/ ImportSummary(w, c) \/ SummaryFails(w, c)
                       \/ Compress(w, c) \/ ReadStats(w, c)
    \/ \E e \in Entry : SaveEmbedding(w, e)
    \/ End(w)

Next == \E w \in Worker : Work(w)

Spec == Init /\ [][Next]_vars

(***************************************************************************)
(* Types.                                                                  *)
(***************************************************************************)
TypeOK ==
    /\ ops \in Mixes
    /\ stored \subseteq Entry
    /\ vec \in [Entry -> Backend \cup {None}]
    /\ summary \in [Conv -> SUBSET SUBSET Entry]
    /\ catalog \in [Conv -> Nat]
    /\ job \in [Worker -> {Idle} \cup SyncJob \cup ImportJob
                          \cup CompressJob \cup EmbedJob \cup CatalogJob]
    /\ covered \subseteq Entry /\ listed \subseteq Entry

(***************************************************************************)
(* What was there when an operation began is dealt with when it returns,   *)
(* whatever other processes did meanwhile: a sync has stored every message *)
(* of the files that did not fail, an import every message and summary of  *)
(* the bundle that it does not report, an embedding run has left no        *)
(* message of its time without a vector, and a compression none without a  *)
(* summary (sync_directory_report, import_bundle_with_report,              *)
(* embed_project, compress_project).                                       *)
(***************************************************************************)
ReturnsWhole ==
    \A w \in Worker : LET j == job[w] IN Returned(j) =>
        /\ j.op = "sync" =>
              \A e \in j.floor : e \in stored \/ ConvOf[e] \in j.failed
        /\ j.op = "import" =>
              /\ j.floor \subseteq stored
              /\ \A c \in j.done : summary[c] # {}
        /\ j.op = "embed" => \A e \in j.floor : vec[e] # None
        /\ j.op = "compress" /\ ~Brief(w) =>
              \A c \in ConvsOf(j.floor) : summary[c] # {}

(***************************************************************************)
(* Later runs do not take back what a summary covers: what a compression   *)
(* covered that began while no other was under way stays covered, through  *)
(* any number of later and overlapping compressions, until a bundle brings *)
(* a summary of its own (compress_project, upsert_summary).                *)
(***************************************************************************)
SummaryKeeps ==
    \A e \in covered : /\ summary[ConvOf[e]] # {}
                        /\ \A s \in summary[ConvOf[e]] : e \in s

(***************************************************************************)
(* The catalog never counts a message that is not stored, and it counts    *)
(* every message that was stored when a rebuild began, once that rebuild   *)
(* has ended, if no other was under way when it began: the statistics read *)
(* before the lock do not bring back an older count (rebuild_catalog).     *)
(***************************************************************************)
CatalogKeeps ==
    \A c \in Conv : /\ catalog[c] <= CountIn(c)
                    /\ catalog[c] >= Cardinality(listed \cap In(c))
=============================================================================
