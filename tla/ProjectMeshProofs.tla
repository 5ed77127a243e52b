------------------------- MODULE ProjectMeshProofs -------------------------
(***************************************************************************)
(* Proofs about the project operations, for any number of workers,         *)
(* messages and conversations: types, what summaries keep and what the     *)
(* catalog counts.                                                         *)
(***************************************************************************)
EXTENDS ProjectMesh, FiniteSetTheorems, TLAPS

\* What a worker may be doing: TypeOK says job \in [Worker -> Jobs].
Jobs == {Idle} \cup SyncJob \cup ImportJob \cup CompressJob \cup EmbedJob
        \cup CatalogJob

(***************************************************************************)
(* The operation of a job says which record it is.                         *)
(***************************************************************************)
LEMMA JobKinds ==
    ASSUME NEW j \in Jobs
    PROVE  /\ j.op = "sync" => j \in SyncJob
           /\ j.op = "import" => j \in ImportJob
           /\ j.op = "compress" => j \in CompressJob
           /\ j.op = "embed" => j \in EmbedJob
           /\ j.op = "catalog" => j \in CatalogJob
BY DEF Jobs, Idle, SyncJob, ImportJob, CompressJob, EmbedJob, CatalogJob

(***************************************************************************)
(* Sets of messages are finite, and a part has no more than the whole.     *)
(***************************************************************************)
LEMMA Counting ==
    ASSUME NEW A \in SUBSET Entry, NEW B \in SUBSET Entry, A \subseteq B
    PROVE  /\ Cardinality(A) \in Nat
           /\ Cardinality(B) \in Nat
           /\ Cardinality(A) <= Cardinality(B)
<1>1. IsFiniteSet(B)
  BY ProjectAssumption, FS_Subset DEF ProjectAssumption
<1> QED
  BY <1>1, FS_Subset, FS_CardinalityType

(***************************************************************************)
(* Every step of every operation keeps the types (sync_service.py,         *)
(* storage.py).                                                            *)
(***************************************************************************)
LEMMA TypeBegins == Init => TypeOK
BY ProjectAssumption DEF Init, TypeOK, ProjectAssumption

LEMMA TypeStep ==
    ASSUME TypeOK, NEW w \in Worker, Work(w)
    PROVE  TypeOK'
<1> USE ProjectAssumption DEF ProjectAssumption
<1>0. job \in [Worker -> Jobs]
  BY DEF TypeOK, Jobs
<1> DEFINE Kept == /\ ops' \in Mixes /\ stored' \subseteq Entry
                   /\ vec' \in [Entry -> Backend \cup {None}]
                   /\ summary' \in [Conv -> SUBSET SUBSET Entry]
                   /\ catalog' \in [Conv -> Nat]
                   /\ covered' \subseteq Entry /\ listed' \subseteq Entry
<1>a. ASSUME Kept, job' \in [Worker -> Jobs] PROVE TypeOK'
  BY <1>a DEF TypeOK, Jobs
<1>k. /\ job[w].op = "sync" => job[w] \in SyncJob
      /\ job[w].op = "import" => job[w] \in ImportJob
      /\ job[w].op = "compress" => job[w] \in CompressJob
      /\ job[w].op = "embed" => job[w] \in EmbedJob
      /\ job[w].op = "catalog" => job[w] \in CatalogJob
  BY <1>0, JobKinds
<1>c. \A c \in Conv : CountIn(c) \in Nat
  BY Counting DEF TypeOK, CountIn, In
<1>b. ASSUME NEW j \in Jobs, Begins(w, j) PROVE job' \in [Worker -> Jobs]
  BY <1>0, <1>b DEF Begins
<1>2. CASE SyncBegin(w)
  <2>1. PICK es \in SUBSET Entry \ {{}} :
           Begins(w, [op |-> "sync", floor |-> es, todo |-> ConvsOf(es),
            file |-> None, got |-> {}, failed |-> {}])
    BY <1>2 DEF SyncBegin
  <2>2. [op |-> "sync", floor |-> es, todo |-> ConvsOf(es),
            file |-> None, got |-> {}, failed |-> {}] \in Jobs
    BY DEF Jobs, SyncJob, TypeOK, ConvsOf
  <2>3. job' \in [Worker -> Jobs]
    BY <2>1, <2>2, <1>b
  <2> QED
    BY <1>2, <2>3, <1>a DEF SyncBegin, TypeOK
<1>3. CASE IngestFile(w)
  <2>1. job[w] \in SyncJob
    BY <1>3, <1>k DEF IngestFile
  <2>2. job'[w] \in SyncJob
    BY <1>3, <2>1, <1>0 DEF IngestFile, SyncJob
  <2>3. job' \in [Worker -> Jobs]
    BY <1>3, <2>2, <1>0 DEF IngestFile, Jobs
  <2> QED
    BY <1>3, <2>1, <2>3, <1>a DEF IngestFile, TypeOK, SyncJob
<1>4. CASE ImportBegin(w)
  <2>1. PICK ms \in SUBSET Entry, cs \in SUBSET Conv :
           Begins(w, [op |-> "import", floor |-> ms, todo |-> cs,
            done |-> {}, written |-> FALSE])
    BY <1>4 DEF ImportBegin
  <2>2. [op |-> "import", floor |-> ms, todo |-> cs,
            done |-> {}, written |-> FALSE] \in Jobs
    BY DEF Jobs, ImportJob, TypeOK
  <2>3. job' \in [Worker -> Jobs]
    BY <2>1, <2>2, <1>b
  <2> QED
    BY <1>4, <2>3, <1>a DEF ImportBegin, TypeOK
<1>5. CASE ImportMessages(w)
  <2>1. job[w] \in ImportJob
    BY <1>5, <1>k DEF ImportMessages
  <2>2. job'[w] \in ImportJob
    BY <1>5, <2>1, <1>0 DEF ImportMessages, ImportJob
  <2>3. job' \in [Worker -> Jobs]
    BY <1>5, <2>2, <1>0 DEF ImportMessages, Jobs
  <2> QED
    BY <1>5, <2>1, <2>3, <1>a DEF ImportMessages, TypeOK, ImportJob
<1>6. CASE CompressBegin(w)
  <2>2. [op |-> "compress", floor |-> stored,
            todo |-> ConvsOf(stored), solo |-> NoneRuns("compress")] \in Jobs
    BY DEF Jobs, CompressJob, TypeOK, ConvsOf, NoneRuns
  <2>3. job' \in [Worker -> Jobs]
    BY <1>6, <2>2, <1>b DEF CompressBegin
  <2> QED
    BY <1>6, <2>3, <1>a DEF CompressBegin, TypeOK
<1>7. CASE EmbedBegin(w)
  <2>1. PICK b \in Backend :
           Begins(w, [op |-> "embed", floor |-> stored, todo |-> stored,
            backend |-> b])
    BY <1>7 DEF EmbedBegin
  <2>2. [op |-> "embed", floor |-> stored, todo |-> stored,
            backend |-> b] \in Jobs
    BY DEF Jobs, EmbedJob, TypeOK
  <2>3. job' \in [Worker -> Jobs]
    BY <2>1, <2>2, <1>b
  <2> QED
    BY <1>7, <2>3, <1>a DEF EmbedBegin, TypeOK
<1>8. CASE RebuildBegin(w)
  <2>2. [op |-> "catalog", floor |-> stored,
            todo |-> ConvsOf(stored), first |-> None, count |-> 0,
            solo |-> NoneRuns("catalog"), done |-> stored = {}] \in Jobs
    BY DEF Jobs, CatalogJob, TypeOK, ConvsOf, NoneRuns
  <2>3. job' \in [Worker -> Jobs]
    BY <1>8, <2>2, <1>b DEF RebuildBegin
  <2> QED
    BY <1>8, <2>3, <1>a DEF RebuildBegin, TypeOK
<1>9. CASE WriteCatalog(w)
  <2>1. job[w] \in CatalogJob
    BY <1>9, <1>k DEF WriteCatalog
  <2>2. job'[w] \in CatalogJob
    BY <1>9, <2>1, <1>0, <1>c DEF WriteCatalog, CatalogJob
  <2>3. job' \in [Worker -> Jobs]
    BY <1>9, <2>2, <1>0 DEF WriteCatalog, Jobs
  <2> QED
    BY <1>9, <2>1, <2>3, <1>a, <1>c DEF WriteCatalog, TypeOK, CatalogJob
<1>10. CASE \E c \in Conv : Parse(w, c)
  <2>0. PICK c \in Conv : Parse(w, c)
    BY <1>10
  <2>1. job[w] \in SyncJob
    BY <2>0, <1>k DEF Parse
  <2>2. job'[w] \in SyncJob
    <3>1. PICK es \in SUBSET In(c) :
             job' = [job EXCEPT ![w].file = c, ![w].got = es]
      BY <2>0 DEF Parse
    <3>2. es \subseteq Entry
      BY DEF In
    <3> QED
      BY <3>1, <3>2, <2>1, <1>0 DEF SyncJob
  <2>3. job' \in [Worker -> Jobs]
    BY <2>0, <2>2, <1>0 DEF Parse, Jobs
  <2>4. UNCHANGED <<ops, stored, vec, summary, catalog, covered, listed>>
    BY <2>0 DEF Parse
  <2> QED
    BY <2>3, <2>4, <1>a DEF TypeOK
<1>11. CASE \E c \in Conv : FileFails(w, c)
  <2>0. PICK c \in Conv : FileFails(w, c)
    BY <1>11
  <2>1. job[w] \in SyncJob
    BY <2>0, <1>k DEF FileFails
  <2>2. job'[w] \in SyncJob
    BY <2>0, <2>1, <1>0 DEF FileFails, SyncJob
  <2>3. job' \in [Worker -> Jobs]
    BY <2>0, <2>2, <1>0 DEF FileFails, Jobs
  <2> QED
    BY <2>0, <2>1, <2>3, <1>a DEF FileFails, TypeOK, SyncJob
<1>12. CASE \E c \in Conv : ImportSummary(w, c)
  <2>0. PICK c \in Conv : ImportSummary(w, c)
    BY <1>12
  <2>1. job[w] \in ImportJob
    BY <2>0, <1>k DEF ImportSummary
  <2>2. job'[w] \in ImportJob
    BY <2>0, <2>1, <1>0 DEF ImportSummary, ImportJob, Upsert
  <2>3. job' \in [Worker -> Jobs]
    BY <2>0, <2>2, <1>0 DEF ImportSummary, Jobs
  <2> QED
    BY <2>0, <2>1, <2>3, <1>a DEF ImportSummary, TypeOK, ImportJob, Upsert
<1>13. CASE \E c \in Conv : SummaryFails(w, c)
  <2>0. PICK c \in Conv : SummaryFails(w, c)
    BY <1>13
  <2>1. job[w] \in ImportJob
    BY <2>0, <1>k DEF SummaryFails
  <2>2. job'[w] \in ImportJob
    BY <2>0, <2>1, <1>0 DEF SummaryFails, ImportJob
  <2>3. job' \in [Worker -> Jobs]
    BY <2>0, <2>2, <1>0 DEF SummaryFails, Jobs
  <2> QED
    BY <2>0, <2>1, <2>3, <1>a DEF SummaryFails, TypeOK, ImportJob
<1>14. CASE \E c \in Conv : Compress(w, c)
  <2>0. PICK c \in Conv : Compress(w, c)
    BY <1>14
  <2>1. job[w] \in CompressJob
    BY <2>0, <1>k DEF Compress
  <2>2. job'[w] \in CompressJob
    BY <2>0, <2>1, <1>0 DEF Compress, CompressJob, Upsert
  <2>3. job' \in [Worker -> Jobs]
    BY <2>0, <2>2, <1>0 DEF Compress, Jobs
  <2> QED
    BY <2>0, <2>1, <2>3, <1>a DEF Compress, TypeOK, CompressJob, Upsert
<1>15. CASE \E c \in Conv : ReadStats(w, c)
  <2>0. PICK c \in Conv : ReadStats(w, c)
    BY <1>15
  <2>1. job[w] \in CatalogJob
    BY <2>0, <1>k DEF ReadStats
  <2>2. job'[w] \in CatalogJob
    BY <2>0, <2>1, <1>0, <1>c DEF ReadStats, CatalogJob
  <2>3. job' \in [Worker -> Jobs]
    BY <2>0, <2>2, <1>0 DEF ReadStats, Jobs
  <2> QED
    BY <2>0, <2>1, <2>3, <1>a, <1>c DEF ReadStats, TypeOK, CatalogJob
<1>16. CASE \E e \in Entry : SaveEmbedding(w, e)
  <2>0. PICK e \in Entry : SaveEmbedding(w, e)
    BY <1>16
  <2>1. job[w] \in EmbedJob
    BY <2>0, <1>k DEF SaveEmbedding
  <2>2. job'[w] \in EmbedJob
    BY <2>0, <2>1, <1>0 DEF SaveEmbedding, EmbedJob
  <2>3. job' \in [Worker -> Jobs]
    BY <2>0, <2>2, <1>0 DEF SaveEmbedding, Jobs
  <2> QED
    BY <2>0, <2>1, <2>3, <1>a DEF SaveEmbedding, TypeOK, EmbedJob
<1>17. CASE End(w)
  <2>1. job' \in [Worker -> Jobs]
    BY <1>17, <1>0 DEF End, Jobs
  <2> QED
    BY <1>17, <2>1, <1>a DEF End, TypeOK
<1> QED
  BY <1>2, <1>3, <1>4, <1>5, <1>6, <1>7, <1>8, <1>9, <1>10, <1>11, <1>12,
     <1>13, <1>14, <1>15, <1>16, <1>17 DEF Work

(***************************************************************************)
(* The types hold throughout, for any number of workers, messages and      *)
(* conversations.                                                          *)
(***************************************************************************)
THEOREM TypeCorrect == Spec => []TypeOK
<1>1. ASSUME TypeOK, [Next]_vars
      PROVE  TypeOK'
  <2>1. CASE UNCHANGED vars
    BY <1>1, <2>1 DEF TypeOK, vars
  <2> QED
    BY <1>1, <2>1, TypeStep DEF Next
<1> QED
  BY <1>1, TypeBegins, PTL DEF Spec

(***************************************************************************)
(* What one step of a worker leaves alone, and what it only adds to.       *)
(***************************************************************************)
LEMMA Others ==
    ASSUME TypeOK, NEW w \in Worker, Work(w)
    PROVE  /\ \A v \in Worker \ {w} : job'[v] = job[v]
           /\ stored \subseteq stored'
           /\ \A e \in Entry : vec[e] # None => vec'[e] # None
           /\ \A c \in Conv : summary[c] # {} => summary'[c] # {}
           /\ ops' = ops
<1> USE DEF TypeOK
<1>1. CASE SyncBegin(w)
  BY <1>1 DEF SyncBegin, Begins
<1>2. CASE IngestFile(w)
  BY <1>2 DEF IngestFile
<1>3. CASE ImportBegin(w)
  BY <1>3 DEF ImportBegin, Begins
<1>4. CASE ImportMessages(w)
  BY <1>4 DEF ImportMessages
<1>5. CASE CompressBegin(w)
  BY <1>5 DEF CompressBegin, Begins
<1>6. CASE EmbedBegin(w)
  BY <1>6 DEF EmbedBegin, Begins
<1>7. CASE RebuildBegin(w)
  BY <1>7 DEF RebuildBegin, Begins
<1>8. CASE WriteCatalog(w)
  BY <1>8 DEF WriteCatalog
<1>9. CASE \E c \in Conv : Parse(w, c)
  BY <1>9 DEF Parse
<1>10. CASE \E c \in Conv : FileFails(w, c)
  BY <1>10 DEF FileFails
<1>11. CASE \E c \in Conv : ImportSummary(w, c)
  <2>1. PICK c \in Conv : ImportSummary(w, c)
    BY <1>11
  <2>2. summary' = [summary EXCEPT ![c] = {{}}]
    BY <2>1 DEF ImportSummary, Upsert
  <2>3. \A d \in Conv : summary[d] # {} => summary'[d] # {}
    BY <2>2
  <2> QED
    BY <2>1, <2>3 DEF ImportSummary
<1>12. CASE \E c \in Conv : SummaryFails(w, c)
  BY <1>12 DEF SummaryFails
<1>13. CASE \E c \in Conv : Compress(w, c)
  <2>1. PICK c \in Conv : Compress(w, c)
    BY <1>13
  <2>2. summary' \in {summary, [summary EXCEPT ![c] = {job[w].floor \cap In(c)}]}
    BY <2>1 DEF Compress, Upsert
  <2>3. \A d \in Conv : summary[d] # {} => summary'[d] # {}
    BY <2>2
  <2> QED
    BY <2>1, <2>3 DEF Compress
<1>14. CASE \E c \in Conv : ReadStats(w, c)
  BY <1>14 DEF ReadStats
<1>15. CASE \E e \in Entry : SaveEmbedding(w, e)
  <2>1. PICK e \in Entry : SaveEmbedding(w, e)
    BY <1>15
  <2>2. job[w] \in EmbedJob
    BY <2>1, JobKinds DEF SaveEmbedding, Jobs
  <2> QED
    BY <2>1, <2>2, ProjectAssumption
    DEF SaveEmbedding, EmbedJob, ProjectAssumption
<1>16. CASE End(w)
  BY <1>16 DEF End
<1> QED
  BY <1>1, <1>2, <1>3, <1>4, <1>5, <1>6, <1>7, <1>8, <1>9, <1>10, <1>11,
     <1>12, <1>13, <1>14, <1>15, <1>16 DEF Work

(***************************************************************************)
(* Summaries.  A compression reads all the messages at its beginning, and  *)
(* what others have covered by then is among them; one that began alone    *)
(* knows no more than those that began after it.                           *)
(***************************************************************************)
Compressing(w) == job[w].op = "compress"

CompressOK(w) ==
    Compressing(w) =>
        /\ job[w].floor \subseteq stored
        /\ covered \subseteq job[w].floor
        /\ job[w].solo => \A v \in Worker :
               Compressing(v) => job[w].floor \subseteq job[v].floor

SummaryInv == /\ covered \subseteq stored
              /\ \A w \in Worker : CompressOK(w)
              /\ SummaryKeeps

(***************************************************************************)
(* Every operation keeps that: a compression that ends covers what its     *)
(* summary covers, and no summary shrinks while another one is under way.  *)
(***************************************************************************)
LEMMA SummaryStep ==
    ASSUME TypeOK, SummaryInv, NEW w \in Worker, Work(w)
    PROVE  SummaryInv'
<1> DEFINE Quiet == /\ UNCHANGED <<summary, covered>>
                    /\ ~Compressing(w)'
<1>0. /\ \A v \in Worker \ {w} : job'[v] = job[v]
      /\ stored \subseteq stored'
  BY Others
<1>k. /\ job \in [Worker -> Jobs]
      /\ Compressing(w) => job[w] \in CompressJob
  BY JobKinds DEF TypeOK, Jobs, Compressing
<1>q. ASSUME Quiet PROVE SummaryInv'
  BY <1>0, <1>q DEF SummaryInv, CompressOK, Compressing, SummaryKeeps
<1>1. CASE CompressBegin(w)
  <2>1. job'[w] = [op |-> "compress", floor |-> stored,
                   todo |-> ConvsOf(stored), solo |-> NoneRuns("compress")]
    BY <1>1, <1>k DEF CompressBegin, Begins
  <2>2. UNCHANGED <<stored, summary, covered>>
    BY <1>1 DEF CompressBegin
  <2>3. job'[w].solo => \A v \in Worker \ {w} : ~Compressing(v)'
    BY <2>1, <1>0 DEF NoneRuns, Compressing
  <2> QED
    BY <2>1, <2>2, <2>3, <1>0
    DEF SummaryInv, CompressOK, Compressing, SummaryKeeps
<1>2. CASE \E c \in Conv : Compress(w, c)
  <2>0. PICK c \in Conv : Compress(w, c)
    BY <1>2
  <2>1. job[w] \in CompressJob
    BY <2>0, <1>k DEF Compress, Compressing
  <2>2. /\ job'[w].op = "compress" /\ job'[w].floor = job[w].floor
        /\ job'[w].solo = job[w].solo
    BY <2>0, <2>1, <1>k DEF Compress, CompressJob
  <2>b. CASE Brief(w)
    <3>1. UNCHANGED <<stored, summary, covered>> /\ Compressing(w)
      BY <2>0, <2>b DEF Compress, Compressing
    <3>2. \A v \in Worker : Compressing(v)' =>
             /\ Compressing(v)
             /\ job'[v].floor = job[v].floor /\ job'[v].solo = job[v].solo
      BY <2>2, <3>1, <1>0 DEF Compressing
    <3> QED
      BY <3>1, <3>2 DEF SummaryInv, CompressOK, SummaryKeeps
  <2> SUFFICES ASSUME ~Brief(w) PROVE SummaryInv'
    BY <2>b
  <2>3. /\ Compressing(w) /\ stored' = stored
        /\ summary' = [summary EXCEPT ![c] = {job[w].floor \cap In(c)}]
        /\ covered' = IF job[w].solo
                      THEN covered \cup (job[w].floor \cap In(c)) ELSE covered
    BY <2>0 DEF Compress, Upsert, Compressing
  <2>4. \A v \in Worker : Compressing(v)' => Compressing(v)
    BY <2>3, <1>0 DEF Compressing
  <2>5. \A v \in Worker : Compressing(v)' =>
           /\ job'[v].floor = job[v].floor /\ job'[v].solo = job[v].solo
    BY <2>2, <1>0
  <2>6. \A v \in Worker : Compressing(v) => covered' \subseteq job[v].floor
    BY <2>3 DEF SummaryInv, CompressOK
  <2>7. covered' \subseteq stored'
    BY <2>3, <2>6 DEF SummaryInv, CompressOK
  <2>8. \A v \in Worker : CompressOK(v)'
    BY <2>3, <2>4, <2>5, <2>6 DEF SummaryInv, CompressOK
  <2>9. SummaryKeeps'
    <3> SUFFICES ASSUME NEW e \in covered'
                 PROVE  /\ summary'[ConvOf[e]] # {}
                        /\ \A s \in summary'[ConvOf[e]] : e \in s
      BY DEF SummaryKeeps
    <3>1. e \in Entry /\ ConvOf[e] \in Conv /\ e \in job[w].floor
      BY <2>3, <2>6, <2>1, ProjectAssumption
      DEF CompressJob, ProjectAssumption
    <3>2. CASE ConvOf[e] = c
      BY <3>1, <3>2, <2>3 DEF TypeOK, In
    <3>3. CASE ConvOf[e] # c
      <4>1. e \in covered
        BY <3>3, <2>3 DEF In
      <4>2. summary'[ConvOf[e]] = summary[ConvOf[e]]
        BY <3>1, <3>3, <2>3 DEF TypeOK
      <4> QED
        BY <4>1, <4>2 DEF SummaryInv, SummaryKeeps
    <3> QED
      BY <3>2, <3>3
  <2> QED
    BY <2>7, <2>8, <2>9 DEF SummaryInv
<1>3. CASE \E c \in Conv : ImportSummary(w, c)
  <2>0. PICK c \in Conv : ImportSummary(w, c)
    BY <1>3
  <2>1. job[w] \in ImportJob
    BY <2>0, <1>k, JobKinds DEF ImportSummary
  <2>2. job'[w].op = "import"
    BY <2>0, <2>1, <1>k DEF ImportSummary, ImportJob
  <2>3. /\ stored' = stored /\ covered' = covered \ In(c)
        /\ summary' = [summary EXCEPT ![c] = {{}}]
    BY <2>0 DEF ImportSummary, Upsert
  <2>4. \A v \in Worker : CompressOK(v)'
    BY <2>2, <2>3, <1>0 DEF SummaryInv, CompressOK, Compressing
  <2>5. SummaryKeeps'
    <3> SUFFICES ASSUME NEW e \in covered'
                 PROVE  /\ summary'[ConvOf[e]] # {}
                        /\ \A s \in summary'[ConvOf[e]] : e \in s
      BY DEF SummaryKeeps
    <3>1. e \in covered /\ e \in Entry /\ ConvOf[e] \in Conv
      BY <2>3, ProjectAssumption DEF TypeOK, ProjectAssumption
    <3>2. ConvOf[e] # c
      BY <3>1, <2>3 DEF In
    <3>3. summary'[ConvOf[e]] = summary[ConvOf[e]]
      BY <3>1, <3>2, <2>3 DEF TypeOK
    <3> QED
      BY <3>1, <3>3 DEF SummaryInv, SummaryKeeps
  <2> QED
    BY <2>3, <2>4, <2>5 DEF SummaryInv
<1>4. CASE \/ SyncBegin(w) \/ ImportBegin(w) \/ EmbedBegin(w)
           \/ RebuildBegin(w) \/ End(w)
  BY <1>4, <1>k, <1>q
  DEF SyncBegin, ImportBegin, EmbedBegin, RebuildBegin, End, Begins, Idle,
      Compressing
<1>5. CASE IngestFile(w) \/ ImportMessages(w) \/ WriteCatalog(w)
  <2>1. /\ job[w].op \in {"sync", "import", "catalog"}
        /\ UNCHANGED <<summary, covered>>
    BY <1>5 DEF IngestFile, ImportMessages, WriteCatalog
  <2>2. job[w] \in SyncJob \cup ImportJob \cup CatalogJob
    BY <2>1, <1>k, JobKinds
  <2>3. job'[w].op = job[w].op
    BY <1>5, <2>2, <1>k
    DEF IngestFile, ImportMessages, WriteCatalog, SyncJob, ImportJob, CatalogJob
  <2> QED
    BY <2>1, <2>3, <1>q DEF Compressing
<1>6. CASE \E c \in Conv : \/ Parse(w, c) \/ FileFails(w, c)
                            \/ SummaryFails(w, c) \/ ReadStats(w, c)
  <2>0. PICK c \in Conv : \/ Parse(w, c) \/ FileFails(w, c)
                           \/ SummaryFails(w, c) \/ ReadStats(w, c)
    BY <1>6
  <2>1. /\ job[w].op \in {"sync", "import", "catalog"}
        /\ UNCHANGED <<summary, covered>>
    BY <2>0 DEF Parse, FileFails, SummaryFails, ReadStats
  <2>2. job[w] \in SyncJob \cup ImportJob \cup CatalogJob
    BY <2>1, <1>k, JobKinds
  <2>3. job'[w].op = job[w].op
    BY <2>0, <2>2, <1>k
    DEF Parse, FileFails, SummaryFails, ReadStats, SyncJob, ImportJob,
        CatalogJob
  <2> QED
    BY <2>1, <2>3, <1>q DEF Compressing
<1>7. CASE \E e \in Entry : SaveEmbedding(w, e)
  <2>0. PICK e \in Entry : SaveEmbedding(w, e)
    BY <1>7
  <2>1. job[w] \in EmbedJob
    BY <2>0, <1>k, JobKinds DEF SaveEmbedding
  <2>2. job'[w].op = "embed" /\ UNCHANGED <<summary, covered>>
    BY <2>0, <2>1, <1>k DEF SaveEmbedding, EmbedJob
  <2> QED
    BY <2>2, <1>q DEF Compressing
<1> QED
  BY <1>1, <1>2, <1>3, <1>4, <1>5, <1>6, <1>7 DEF Work

LEMMA SummaryBegins == Init => SummaryInv
BY DEF Init, SummaryInv, CompressOK, Compressing, SummaryKeeps, Idle

(***************************************************************************)
(* What a compression covered that began alone stays covered by the        *)
(* summaries, for any number of workers, messages and conversations        *)
(* (compress_project, upsert_summary).                                     *)
(***************************************************************************)
THEOREM SummaryKeepsHolds == Spec => []SummaryKeeps
<1>1. Init => SummaryInv
  BY SummaryBegins
<1>2. ASSUME TypeOK, SummaryInv, [Next]_vars
      PROVE  SummaryInv'
  <2>1. CASE UNCHANGED vars
    BY <1>2, <2>1
    DEF vars, SummaryInv, CompressOK, Compressing, SummaryKeeps
  <2> QED
    BY <1>2, <2>1, SummaryStep DEF Next
<1>3. SummaryInv => SummaryKeeps
  BY DEF SummaryInv
<1> QED
  BY <1>1, <1>2, <1>3, TypeCorrect, PTL DEF Spec

(***************************************************************************)
(* The catalog.  A rebuild has read its groups, and perhaps the statistics *)
(* of the first, at its beginning or later; what earlier rebuilds that     *)
(* began alone have listed was stored by then.                             *)
(***************************************************************************)
Rebuilding(w) == job[w].op = "catalog" /\ ~job[w].done

StatsOK(w) ==
    job[w].first # None =>
        /\ job[w].first \in Conv
        /\ job[w].first \in job[w].todo
        /\ job[w].count <= Cardinality(stored \cap In(job[w].first))
        /\ Cardinality(job[w].floor \cap In(job[w].first)) <= job[w].count

CatalogOK(w) ==
    Rebuilding(w) =>
        /\ job[w].floor \subseteq stored
        /\ job[w].todo = ConvsOf(job[w].floor)
        /\ listed \subseteq job[w].floor
        /\ job[w].solo => \A v \in Worker :
               Rebuilding(v) => job[w].floor \subseteq job[v].floor
        /\ StatsOK(w)

CatalogInv == /\ listed \subseteq stored
              /\ \A w \in Worker : CatalogOK(w)
              /\ CatalogKeeps

(***************************************************************************)
(* Messages are only added, so that counts grow.                           *)
(***************************************************************************)
LEMMA CountGrows ==
    ASSUME TypeOK, TypeOK', stored \subseteq stored', NEW c \in Conv
    PROVE  /\ CountIn(c) \in Nat
           /\ CountIn(c)' \in Nat
           /\ CountIn(c) <= CountIn(c)'
<1>1. /\ stored \cap In(c) \in SUBSET Entry
      /\ stored' \cap In(c) \in SUBSET Entry
      /\ stored \cap In(c) \subseteq stored' \cap In(c)
  BY DEF TypeOK
<1> QED
  BY <1>1, Counting DEF CountIn, In

(***************************************************************************)
(* Every operation keeps that: the statistics that a rebuild holds are no  *)
(* higher than the count and no lower than what is listed.                 *)
(***************************************************************************)
LEMMA CatalogStep ==
    ASSUME TypeOK, TypeOK', CatalogInv, NEW w \in Worker, Work(w)
    PROVE  CatalogInv'
<1>0. /\ \A v \in Worker \ {w} : job'[v] = job[v]
      /\ stored \subseteq stored'
  BY Others
<1>k. /\ job \in [Worker -> Jobs]
      /\ job[w].op = "catalog" => job[w] \in CatalogJob
      /\ \A v \in Worker : Rebuilding(v) => job[v] \in CatalogJob
  BY JobKinds DEF TypeOK, Jobs, Rebuilding
<1>g. \A c \in Conv : /\ CountIn(c) \in Nat /\ CountIn(c)' \in Nat
                      /\ CountIn(c) <= CountIn(c)'
  BY <1>0, CountGrows
<1>o. ASSUME listed' = listed, NEW v \in Worker \ {w}, StatsOK(v), Rebuilding(v)
      PROVE  StatsOK(v)'
  <2>1. job[v] \in CatalogJob /\ job'[v] = job[v]
    BY <1>o, <1>0, <1>k
  <2> SUFFICES ASSUME job[v].first # None PROVE StatsOK(v)'
    BY <2>1 DEF StatsOK
  <2> DEFINE n == Cardinality(stored \cap In(job[v].first))
             m == Cardinality(stored' \cap In(job[v].first))
  <2>2. /\ job[v].count \in Nat /\ job[v].count <= n
    BY <1>o, <2>1 DEF StatsOK, CatalogJob
  <2>3. n \in Nat /\ m \in Nat /\ n <= m
    <3>1. /\ stored \cap In(job[v].first) \in SUBSET Entry
          /\ stored' \cap In(job[v].first) \in SUBSET Entry
          /\ stored \cap In(job[v].first) \subseteq stored' \cap In(job[v].first)
      BY <1>0 DEF TypeOK
    <3> QED
      BY <3>1, Counting
  <2>4. job[v].count <= m
    <3> HIDE DEF n, m
    <3> QED
      BY <2>2, <2>3
  <2> QED
    BY <1>o, <2>1, <2>4 DEF StatsOK
<1>a. ASSUME catalog' = catalog, listed' = listed PROVE CatalogKeeps'
  <2> SUFFICES ASSUME NEW c \in Conv
               PROVE  /\ catalog[c] <= CountIn(c)'
                      /\ catalog[c] >= Cardinality(listed \cap In(c))
    BY <1>a DEF CatalogKeeps
  <2>1. /\ catalog[c] \in Nat /\ catalog[c] <= CountIn(c)
        /\ catalog[c] >= Cardinality(listed \cap In(c))
    BY DEF TypeOK, CatalogInv, CatalogKeeps
  <2> QED
    BY <2>1, <1>g
<1>q. ASSUME UNCHANGED <<catalog, listed>>, ~Rebuilding(w)'
      PROVE  CatalogInv'
  <2>1. \A v \in Worker : Rebuilding(v)' => v # w /\ Rebuilding(v)
    BY <1>0, <1>q DEF Rebuilding
  <2>2. ASSUME NEW v \in Worker PROVE CatalogOK(v)'
    <3> SUFFICES ASSUME Rebuilding(v)' PROVE CatalogOK(v)'
      BY DEF CatalogOK
    <3>1. v # w /\ Rebuilding(v) /\ CatalogOK(v) /\ job'[v] = job[v]
      BY <2>1, <1>0 DEF CatalogInv
    <3>2. StatsOK(v)'
      BY <3>1, <1>o, <1>q DEF CatalogOK
    <3> QED
      BY <3>1, <3>2, <2>1, <1>0, <1>q DEF CatalogOK
  <2> QED
    BY <1>0, <1>q, <1>a, <2>2 DEF CatalogInv
<1>1. CASE RebuildBegin(w)
  <2>1. /\ job'[w] = [op |-> "catalog", floor |-> stored,
                      todo |-> ConvsOf(stored), first |-> None, count |-> 0,
                      solo |-> NoneRuns("catalog"), done |-> stored = {}]
        /\ UNCHANGED <<stored, catalog, listed>>
    BY <1>1, <1>k DEF RebuildBegin, Begins
  <2>2. job'[w].solo => \A v \in Worker \ {w} : ~Rebuilding(v)'
    BY <2>1, <1>0 DEF NoneRuns, Rebuilding
  <2>3. CatalogOK(w)'
    <3>1. StatsOK(w)'
      BY <2>1 DEF StatsOK
    <3> QED
      BY <2>1, <2>2, <3>1 DEF CatalogOK, CatalogInv
  <2>4. ASSUME NEW v \in Worker \ {w} PROVE CatalogOK(v)'
    <3> SUFFICES ASSUME Rebuilding(v)' PROVE CatalogOK(v)'
      BY DEF CatalogOK
    <3>1. Rebuilding(v) /\ CatalogOK(v) /\ job'[v] = job[v]
      BY <1>0 DEF CatalogInv, Rebuilding
    <3>2. StatsOK(v)'
      BY <3>1, <1>o, <2>1 DEF CatalogOK
    <3>3. job[v].floor \subseteq stored
      BY <3>1 DEF CatalogOK
    <3>4. \A u \in Worker : Rebuilding(u)' =>
             u = w \/ (Rebuilding(u) /\ job'[u] = job[u])
      <4> TAKE u \in Worker
      <4>1. CASE u = w
        BY <4>1
      <4>2. CASE u # w
        BY <4>2, <1>0 DEF Rebuilding
      <4> QED
        BY <4>1, <4>2
    <3> QED
      BY <3>1, <3>2, <3>3, <3>4, <2>1 DEF CatalogOK
  <2> QED
    BY <2>1, <2>3, <2>4, <1>a DEF CatalogInv
<1>2. CASE \E c \in Conv : ReadStats(w, c)
  <2>0. PICK c \in Conv : ReadStats(w, c)
    BY <1>2
  <2>1. job[w] \in CatalogJob /\ c \in job[w].todo
    BY <2>0, <1>k DEF ReadStats
  <2>2. /\ job'[w].op = "catalog" /\ job'[w].done = job[w].done
        /\ job'[w].floor = job[w].floor /\ job'[w].solo = job[w].solo
        /\ job'[w].todo = job[w].todo
        /\ job'[w].first = c /\ job'[w].count = CountIn(c)
    BY <2>0, <2>1, <1>k DEF ReadStats, CatalogJob
  <2>3. UNCHANGED <<stored, catalog, listed>> /\ job[w].op = "catalog"
    BY <2>0 DEF ReadStats
  <2>4. \A v \in Worker : Rebuilding(v)' =>
           /\ Rebuilding(v) /\ job'[v].floor = job[v].floor
           /\ job'[v].solo = job[v].solo /\ job'[v].todo = job[v].todo
    BY <2>2, <2>3, <1>0 DEF Rebuilding
  <2>5. ASSUME NEW v \in Worker PROVE CatalogOK(v)'
    <3> SUFFICES ASSUME Rebuilding(v)' PROVE CatalogOK(v)'
      BY DEF CatalogOK
    <3>1. Rebuilding(v) /\ CatalogOK(v)
      BY <2>4 DEF CatalogInv
    <3>2. StatsOK(v)'
      <4>1. CASE v = w
        <5>1. /\ job[w].floor \cap In(c) \in SUBSET Entry
              /\ stored \cap In(c) \in SUBSET Entry
              /\ job[w].floor \cap In(c) \subseteq stored \cap In(c)
          BY <3>1, <4>1, <2>1 DEF CatalogOK, TypeOK, CatalogJob
        <5>2. Cardinality(job[w].floor \cap In(c)) <= CountIn(c)
          BY <5>1, Counting DEF CountIn
        <5>3. CountIn(c) = Cardinality(stored \cap In(c)) /\ CountIn(c) \in Nat
          BY <1>g DEF CountIn
        <5> QED
          BY <4>1, <5>2, <5>3, <2>1, <2>2, <2>3 DEF StatsOK
      <4>2. CASE v # w
        BY <4>2, <3>1, <1>o, <2>3 DEF CatalogOK
      <4> QED
        BY <4>1, <4>2
    <3> QED
      BY <3>1, <3>2, <2>3, <2>4 DEF CatalogOK
  <2> QED
    BY <2>3, <2>5, <1>a DEF CatalogInv
<1>3. CASE WriteCatalog(w)
  <2> DEFINE f == job[w].floor
  <2>1. job[w] \in CatalogJob /\ Rebuilding(w) /\ job[w].first # None
    BY <1>3, <1>k DEF WriteCatalog, Rebuilding
  <2>2. ~Rebuilding(w)'
    BY <1>3, <2>1, <1>k DEF WriteCatalog, CatalogJob, Rebuilding
  <2>3. /\ stored' = stored
        /\ listed' = IF job[w].solo THEN listed \cup f ELSE listed
        /\ catalog' = [c \in Conv |->
                         IF c \notin job[w].todo THEN catalog[c]
                         ELSE IF c = job[w].first THEN job[w].count
                         ELSE CountIn(c)]
    BY <1>3 DEF WriteCatalog
  <2>4. /\ f \subseteq stored /\ listed \subseteq f
        /\ job[w].todo = ConvsOf(f) /\ StatsOK(w) /\ f \subseteq Entry
    BY <2>1 DEF CatalogInv, CatalogOK, CatalogJob
  <2>5. listed' \subseteq f
    BY <2>3, <2>4
  <2>6. ASSUME NEW v \in Worker PROVE CatalogOK(v)'
    <3> SUFFICES ASSUME Rebuilding(v)' PROVE CatalogOK(v)'
      BY DEF CatalogOK
    <3>1. v # w /\ Rebuilding(v) /\ CatalogOK(v) /\ job'[v] = job[v]
      BY <2>2, <1>0 DEF CatalogInv, Rebuilding
    <3>2. listed' \subseteq job[v].floor
      BY <3>1, <2>1, <2>3 DEF CatalogInv, CatalogOK
    <3>3. StatsOK(v)'
      BY <3>1, <2>3 DEF CatalogOK, StatsOK
    <3>4. \A u \in Worker : Rebuilding(u)' => Rebuilding(u) /\ job'[u] = job[u]
      BY <2>2, <1>0 DEF Rebuilding
    <3> QED
      BY <3>1, <3>2, <3>3, <3>4, <2>3 DEF CatalogOK
  <2>7. ASSUME NEW c \in Conv
        PROVE  /\ catalog'[c] <= CountIn(c)'
               /\ catalog'[c] >= Cardinality(listed' \cap In(c))
    <3>1. CountIn(c)' = CountIn(c)
      BY <2>3 DEF CountIn
    <3>2. /\ Cardinality(listed' \cap In(c)) \in Nat
          /\ Cardinality(f \cap In(c)) \in Nat
          /\ Cardinality(listed' \cap In(c)) <= Cardinality(f \cap In(c))
          /\ Cardinality(f \cap In(c)) <= CountIn(c)
      <4>1. /\ listed' \cap In(c) \in SUBSET Entry
            /\ f \cap In(c) \in SUBSET Entry
            /\ stored \cap In(c) \in SUBSET Entry
            /\ listed' \cap In(c) \subseteq f \cap In(c)
            /\ f \cap In(c) \subseteq stored \cap In(c)
        BY <2>4, <2>5 DEF TypeOK
      <4> HIDE DEF f
      <4> QED
        BY <4>1, Counting DEF CountIn
    <3>3. CASE c \notin job[w].todo
      <4>1. listed' \cap In(c) = listed \cap In(c)
        BY <3>3, <2>3, <2>4 DEF ConvsOf, In
      <4>2. catalog'[c] = catalog[c]
        BY <3>3, <2>3
      <4> QED
        BY <4>1, <4>2, <3>1 DEF CatalogInv, CatalogKeeps
    <3>4. CASE c \in job[w].todo /\ c = job[w].first
      <4>1. catalog'[c] = job[w].count /\ job[w].count \in Nat
        BY <3>4, <2>3, <2>1 DEF CatalogJob
      <4>2. /\ job[w].count <= CountIn(c)
            /\ Cardinality(f \cap In(c)) <= job[w].count
        BY <3>4, <2>1, <2>4 DEF StatsOK, CountIn
      <4> HIDE DEF f
      <4> QED
        BY <4>1, <4>2, <3>1, <3>2
    <3>5. CASE c \in job[w].todo /\ c # job[w].first
      <4>1. catalog'[c] = CountIn(c)
        BY <3>5, <2>3
      <4> HIDE DEF f
      <4> QED
        BY <4>1, <3>1, <3>2, <1>g
    <3> QED
      BY <3>3, <3>4, <3>5
  <2>8. listed' \subseteq stored'
    BY <2>3, <2>4, <2>5
  <2>9. CatalogKeeps'
    BY <2>7 DEF CatalogKeeps
  <2> QED
    BY <2>6, <2>8, <2>9 DEF CatalogInv
<1>4. CASE \/ SyncBegin(w) \/ ImportBegin(w) \/ CompressBegin(w)
           \/ EmbedBegin(w) \/ End(w)
  BY <1>4, <1>k, <1>q
  DEF SyncBegin, ImportBegin, CompressBegin, EmbedBegin, End, Begins, Idle,
      Rebuilding
<1>5. CASE IngestFile(w) \/ ImportMessages(w)
  <2>1. /\ job[w].op \in {"sync", "import"}
        /\ UNCHANGED <<catalog, listed>>
    BY <1>5 DEF IngestFile, ImportMessages
  <2>2. job[w] \in SyncJob \cup ImportJob
    BY <2>1, <1>k, JobKinds
  <2>3. job'[w].op = job[w].op
    BY <1>5, <2>2, <1>k DEF IngestFile, ImportMessages, SyncJob, ImportJob
  <2> QED
    BY <2>1, <2>3, <1>q DEF Rebuilding
<1>6. CASE \E c \in Conv : \/ Parse(w, c) \/ FileFails(w, c)
                            \/ ImportSummary(w, c) \/ SummaryFails(w, c)
                            \/ Compress(w, c)
  <2>0. PICK c \in Conv : \/ Parse(w, c) \/ FileFails(w, c)
                           \/ ImportSummary(w, c) \/ SummaryFails(w, c)
                           \/ Compress(w, c)
    BY <1>6
  <2>1. /\ job[w].op \in {"sync", "import", "compress"}
        /\ UNCHANGED <<catalog, listed>>
    BY <2>0 DEF Parse, FileFails, ImportSummary, SummaryFails, Compress
  <2>2. job[w] \in SyncJob \cup ImportJob \cup CompressJob
    BY <2>1, <1>k, JobKinds
  <2>3. job'[w].op = job[w].op
    BY <2>0, <2>2, <1>k
    DEF Parse, FileFails, ImportSummary, SummaryFails, Compress, SyncJob,
        ImportJob, CompressJob
  <2> QED
    BY <2>1, <2>3, <1>q DEF Rebuilding
<1>7. CASE \E e \in Entry : SaveEmbedding(w, e)
  <2>0. PICK e \in Entry : SaveEmbedding(w, e)
    BY <1>7
  <2>1. job[w] \in EmbedJob
    BY <2>0, <1>k, JobKinds DEF SaveEmbedding
  <2>2. job'[w].op = "embed" /\ UNCHANGED <<catalog, listed>>
    BY <2>0, <2>1, <1>k DEF SaveEmbedding, EmbedJob
  <2> QED
    BY <2>2, <1>q DEF Rebuilding
<1> QED
  BY <1>1, <1>2, <1>3, <1>4, <1>5, <1>6, <1>7 DEF Work

LEMMA CatalogBegins ==
    ASSUME Init
    PROVE  CatalogInv
<1>1. \A c \in Conv : CountIn(c) = 0 /\ Cardinality(listed \cap In(c)) = 0
  BY FS_EmptySet DEF Init, CountIn
<1> QED
  BY <1>1 DEF Init, CatalogInv, CatalogOK, Rebuilding, CatalogKeeps, Idle

(***************************************************************************)
(* For any number of rebuilds, syncs and imports the catalog counts what   *)
(* is stored, and all that was stored when a rebuild that began alone and  *)
(* has ended began (rebuild_catalog).                                      *)
(***************************************************************************)
THEOREM CatalogKeepsHolds == Spec => []CatalogKeeps
<1>1. Init => CatalogInv
  BY CatalogBegins
<1>2. ASSUME TypeOK, TypeOK', CatalogInv, [Next]_vars
      PROVE  CatalogInv'
  <2>1. CASE UNCHANGED vars
    BY <1>2, <2>1
    DEF vars, CatalogInv, CatalogOK, StatsOK, Rebuilding, CatalogKeeps, CountIn
  <2> QED
    BY <1>2, <2>1, CatalogStep DEF Next
<1>3. CatalogInv => CatalogKeeps
  BY DEF CatalogInv
<1> QED
  BY <1>1, <1>2, <1>3, TypeCorrect, PTL DEF Spec

(***************************************************************************)
(* What an operation still owes.  A message or conversation that was there *)
(* at the beginning is dealt with, or reported, or left to do; what was    *)
(* parsed from a transcript has all that it held at the beginning.         *)
(***************************************************************************)
Owes(w) ==
    LET j == job[w] IN
    /\ j.op = "sync" =>
          /\ \A e \in j.floor : \/ e \in stored
                                \/ ConvOf[e] \in j.failed \cup j.todo
          /\ j.file # None => j.floor \cap In(j.file) \subseteq j.got
    /\ j.op = "import" =>
          /\ j.written => j.floor \subseteq stored
          /\ \A c \in j.done : summary[c] # {}
    /\ j.op = "embed" => \A e \in j.floor : vec[e] # None \/ e \in j.todo
    /\ j.op = "compress" /\ ~Brief(w) =>
          \A c \in ConvsOf(j.floor) : summary[c] # {} \/ c \in j.todo

ReturnsInv == \A w \in Worker : Owes(w)

(***************************************************************************)
(* An operation that does not move keeps what it owes, because messages,   *)
(* vectors and summaries are only added.                                   *)
(***************************************************************************)
LEMMA OwesNoMore ==
    ASSUME TypeOK, NEW w \in Worker, Owes(w), job'[w] = job[w], ops' = ops,
           stored \subseteq stored',
           \A e \in Entry : vec[e] # None => vec'[e] # None,
           \A c \in Conv : summary[c] # {} => summary'[c] # {}
    PROVE  Owes(w)'
<1>1. /\ job[w].op = "import" => job[w].done \subseteq Conv
      /\ job[w].op = "embed" => job[w].floor \subseteq Entry
      /\ job[w].op = "compress" => ConvsOf(job[w].floor) \subseteq Conv
  <2>1. job[w] \in Jobs
    BY DEF TypeOK, Jobs
  <2> QED
    BY <2>1, JobKinds, ProjectAssumption
    DEF ProjectAssumption, ImportJob, EmbedJob, CompressJob, ConvsOf
<1> QED
  BY <1>1 DEF Owes, Brief

(***************************************************************************)
(* Every operation keeps that, in particular a sync whose file grows while *)
(* it is parsed and an embedding run that others overtake.                 *)
(***************************************************************************)
LEMMA ReturnsStep ==
    ASSUME TypeOK, ReturnsInv, NEW w \in Worker, Work(w)
    PROVE  ReturnsInv'
<1>0. /\ \A v \in Worker \ {w} : job'[v] = job[v]
      /\ stored \subseteq stored'
      /\ \A e \in Entry : vec[e] # None => vec'[e] # None
      /\ \A c \in Conv : summary[c] # {} => summary'[c] # {}
      /\ ops' = ops
  BY Others
<1>k. /\ job \in [Worker -> Jobs]
      /\ job[w].op = "sync" => job[w] \in SyncJob
      /\ job[w].op = "import" => job[w] \in ImportJob
      /\ job[w].op = "compress" => job[w] \in CompressJob
      /\ job[w].op = "embed" => job[w] \in EmbedJob
      /\ job[w].op = "catalog" => job[w] \in CatalogJob
  BY JobKinds DEF TypeOK, Jobs
<1>s. SUFFICES Owes(w)'
  <2>1. \A v \in Worker \ {w} : Owes(v)'
    BY <1>0, OwesNoMore DEF ReturnsInv
  <2> QED
    BY <2>1 DEF ReturnsInv
<1>w. Owes(w) /\ stored \subseteq Entry /\ ConvOf \in [Entry -> Conv]
  BY ProjectAssumption DEF ReturnsInv, TypeOK, ProjectAssumption
<1>1. CASE SyncBegin(w)
  <2>1. PICK es \in SUBSET Entry \ {{}} :
           job'[w] = [op |-> "sync", floor |-> es, todo |-> ConvsOf(es),
                      file |-> None, got |-> {}, failed |-> {}]
    BY <1>1, <1>k DEF SyncBegin, Begins
  <2> QED
    BY <2>1 DEF Owes, ConvsOf
<1>2. CASE IngestFile(w)
  <2>1. /\ job[w] \in SyncJob /\ job[w].op = "sync" /\ job[w].file # None
        /\ stored' = stored \cup job[w].got
    BY <1>2, <1>k DEF IngestFile
  <2>2. /\ job'[w].op = "sync" /\ job'[w].floor = job[w].floor
        /\ job'[w].failed = job[w].failed /\ job'[w].file = None
        /\ job'[w].todo = job[w].todo \ {job[w].file}
    BY <1>2, <2>1, <1>k DEF IngestFile, SyncJob
  <2>3. ASSUME NEW e \in job[w].floor
        PROVE  e \in stored' \/ ConvOf[e] \in job'[w].failed \cup job'[w].todo
    <3>1. e \in Entry
      BY <2>1 DEF SyncJob
    <3>2. ConvOf[e] = job[w].file => e \in job[w].got
      BY <2>1, <3>1, <1>w DEF Owes, In
    <3> QED
      BY <2>1, <2>2, <3>2, <1>w DEF Owes
  <2> QED
    BY <2>2, <2>3 DEF Owes
<1>3. CASE ImportBegin(w)
  <2>1. PICK ms \in SUBSET Entry, cs \in SUBSET Conv :
           job'[w] = [op |-> "import", floor |-> ms, todo |-> cs,
                      done |-> {}, written |-> FALSE]
    BY <1>3, <1>k DEF ImportBegin, Begins
  <2> QED
    BY <2>1 DEF Owes
<1>4. CASE ImportMessages(w)
  <2>1. /\ job[w] \in ImportJob /\ job[w].op = "import"
        /\ stored' = stored \cup job[w].floor /\ summary' = summary
    BY <1>4, <1>k DEF ImportMessages
  <2>2. /\ job'[w].op = "import" /\ job'[w].floor = job[w].floor
        /\ job'[w].done = job[w].done
    BY <1>4, <2>1, <1>k DEF ImportMessages, ImportJob
  <2> QED
    BY <2>1, <2>2, <1>w DEF Owes
<1>5. CASE CompressBegin(w)
  <2>1. job'[w] = [op |-> "compress", floor |-> stored,
                   todo |-> ConvsOf(stored), solo |-> NoneRuns("compress")]
    BY <1>5, <1>k DEF CompressBegin, Begins
  <2> QED
    BY <2>1 DEF Owes
<1>6. CASE EmbedBegin(w)
  <2>1. PICK b \in Backend :
           job'[w] = [op |-> "embed", floor |-> stored, todo |-> stored,
                      backend |-> b]
    BY <1>6, <1>k DEF EmbedBegin, Begins
  <2> QED
    BY <2>1 DEF Owes
<1>7. CASE RebuildBegin(w) \/ WriteCatalog(w)
  <2>1. job'[w].op = "catalog"
    BY <1>7, <1>k DEF RebuildBegin, WriteCatalog, Begins, CatalogJob
  <2> QED
    BY <2>1 DEF Owes
<1>8. CASE End(w)
  BY <1>8, <1>k DEF End, Idle, Owes
<1>9. CASE \E c \in Conv : Parse(w, c)
  <2>0. PICK c \in Conv : Parse(w, c)
    BY <1>9
  <2>1. /\ job[w] \in SyncJob /\ job[w].op = "sync" /\ stored' = stored
    BY <2>0, <1>k DEF Parse
  <2>2. PICK es \in SUBSET In(c) :
           /\ job[w].floor \cap In(c) \subseteq es
           /\ job' = [job EXCEPT ![w].file = c, ![w].got = es]
    BY <2>0 DEF Parse
  <2>3. /\ job'[w].op = "sync" /\ job'[w].floor = job[w].floor
        /\ job'[w].failed = job[w].failed /\ job'[w].todo = job[w].todo
        /\ job'[w].file = c /\ job'[w].got = es
    BY <2>1, <2>2, <1>k DEF SyncJob
  <2> QED
    BY <2>1, <2>2, <2>3, <1>w DEF Owes
<1>10. CASE \E c \in Conv : FileFails(w, c)
  <2>0. PICK c \in Conv : FileFails(w, c)
    BY <1>10
  <2>1. /\ job[w] \in SyncJob /\ job[w].op = "sync" /\ stored' = stored
    BY <2>0, <1>k DEF FileFails
  <2>2. /\ job'[w].op = "sync" /\ job'[w].floor = job[w].floor
        /\ job'[w].failed = job[w].failed \cup {c} /\ job'[w].file = None
        /\ job'[w].todo = job[w].todo \ {c}
    BY <2>0, <2>1, <1>k DEF FileFails, SyncJob
  <2> QED
    BY <2>1, <2>2, <1>w DEF Owes
<1>11. CASE \E c \in Conv : ImportSummary(w, c)
  <2>0. PICK c \in Conv : ImportSummary(w, c)
    BY <1>11
  <2>1. /\ job[w] \in ImportJob /\ job[w].op = "import" /\ stored' = stored
        /\ summary' = [summary EXCEPT ![c] = {{}}]
    BY <2>0, <1>k DEF ImportSummary, Upsert
  <2>2. /\ job'[w].op = "import" /\ job'[w].floor = job[w].floor
        /\ job'[w].written = job[w].written
        /\ job'[w].done = job[w].done \cup {c}
    BY <2>0, <2>1, <1>k DEF ImportSummary, ImportJob
  <2>3. \A d \in Conv : d \in job'[w].done => summary'[d] # {}
    <3>1. summary'[c] = {{}}
      BY <2>1 DEF TypeOK
    <3> QED
      BY <2>1, <2>2, <3>1, <1>0, <1>w DEF Owes
  <2>4. job'[w].done \subseteq Conv
    BY <2>1, <2>2 DEF ImportJob
  <2> QED
    BY <2>1, <2>2, <2>3, <2>4, <1>w DEF Owes
<1>12. CASE \E c \in Conv : SummaryFails(w, c)
  <2>0. PICK c \in Conv : SummaryFails(w, c)
    BY <1>12
  <2>1. /\ job[w] \in ImportJob /\ job[w].op = "import"
        /\ UNCHANGED <<stored, summary>>
    BY <2>0, <1>k DEF SummaryFails
  <2>2. /\ job'[w].op = "import" /\ job'[w].floor = job[w].floor
        /\ job'[w].written = job[w].written /\ job'[w].done = job[w].done
    BY <2>0, <2>1, <1>k DEF SummaryFails, ImportJob
  <2> QED
    BY <2>1, <2>2, <1>w DEF Owes
<1>13. CASE \E c \in Conv : Compress(w, c)
  <2>0. PICK c \in Conv : Compress(w, c)
    BY <1>13
  <2>1. /\ job[w] \in CompressJob /\ job[w].op = "compress"
        /\ \/ Brief(w)
           \/ summary' = [summary EXCEPT ![c] = {job[w].floor \cap In(c)}]
    BY <2>0, <1>k DEF Compress, Upsert
  <2>2. /\ job'[w].op = "compress" /\ job'[w].floor = job[w].floor
        /\ job'[w].todo = job[w].todo \ {c}
    BY <2>0, <2>1, <1>k DEF Compress, CompressJob
  <2>3. (Brief(w) <=> Brief(w)') /\ (~Brief(w) => summary'[c] # {})
    <3>1. ops' = ops
      BY <1>0
    <3>2. summary \in [Conv -> SUBSET SUBSET Entry]
      BY DEF TypeOK
    <3> QED
      BY <2>1, <3>1, <3>2 DEF Brief
  <2>4. ConvsOf(job[w].floor) \subseteq Conv
    BY <2>1, <1>w DEF CompressJob, ConvsOf
  <2> QED
    BY <2>1, <2>2, <2>3, <2>4, <1>0, <1>w DEF Owes
<1>14. CASE \E c \in Conv : ReadStats(w, c)
  <2>0. PICK c \in Conv : ReadStats(w, c)
    BY <1>14
  <2>1. job[w] \in CatalogJob
    BY <2>0, <1>k DEF ReadStats
  <2>2. job'[w].op = "catalog"
    BY <2>0, <2>1, <1>k DEF ReadStats, CatalogJob
  <2> QED
    BY <2>2 DEF Owes
<1>15. CASE \E e \in Entry : SaveEmbedding(w, e)
  <2>0. PICK e \in Entry : SaveEmbedding(w, e)
    BY <1>15
  <2>1. /\ job[w] \in EmbedJob /\ job[w].op = "embed"
        /\ vec' = [vec EXCEPT ![e] = job[w].backend]
    BY <2>0, <1>k DEF SaveEmbedding
  <2>2. /\ job'[w].op = "embed" /\ job'[w].floor = job[w].floor
        /\ job'[w].todo = job[w].todo \ {e}
    BY <2>0, <2>1, <1>k DEF SaveEmbedding, EmbedJob
  <2>3. vec'[e] # None /\ job[w].floor \subseteq Entry
    BY <2>1, ProjectAssumption DEF TypeOK, EmbedJob, ProjectAssumption
  <2> QED
    BY <2>1, <2>2, <2>3, <1>0, <1>w DEF Owes
<1> QED
  BY <1>1, <1>2, <1>3, <1>4, <1>5, <1>6, <1>7, <1>8, <1>9, <1>10, <1>11,
     <1>12, <1>13, <1>14, <1>15 DEF Work

LEMMA ReturnsBegins == Init => ReturnsInv
BY DEF Init, ReturnsInv, Owes, Idle

LEMMA ReturnsFollows ==
    ASSUME ReturnsInv
    PROVE  ReturnsWhole
BY DEF ReturnsInv, ReturnsWhole, Returned, Owes

(***************************************************************************)
(* Whatever other workers do, an operation that returns has dealt with     *)
(* what was there when it began (sync_directory_report,                    *)
(* import_bundle_with_report, embed_project, compress_project).            *)
(***************************************************************************)
THEOREM ReturnsWholeHolds == Spec => []ReturnsWhole
<1>1. Init => ReturnsInv
  BY ReturnsBegins
<1>2. ASSUME TypeOK, ReturnsInv, [Next]_vars
      PROVE  ReturnsInv'
  <2>1. CASE UNCHANGED vars
    BY <1>2, <2>1 DEF vars, ReturnsInv, Owes, Brief
  <2> QED
    BY <1>2, <2>1, ReturnsStep DEF Next
<1> QED
  BY <1>1, <1>2, ReturnsFollows, TypeCorrect, PTL DEF Spec

(***************************************************************************)
(* All of it, for the modules that put other parts beside these            *)
(* operations: those parts leave the jobs, the summaries and the catalog   *)
(* alone and only add messages and vectors.                                *)
(***************************************************************************)
ProjectInv == TypeOK /\ SummaryInv /\ CatalogInv /\ ReturnsInv

LEMMA ProjectBegins == Init => ProjectInv
BY TypeBegins, SummaryBegins, CatalogBegins, ReturnsBegins DEF ProjectInv

LEMMA ProjectStep ==
    ASSUME ProjectInv, Next
    PROVE  ProjectInv'
<1>1. PICK w \in Worker : Work(w)
  BY DEF Next
<1>2. TypeOK /\ SummaryInv /\ CatalogInv /\ ReturnsInv
  BY DEF ProjectInv
<1>3. TypeOK'
  BY <1>1, <1>2, TypeStep
<1> QED
  BY <1>1, <1>2, <1>3, SummaryStep, CatalogStep, ReturnsStep DEF ProjectInv

LEMMA ProjectGrows ==
    ASSUME ProjectInv, UNCHANGED <<ops, summary, catalog, job, covered, listed>>,
           stored \subseteq stored', stored' \subseteq Entry,
           vec' \in [Entry -> Backend \cup {None}],
           \A e \in Entry : vec[e] # None => vec'[e] # None
    PROVE  ProjectInv'
<1>1. TypeOK /\ SummaryInv /\ CatalogInv /\ ReturnsInv
  BY DEF ProjectInv
<1>2. TypeOK'
  BY <1>1 DEF TypeOK
<1>3. SummaryInv'
  BY <1>1 DEF SummaryInv, CompressOK, Compressing, SummaryKeeps
<1>4. ReturnsInv'
  BY <1>1, OwesNoMore DEF ReturnsInv
<1>5. CatalogInv'
  <2>1. \A c \in Conv : /\ CountIn(c) \in Nat /\ CountIn(c)' \in Nat
                        /\ CountIn(c) <= CountIn(c)'
    BY <1>1, <1>2, CountGrows
  <2>2. CatalogKeeps'
    BY <1>1, <2>1 DEF TypeOK, CatalogInv, CatalogKeeps
  <2>3. ASSUME NEW w \in Worker, Rebuilding(w)
        PROVE  CatalogOK(w)' /\ StatsOK(w)'
    <3>1. CatalogOK(w) /\ StatsOK(w) /\ job[w] \in CatalogJob
      BY <1>1, <2>3, JobKinds
      DEF CatalogInv, CatalogOK, Rebuilding, TypeOK, Jobs
    <3>2. StatsOK(w)'
      <4> SUFFICES ASSUME job[w].first # None PROVE StatsOK(w)'
        BY DEF StatsOK
      <4>1. /\ job[w].first \in Conv /\ job[w].count \in Nat
            /\ job[w].count <= CountIn(job[w].first)
        BY <3>1 DEF StatsOK, CatalogJob, CountIn
      <4>2. job[w].count <= CountIn(job[w].first)'
        BY <4>1, <2>1
      <4> QED
        BY <3>1, <4>2 DEF StatsOK, CountIn
    <3> QED
      BY <2>3, <3>1, <3>2 DEF CatalogOK, Rebuilding
  <2> QED
    BY <1>1, <2>2, <2>3 DEF CatalogInv, CatalogOK, Rebuilding
<1> QED
  BY <1>2, <1>3, <1>4, <1>5 DEF ProjectInv
=============================================================================
