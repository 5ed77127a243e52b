----------------------------- MODULE MeshSearch -----------------------------
(***************************************************************************)
(* Searching a project (query_with_report and mesh_search of               *)
(* sync_service.py, Memory.query) while it is being filled.  A search      *)
(* counts the embeddings in its scope, chooses between scoring all of them *)
(* and scoring the candidates of the term index, selects the candidates    *)
(* and reads their vectors: three transactions, between which the workers  *)
(* of ProjectMesh go on.  Scores are left out: of the rows it reads, a     *)
(* search scores those whose vector comes from its own backend and reports *)
(* the others as skipped.                                                  *)
(***************************************************************************)
EXTENDS ProjectMesh

CONSTANTS
    Scopes,     \* the filters of the searches: see InScope
    Provided,   \* messages by the provider that is asked for
    Spoken,     \* messages in the role that is asked for
    Owned,      \* messages of the Memory facade
    Queries,    \* for each query, the messages that share a term with it
    Threshold,  \* retrieval_exact_threshold
    Limit       \* retrieval_candidate_limit

ASSUME SearchAssumption ==
    /\ Scopes \subseteq {"project", "provider", "role", "mesh role", "facade"}
    /\ Provided \cup Spoken \cup Owned \subseteq Entry
    /\ Queries \subseteq SUBSET Entry
    /\ Threshold \in Nat /\ Limit \in Nat \ {0}

VARIABLE ask    \* what each worker is searching

searchVars == <<vars, ask>>

NotAsking == [at |-> "idle"]

Ask == [at : {"counted", "selected"}, scope : Scopes,
        strategy : {"exact", "indexed", "auto"}, backend : Backend,
        matching : Queries, floor : SUBSET Entry,
        used : {"exact", "indexed"}, candidates : SUBSET Entry]

Answer == [at : {"answered"}, matching : Queries, floor : SUBSET Entry,
           used : {"exact", "indexed"},
           scored : SUBSET Entry, skipped : SUBSET Entry]

InScope(s) == CASE s = "project" -> Entry
                [] s = "provider" -> Provided
                [] s = "role" -> Spoken
                [] s = "mesh role" -> Spoken
                [] s = "facade" -> Owned

Embedded == {e \in Entry : vec[e] # None}

SearchInit == Init /\ ask = [w \in Worker |-> NotAsking]

(***************************************************************************)
(* The count of the embeddings in scope decides what "auto" does.          *)
(***************************************************************************)
Used(st, eligible) ==
    IF st = "auto"
    THEN IF Cardinality(eligible) <= Threshold THEN "exact" ELSE "indexed"
    ELSE st

CountUnresolved(w) ==
    /\ "search" \in ops[w] /\ ask[w] = NotAsking
    /\ \E s \in Scopes, st \in {"exact", "indexed", "auto"},
          b \in Backend, q \in Queries :
          LET eligible == Embedded \cap InScope(s) IN
          ask' = [ask EXCEPT ![w] =
              [at |-> "counted", scope |-> s, strategy |-> st, backend |-> b,
               matching |-> q, floor |-> eligible,
               used |-> st, candidates |-> {}]]
    /\ UNCHANGED vars

Count(w) ==
    /\ "search" \in ops[w] /\ ask[w] = NotAsking
    /\ \E s \in Scopes, st \in {"exact", "indexed", "auto"},
          b \in Backend, q \in Queries :
          LET eligible == Embedded \cap InScope(s) IN
          ask' = [ask EXCEPT ![w] =
              [at |-> "counted", scope |-> s, strategy |-> st, backend |-> b,
               matching |-> q, floor |-> eligible,
               used |-> Used(st, eligible), candidates |-> {}]]
    /\ UNCHANGED vars

(***************************************************************************)
(* The candidates are embedded messages in scope that share a term with    *)
(* the query, up to the limit.  Without any, an indexed search ends, and   *)
(* "auto" falls back to the exact search.                                  *)
(***************************************************************************)
MatchesUnjoined(a) == stored \cap a.matching \cap InScope(a.scope)

Matches(a) == stored \cap a.matching \cap Embedded \cap InScope(a.scope)

\* What a search reports: the rows it scored and those it skipped.
Answered(a, scored, skipped) ==
    [at |-> "answered", matching |-> a.matching, floor |-> a.floor,
     used |-> a.used, scored |-> scored, skipped |-> skipped]

Least(m, n) == IF m <= n THEN m ELSE n

Select(w) ==
    LET a == ask[w] IN
    /\ a.at = "counted" /\ a.used = "indexed"
    /\ Matches(a) # {}
    /\ \E cs \in SUBSET Matches(a) :
          /\ Cardinality(cs) = Least(Limit, Cardinality(Matches(a)))
          /\ ask' = [ask EXCEPT ![w].at = "selected", ![w].candidates = cs]
    /\ UNCHANGED vars

NoCandidates(w) ==
    LET a == ask[w] IN
    /\ a.at = "counted" /\ a.used = "indexed"
    /\ Matches(a) = {}
    /\ ask' = IF a.strategy = "indexed"
              THEN [ask EXCEPT ![w] = Answered(a, {}, {})]
              ELSE [ask EXCEPT ![w].used = "exact"]
    /\ UNCHANGED vars

(***************************************************************************)
(* The rows that are read and ranked.  The exact search of one project     *)
(* filters by role on rows that were read without their role, and finds    *)
(* none (mesh_search).                                                     *)
(***************************************************************************)
ExactRows(s) == IF s = "role" THEN {} ELSE Embedded \cap InScope(s)

RowsRead(a) == IF a.used = "exact" THEN ExactRows(a.scope)
               ELSE a.candidates \cap Embedded

Compatible(a, rows) == {e \in rows : vec[e] = a.backend}

Fetch(w) ==
    LET a == ask[w]
        rows == RowsRead(a)
        fit == Compatible(a, rows)
    IN
    /\ \/ a.at = "counted" /\ a.used = "exact"
       \/ a.at = "selected"
    /\ ask' = [ask EXCEPT ![w] = Answered(a, fit, rows \ fit)]
    /\ UNCHANGED vars

EndSearch(w) ==
    /\ ask[w] # NotAsking
    /\ ask' = [ask EXCEPT ![w] = NotAsking]
    /\ UNCHANGED vars

Search(w) == Count(w) \/ Select(w) \/ NoCandidates(w) \/ Fetch(w)
             \/ EndSearch(w)

SearchNext == \/ Next /\ UNCHANGED ask
              \/ \E w \in Worker : Search(w)

SearchSpec == SearchInit /\ [][SearchNext]_searchVars

(***************************************************************************)
(* Types.                                                                  *)
(***************************************************************************)
SearchTypeOK == TypeOK /\ ask \in [Worker -> {NotAsking} \cup Ask \cup Answer]

(***************************************************************************)
(* Nothing that could be found when a search began is lost between its     *)
(* transactions: an exact search looks at every embedding in scope, and an *)
(* indexed search at every one that shares a term with the query, or at as *)
(* many as the limit allows (README.md:113, select_candidate_message_ids). *)
(***************************************************************************)
FullRecall ==
    \A w \in Worker : LET a == ask[w] IN a.at = "answered" =>
        LET seen == a.scored \cup a.skipped IN
        /\ a.used = "exact" => a.floor \subseteq seen
        /\ a.used = "indexed" => \/ a.floor \cap a.matching \subseteq seen
                                 \/ Cardinality(seen) = Limit
=============================================================================
