----------------------------- MODULE CryptoCache -----------------------------
(***************************************************************************)
(* The encryption context that MemoryStore (storage.py) caches in three    *)
(* attributes, shared by the request threads of the HTTP service           *)
(* (service_api.py) over a database that is encrypted under one key, with  *)
(* a keyed term index.                                                     *)
(*                                                                         *)
(* /ingest calls insert_messages, which asks for the context three times;  *)
(* /query maps its terms through it; /mesh/search calls MemoryMesh.init(), *)
(* which clears the cache and resolves it again, before it does the same.  *)
(*                                                                         *)
(* Granularity.  CPython switches threads at calls, and while one waits    *)
(* for the database or a key file.  Attribute accesses with no call        *)
(* between them are one step.                                              *)
(***************************************************************************)
CONSTANTS
    Thread,   \* request threads of the service
    Key,      \* the context of the database's master key
    None      \* no context

ASSUME CryptoCacheAssumption == None # Key

VARIABLES
    enabled,   \* _crypto_enabled: "unknown" (None) or "on" (True)
    ctx,       \* _crypto_ctx
    terms,     \* _terms_mode
    thread,    \* per request thread: its place and local variables
    rows,      \* the kinds of rows in memory_messages
    searched   \* history: a /mesh/search has called init()

vars == <<enabled, ctx, terms, thread, rows, searched>>

-----------------------------------------------------------------------------
\* Between requests; in encryption_context() before the cache is looked at,
\* or with the key it will publish; in _term_mapper() after that call; about
\* to commit the row; about to select the candidates of a query.
Pc == {"idle", "lookup", "publish", "mode", "write", "query"}

\* Who called encryption_context(): init(), insert_messages,
\* _term_mapper() for insert_messages, _encrypt_message_fields(), or
\* _term_mapper() for map_query_terms().
Site == {"init", "insert", "mapper", "seal", "map_query"}

Context == {Key, None}
TermsMode == {"plaintext", "keyed"}

\* ctx: the local of insert_messages; found: what encryption_context() last
\* returned; mapper: keyed, or the identity.
Local == [pc : Pc, site : Site, ctx : Context, found : Context, mapper : TermsMode]

TypeOK ==
    /\ enabled \in {"unknown", "on"}
    /\ ctx \in Context
    /\ terms \in TermsMode
    /\ thread \in [Thread -> Local]
    /\ rows \subseteq [content : Context, index : TermsMode]
    /\ searched \in BOOLEAN

\* The store as its constructor leaves it.
Init ==
    /\ enabled = "unknown"
    /\ ctx = None
    /\ terms = "plaintext"
    /\ thread = [t \in Thread |-> [pc |-> "idle", site |-> "init", ctx |-> None,
                                   found |-> None, mapper |-> "plaintext"]]
    /\ rows = {}
    /\ searched = FALSE

At(t, pc) == thread[t].pc = pc

Move(t, pc) == thread' = [thread EXCEPT ![t].pc = pc]

\* t calls encryption_context() from a site.
Call(t, site) == thread' = [thread EXCEPT ![t].pc = "lookup", ![t].site = site]

-----------------------------------------------------------------------------
Request(t, site) ==
    /\ At(t, "idle")
    /\ Call(t, site)
    /\ UNCHANGED rows

Ingest(t) ==
    /\ Request(t, "insert")
    /\ UNCHANGED <<enabled, ctx, terms, searched>>

Query(t) ==
    /\ Request(t, "map_query")
    /\ UNCHANGED <<enabled, ctx, terms, searched>>

MeshSearchKeepsFlag(t) ==
    /\ Request(t, "init")
    /\ searched' = TRUE
    /\ ctx' = None
    /\ terms' = "plaintext"
    /\ UNCHANGED enabled

\* init(): _invalidate_crypto_cache(), then encryption_context().
MeshSearch(t) ==
    /\ Request(t, "init")
    /\ searched' = TRUE
    /\ enabled' = "unknown"
    /\ ctx' = None
    /\ terms' = "plaintext"

\* Where a caller of encryption_context() next depends on the shared
\* attributes: init() is followed by map_query_terms(), insert_messages by its
\* mapper, a mapper by a look at _terms_mode, and sealing by the commit.
PcAfter(site) ==
    IF site = "seal" THEN "write"
    ELSE IF site \in {"mapper", "map_query"} THEN "mode" ELSE "lookup"

SiteAfter(site) ==
    IF site = "init" THEN "map_query"
    ELSE IF site = "insert" THEN "mapper" ELSE site

\* encryption_context() returns v.
Return(t, v) ==
    thread' = [thread EXCEPT ![t] =
        [pc     |-> PcAfter(thread[t].site),
         site   |-> SiteAfter(thread[t].site),
         ctx    |-> IF thread[t].site = "insert" THEN v ELSE thread[t].ctx,
         found  |-> v,
         mapper |-> thread[t].mapper]]

\* A filled cache is used as it is.
UseCache(t) ==
    /\ At(t, "lookup")
    /\ enabled = "on"
    /\ Return(t, ctx)
    /\ UNCHANGED <<enabled, ctx, terms, rows, searched>>

ReadMetaKeepsTerms(t) ==
    /\ At(t, "lookup")
    /\ enabled = "unknown"
    /\ Move(t, "publish")
    /\ UNCHANGED <<enabled, ctx, terms, rows, searched>>

\* An empty one is filled from encryption_meta: terms_mode first, the context
\* when the key is loaded and checked.
ReadMeta(t) ==
    /\ At(t, "lookup")
    /\ enabled = "unknown"
    /\ terms' = "keyed"
    /\ Move(t, "publish")
    /\ UNCHANGED <<enabled, ctx, rows, searched>>

Publish(t) ==
    /\ At(t, "publish")
    /\ ctx' = Key
    /\ enabled' = "on"
    /\ Return(t, Key)
    /\ UNCHANGED <<terms, rows, searched>>

\* _term_mapper() has its context and looks at _terms_mode.  insert_messages
\* goes on with the row: it is sealed when its own context says so.
ReadTermsMode(t) ==
    /\ At(t, "mode")
    /\ thread' = [thread EXCEPT ![t] =
            [pc     |-> IF thread[t].site = "map_query" THEN "query"
                        ELSE IF thread[t].ctx = None THEN "write" ELSE "lookup",
             site   |-> IF thread[t].site = "mapper" /\ thread[t].ctx # None
                        THEN "seal" ELSE thread[t].site,
             ctx    |-> thread[t].ctx,
             found  |-> thread[t].found,
             mapper |-> IF thread[t].found = None THEN "plaintext" ELSE terms]]
    /\ UNCHANGED <<enabled, ctx, terms, rows, searched>>

\* The row and its index terms are committed.
CommitRow(t) ==
    /\ At(t, "write")
    /\ rows' = rows \cup
            {[content |-> IF thread[t].site = "seal" THEN thread[t].found ELSE None,
              index |-> thread[t].mapper]}
    /\ Move(t, "idle")
    /\ UNCHANGED <<enabled, ctx, terms, searched>>

RunQuery(t) ==
    /\ At(t, "query")
    /\ Move(t, "idle")
    /\ UNCHANGED <<enabled, ctx, terms, rows, searched>>

\* An exception ends the request: no key, or an SQLite error.
Fail(t) ==
    /\ ~At(t, "idle")
    /\ Move(t, "idle")
    /\ UNCHANGED <<enabled, ctx, terms, rows, searched>>

ThreadStep(t) ==
    \/ Ingest(t)
    \/ Query(t)
    \/ MeshSearch(t)
    \/ UseCache(t)
    \/ ReadMeta(t)
    \/ Publish(t)
    \/ ReadTermsMode(t)
    \/ CommitRow(t)
    \/ RunQuery(t)
    \/ Fail(t)

Next == \E t \in Thread : ThreadStep(t)

Spec == Init /\ [][Next]_vars

-----------------------------------------------------------------------------
\* However the requests interleave, no message of the encrypted database is
\* written in plaintext: the flag is never seen set without the context.
ContentSealed == \A row \in rows : row.content = Key

\* As long as no request has called init(), every message is indexed under
\* keyed terms and every query asks for keyed terms, so queries find what was
\* indexed and no plaintext word is stored.  After it neither holds: init()
\* takes terms_mode back while other requests are about to read it.
TermsKeyed ==
    ~searched =>
        /\ \A row \in rows : row.index = "keyed"
        /\ \A t \in Thread : At(t, "query") => thread[t].mapper = "keyed"
=============================================================================
