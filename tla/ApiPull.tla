------------------------------- MODULE ApiPull -------------------------------
(***************************************************************************)
(* `pull api` (api_pull.py): processes that download the pages of an HTTP  *)
(* server and store their entries, next to the server, which publishes new *)
(* pages.  A pull remembers the validators of its response (ETag and       *)
(* Last-Modified) in api_pull_state, and the next pull sends them, so that *)
(* the server may answer that nothing changed.                             *)
(*                                                                         *)
(* The entries and the validators are written in two transactions, in that *)
(* order; between any two steps the process may end.                       *)
(*                                                                         *)
(* Data abstraction.  Project and format are fixed.  The URLs differ in    *)
(* their query only, which the key of api_pull_state leaves out, so they   *)
(* share one row of it.  An ETag is the page it came with, and a           *)
(* Last-Modified date the moment that page was published.  An entry stands *)
(* for its source_key.                                                     *)
(***************************************************************************)
EXTENDS Integers

CONSTANTS
    Puller,     \* processes running `pull api`
    Url,        \* URLs that differ in their query
    Provider,   \* values of --provider
    Entry,      \* entries of a page
    Validator,  \* what the server sends and honours
    Lines,      \* TRUE: the format is jsonl, of which a part still parses
    MaxNow,     \* bound on the publications, for model checking
    None        \* no validators yet

ASSUME ApiPullAssumption ==
    /\ Validator \subseteq {"etag", "date"}
    /\ Lines \in BOOLEAN
    /\ MaxNow \in Nat

VARIABLES
    page,   \* the server: the page at each URL
    now,    \* the server: its clock
    state,  \* api_pull_state: the page whose validators were saved
    rows,   \* memory_messages: entries, under the provider they came as
    pc,     \* per puller: the next step of pull_api
    job,    \* per puller: what it was asked to pull
    prior,  \* per puller: the validators it sends
    got     \* per puller: the page it was answered from, and what arrived of it

vars == <<page, now, state, rows, pc, job, prior, got>>

-----------------------------------------------------------------------------
Page == [url : Url, at : 0..MaxNow, entries : SUBSET Entry]
State == [of : Page, provider : Provider]
Job == [url : Url, provider : Provider, dry : BOOLEAN]
Got == [of : Page, entries : SUBSET Entry]

TypeOK ==
    /\ page \in [Url -> Page]
    /\ now \in 0..MaxNow
    /\ state \in State \cup {None}
    /\ rows \subseteq Provider \X Entry
    /\ pc \in [Puller -> {"idle", "request", "insert", "save", "unmodified"}]
    /\ job \in [Puller -> Job \cup {None}]
    /\ prior \in [Puller -> State \cup {None}]
    /\ got \in [Puller -> Got \cup {None}]
    /\ \A p \in Puller :
        /\ pc[p] # "idle" => job[p] \in Job
        /\ pc[p] \in {"insert", "save", "unmodified"} => got[p] \in Got
        /\ pc[p] = "unmodified" => prior[p] \in State

Init ==
    /\ \E first \in [Url -> SUBSET Entry] :
          page = [u \in Url |-> [url |-> u, at |-> 0, entries |-> first[u]]]
    /\ now = 0
    /\ state = None
    /\ rows = {}
    /\ pc = [p \in Puller |-> "idle"]
    /\ job = [p \in Puller |-> None]
    /\ prior = [p \in Puller |-> None]
    /\ got = [p \in Puller |-> None]

server == <<page, now>>
store == <<state, rows>>

At(p, step) == pc[p] = step
Goto(p, step) == pc' = [pc EXCEPT ![p] = step]

\* The command ends, and its local variables with it.
End(p) ==
    /\ Goto(p, "idle")
    /\ job' = [job EXCEPT ![p] = None]
    /\ prior' = [prior EXCEPT ![p] = None]
    /\ got' = [got EXCEPT ![p] = None]

Publish(u, entries) ==
    /\ now < MaxNow
    /\ now' = now + 1
    /\ page' = [page EXCEPT ![u] = [url |-> u, at |-> now + 1, entries |-> entries]]
    /\ UNCHANGED <<store, pc, job, prior, got>>

-----------------------------------------------------------------------------
\* _load_state, on a connection of its own.
LoadState(p, j) ==
    /\ At(p, "idle")
    /\ job' = [job EXCEPT ![p] = j]
    /\ prior' = [prior EXCEPT ![p] = state]
    /\ Goto(p, "request")
    /\ UNCHANGED <<server, store, got>>

\* The server looks at If-None-Match first, and at If-Modified-Since without it.
NotModified(sent, u) ==
    /\ sent # None
    /\ \/ "etag" \in Validator /\ sent.of = page[u]
       \/ "etag" \notin Validator /\ "date" \in Validator /\ page[u].at <= sent.of.at

ArrivesInPart(p) == SUBSET page[job[p].url].entries

\* A connection may break in the middle of a body.  _download_to_tempfile takes
\* what came for the whole, and only the parser of a JSON body notices.
Arrives(p) ==
    IF Lines THEN SUBSET page[job[p].url].entries ELSE {page[job[p].url].entries}

Answer200(p, entries) ==
    /\ At(p, "request")
    /\ ~NotModified(prior[p], job[p].url)
    /\ entries \in Arrives(p)
    /\ got' = [got EXCEPT ![p] = [of |-> page[job[p].url], entries |-> entries]]
    /\ Goto(p, "insert")
    /\ UNCHANGED <<server, store, job, prior>>

Answer304(p) ==
    /\ At(p, "request")
    /\ NotModified(prior[p], job[p].url)
    /\ got' = [got EXCEPT ![p] = [of |-> page[job[p].url], entries |-> {}]]
    /\ Goto(p, "unmodified")
    /\ UNCHANGED <<server, store, job, prior>>

Stored(p) == {<<job[p].provider, e>> : e \in got[p].entries}

\* insert_messages ignores what is there already.
Insert(p) ==
    /\ At(p, "insert")
    /\ ~job[p].dry
    /\ rows' = rows \cup Stored(p)
    /\ Goto(p, "save")
    /\ UNCHANGED <<server, state, job, prior, got>>

SaveState(p) ==
    /\ At(p, "save")
    /\ state' = [of |-> got[p].of, provider |-> job[p].provider]
    /\ End(p)
    /\ UNCHANGED <<server, rows>>

\* After a 304 the validators are those of its headers, or the ones sent.
SaveUnmodified(p) ==
    /\ At(p, "unmodified")
    /\ ~job[p].dry
    /\ \E of \in {got[p].of, prior[p].of} :
          state' = [of |-> of, provider |-> job[p].provider]
    /\ End(p)
    /\ UNCHANGED <<server, rows>>

\* --dry-run writes nothing.
EndDry(p) ==
    /\ pc[p] \in {"insert", "unmodified"}
    /\ job[p].dry
    /\ End(p)
    /\ UNCHANGED <<server, store>>

\* A redirect, an error status or an exception ends the command; so does a kill.
Fail(p) ==
    /\ ~At(p, "idle")
    /\ End(p)
    /\ UNCHANGED <<server, store>>

PullStep(p) ==
    \/ \E j \in Job : LoadState(p, j)
    \/ \E entries \in SUBSET Entry : Answer200(p, entries)
    \/ Answer304(p)
    \/ Insert(p)
    \/ SaveState(p)
    \/ SaveUnmodified(p)
    \/ EndDry(p)
    \/ Fail(p)

Next ==
    \/ \E u \in Url, entries \in SUBSET Entry : Publish(u, entries)
    \/ \E p \in Puller : PullStep(p)

Spec == Init /\ [][Next]_vars

-----------------------------------------------------------------------------
Has(provider, entries) == \A e \in entries : <<provider, e>> \in rows

\* The validators in api_pull_state never run ahead of memory_messages: every
\* entry of the page they stand for is stored, whatever pulls overlapped or
\* ended early.
SavedIsStored == state # None => Has(state.provider, state.of.entries)

\* A pull that is about to report success has every entry of the page that the
\* server had when it answered, be the answer the page or "not modified".
NothingMissed ==
    \A p \in Puller :
        pc[p] \in {"save", "unmodified"} => Has(job[p].provider, got[p].of.entries)
=============================================================================
