---------------------------- MODULE ApiPullProofs ----------------------------
(***************************************************************************)
(* Proofs about ApiPull for any number of pulls, pages and entries, and    *)
(* for as long as the pulls run.                                           *)
(*                                                                         *)
(* Types hold of every instance.  The two safety properties need what the  *)
(* assumption Whole says, and the runs without it violate them: a body is  *)
(* parsed whole or not at all, one provider, and a server whose validators *)
(* tell the pages of different queries apart.                              *)
(*                                                                         *)
(* The argument: every page whose validators anyone holds, be it in        *)
(* api_pull_state or in the memory of a pull, has all its entries stored,  *)
(* since the entries are written first and never deleted; and a server     *)
(* that answers 304 to such validators has that very page.                 *)
(***************************************************************************)
EXTENDS ApiPull, TLAPS

Whole ==
    /\ ~Lines
    /\ \A a, b \in Provider : a = b
    /\ "etag" \in Validator \/ \A u, w \in Url : u = w

\* A page that was there at some time: of the pages of one URL with one date
\* the server has had only one.
Published(pg) ==
    /\ pg.at <= page[pg.url].at
    /\ pg.at = page[pg.url].at => pg = page[pg.url]

ServerOK == \A u \in Url : page[u].url = u /\ page[u].at <= now

\* What anyone remembers of an earlier pull.
Known(s) == s # None => Published(s.of) /\ Has(s.provider, s.of.entries)

PullerOK(p) ==
    /\ pc[p] # "idle" => Known(prior[p])
    /\ pc[p] = "unmodified" => prior[p] # None
    /\ pc[p] \in {"insert", "save", "unmodified"} => Published(got[p].of)
    /\ pc[p] = "insert" => got[p].entries = got[p].of.entries
    /\ pc[p] \in {"save", "unmodified"} => Has(job[p].provider, got[p].of.entries)

Inv ==
    /\ TypeOK
    /\ ServerOK
    /\ Known(state)
    /\ \A p \in Puller : PullerOK(p)

-----------------------------------------------------------------------------
LEMMA TypeInit == Init => TypeOK
BY ApiPullAssumption DEF Init, TypeOK, Page

LEMMA TypeNext == TypeOK /\ [Next]_vars => TypeOK'
<1> SUFFICES ASSUME TypeOK, [Next]_vars PROVE TypeOK'
  OBVIOUS
<1> USE ApiPullAssumption
<1>1. ASSUME NEW u \in Url, NEW entries \in SUBSET Entry, Publish(u, entries)
      PROVE  TypeOK'
  <2>1. now + 1 \in 0..MaxNow
    BY <1>1 DEF Publish, TypeOK
  <2>2. [url |-> u, at |-> now + 1, entries |-> entries] \in Page
    BY <2>1 DEF Page
  <2> QED
    BY <1>1, <2>1, <2>2 DEF Publish, TypeOK, store
<1>2. ASSUME NEW p \in Puller, NEW j \in Job, LoadState(p, j)
      PROVE  TypeOK'
  BY <1>2 DEF LoadState, TypeOK, At, Goto, server, store
<1>3. ASSUME NEW p \in Puller, NEW entries \in SUBSET Entry, Answer200(p, entries)
      PROVE  TypeOK'
  <2>1. page[job[p].url] \in Page
    BY <1>3 DEF Answer200, At, TypeOK, Job
  <2>2. [of |-> page[job[p].url], entries |-> entries] \in Got
    BY <2>1 DEF Got
  <2> QED
    BY <1>3, <2>2 DEF Answer200, TypeOK, At, Goto, server, store
<1>4. ASSUME NEW p \in Puller, Answer304(p)
      PROVE  TypeOK'
  <2>1. page[job[p].url] \in Page /\ prior[p] \in State
    BY <1>4 DEF Answer304, NotModified, At, TypeOK, Job
  <2>2. [of |-> page[job[p].url], entries |-> {}] \in Got
    BY <2>1 DEF Got
  <2> QED
    BY <1>4, <2>1, <2>2 DEF Answer304, TypeOK, At, Goto, server, store
<1>5. ASSUME NEW p \in Puller, Insert(p)
      PROVE  TypeOK'
  <2>1. Stored(p) \subseteq Provider \X Entry
    BY <1>5 DEF Insert, At, Stored, TypeOK, Job, Got
  <2> QED
    BY <1>5, <2>1 DEF Insert, TypeOK, At, Goto, server
<1>6. ASSUME NEW p \in Puller, SaveState(p)
      PROVE  TypeOK'
  <2>1. [of |-> got[p].of, provider |-> job[p].provider] \in State
    BY <1>6 DEF SaveState, At, TypeOK, Job, State, Got
  <2> QED
    BY <1>6, <2>1 DEF SaveState, TypeOK, At, End, Goto, server
<1>7. ASSUME NEW p \in Puller, SaveUnmodified(p)
      PROVE  TypeOK'
  <2>1. \A of \in {got[p].of, prior[p].of} :
            [of |-> of, provider |-> job[p].provider] \in State
    BY <1>7 DEF SaveUnmodified, At, TypeOK, Job, State, Got
  <2> QED
    BY <1>7, <2>1 DEF SaveUnmodified, TypeOK, At, End, Goto, server
<1>8. ASSUME NEW p \in Puller, EndDry(p) \/ Fail(p)
      PROVE  TypeOK'
  BY <1>8 DEF EndDry, Fail, TypeOK, At, End, Goto, server, store
<1>9. CASE UNCHANGED vars
  BY <1>9 DEF TypeOK, vars
<1> QED
  BY <1>1, <1>2, <1>3, <1>4, <1>5, <1>6, <1>7, <1>8, <1>9 DEF Next, PullStep

\* Pages, validators and pulls are what the database columns and local
\* variables of pull_api can hold.
THEOREM TypeCorrect == Spec => []TypeOK
BY TypeInit, TypeNext, PTL DEF Spec

-----------------------------------------------------------------------------
\* A 304 to validators that someone holds is about the page they came with.
LEMMA UnmodifiedIsSame ==
    ASSUME Whole, TypeOK, NEW p \in Puller, pc[p] # "idle",
           Known(prior[p]), NotModified(prior[p], job[p].url)
    PROVE  /\ prior[p] \in State
           /\ page[job[p].url] = prior[p].of
           /\ Has(job[p].provider, page[job[p].url].entries)
<1>1. job[p] \in Job /\ prior[p] \in State /\ prior[p] # None
  BY DEF TypeOK, NotModified
<1>2. /\ job[p].url \in Url /\ job[p].provider \in Provider
      /\ prior[p].of \in Page /\ prior[p].provider \in Provider
  BY <1>1 DEF Job, State
<1>3. page[job[p].url] = prior[p].of
  <2>1. CASE "etag" \in Validator
    BY <2>1 DEF NotModified
  <2>2. CASE "etag" \notin Validator
    <3>1. prior[p].of.url = job[p].url
      BY <1>2, <2>2 DEF Whole, Page
    <3>2. page[job[p].url].at <= prior[p].of.at
      BY <2>2 DEF NotModified
    <3>3. prior[p].of.at <= page[job[p].url].at
      BY <1>1, <3>1 DEF Known, Published
    <3>4. page[job[p].url].at \in Int /\ prior[p].of.at \in Int
      BY <1>2 DEF TypeOK, Page
    <3>5. prior[p].of.at = page[job[p].url].at
      BY <3>2, <3>3, <3>4
    <3> QED
      BY <1>1, <3>1, <3>5 DEF Known, Published
  <2> QED
    BY <2>1, <2>2
<1>4. job[p].provider = prior[p].provider
  BY <1>2 DEF Whole
<1> QED
  BY <1>1, <1>3, <1>4 DEF Known

\* The page at a URL is one of those that were published.
LEMMA CurrentIsPublished ==
    ASSUME TypeOK, ServerOK, NEW u \in Url
    PROVE  Published(page[u])
<1>1. page[u].url = u /\ page[u].at \in Int
  BY DEF ServerOK, TypeOK, Page
<1> QED
  BY <1>1 DEF Published

\* A publication adds a page with a new date and forgets nothing.
LEMMA StillPublished ==
    ASSUME TypeOK, TypeOK', ServerOK, NEW u \in Url, NEW entries, Publish(u, entries),
           NEW pg \in Page, Published(pg)
    PROVE  Published(pg)'
<1>1. /\ pg.url \in Url /\ pg.at \in Int
      /\ page[pg.url].at \in Int /\ page[u].at \in Int /\ now \in Int
  BY DEF Page, TypeOK
<1>2. CASE pg.url = u
  <2>1. page'[u].at = now + 1
    BY DEF Publish, TypeOK
  <2>2. pg.at <= now
    BY <1>1, <1>2 DEF Published, ServerOK
  <2> QED
    BY <1>1, <1>2, <2>1, <2>2 DEF Published
<1>3. CASE pg.url # u
  BY <1>1, <1>3 DEF Published, Publish, TypeOK
<1> QED
  BY <1>2, <1>3

\* Steps that write no entries and publish nothing keep what is known.
LEMMA KnownStays ==
    ASSUME NEW s, Known(s), UNCHANGED page, rows \subseteq rows'
    PROVE  s # None => Published(s.of)' /\ Has(s.provider, s.of.entries)'
BY DEF Known, Published, Has

LEMMA InvInit == Init => Inv
BY TypeInit DEF Init, Inv, ServerOK, Known, PullerOK

LEMMA InvNext == Whole /\ Inv /\ [Next]_vars => Inv'
<1> SUFFICES ASSUME Whole, Inv, [Next]_vars PROVE Inv'
  OBVIOUS
<1>0. TypeOK /\ TypeOK'
  BY TypeNext DEF Inv
<1>1. ASSUME NEW u \in Url, NEW entries \in SUBSET Entry, Publish(u, entries)
      PROVE  Inv'
  <2>1. ServerOK'
    <3>1. now \in Int /\ \A w \in Url : page[w].at \in Int
      BY <1>0 DEF TypeOK, Page
    <3> QED
      BY <1>0, <1>1, <3>1 DEF Publish, ServerOK, Inv, TypeOK
  <2>2. \A pg \in Page : Published(pg) => Published(pg)'
    BY <1>0, <1>1, StillPublished DEF Inv
  <2>3. UNCHANGED <<state, rows, pc, job, prior, got>>
    BY <1>1 DEF Publish, store
  <2>4. \A s \in State : Known(s) => Known(s)'
    BY <2>2, <2>3 DEF Known, Has, State
  <2>5. Known(state)'
    BY <1>0, <2>3, <2>4 DEF Inv, Known, TypeOK
  <2>6. ASSUME NEW p \in Puller PROVE PullerOK(p)'
    <3>1. pc[p] # "idle" => Known(prior[p])'
      BY <1>0, <2>4, <2>3 DEF Inv, PullerOK, Known, TypeOK
    <3>2. pc[p] \in {"insert", "save", "unmodified"} => Published(got[p].of)'
      BY <1>0, <2>2, <2>3 DEF Inv, PullerOK, TypeOK, Got
    <3> QED
      BY <2>3, <3>1, <3>2 DEF Inv, PullerOK, Has, Known
  <2> QED
    BY <1>0, <2>1, <2>5, <2>6 DEF Inv
<1>2. ASSUME NEW p \in Puller, PullStep(p) PROVE Inv'
  <2>1. ServerOK' /\ UNCHANGED page
    BY <1>2 DEF PullStep, LoadState, Answer200, Answer304, Insert, SaveState,
                SaveUnmodified, EndDry, Fail, server, Inv, ServerOK
  <2>2. rows \subseteq rows'
    BY <1>2 DEF PullStep, LoadState, Answer200, Answer304, Insert, SaveState,
                SaveUnmodified, EndDry, Fail, store
  <2>3. \A q \in Puller : q # p =>
            /\ pc'[q] = pc[q] /\ job'[q] = job[q]
            /\ prior'[q] = prior[q] /\ got'[q] = got[q]
    BY <1>0, <1>2 DEF PullStep, LoadState, Answer200, Answer304, Insert, SaveState,
                SaveUnmodified, EndDry, Fail, Goto, End, TypeOK
  <2>4. ASSUME NEW q \in Puller, q # p PROVE PullerOK(q)'
    BY <2>1, <2>2, <2>3, <2>4 DEF Inv, PullerOK, Known, Published, Has
  <2>5. Known(state)' /\ PullerOK(p)'
    <3>1. ASSUME NEW j \in Job, LoadState(p, j) PROVE Known(state)' /\ PullerOK(p)'
      <4>1. /\ state' = state /\ rows' = rows
            /\ pc'[p] = "request" /\ prior'[p] = state
        BY <1>0, <3>1 DEF LoadState, Goto, TypeOK, store
      <4> QED
        BY <2>1, <4>1 DEF Inv, PullerOK, Known, Published, Has
    <3>2. ASSUME NEW entries \in SUBSET Entry, Answer200(p, entries)
          PROVE  Known(state)' /\ PullerOK(p)'
      <4>1. /\ state' = state /\ rows' = rows
            /\ pc[p] = "request" /\ pc'[p] = "insert" /\ prior'[p] = prior[p]
            /\ got'[p] = [of |-> page[job[p].url], entries |-> entries]
        BY <1>0, <3>2 DEF Answer200, At, Goto, TypeOK, store
      <4>2. entries = page[job[p].url].entries
        BY <3>2 DEF Answer200, Arrives, Whole
      <4>3. job[p].url \in Url
        BY <1>0, <4>1 DEF TypeOK, Job
      <4>4. Published(page[job[p].url])
        BY <1>0, <4>3, CurrentIsPublished DEF Inv
      <4>5. Known(prior[p])
        BY <4>1 DEF Inv, PullerOK
      <4>6. Known(state)' /\ Known(prior[p])'
        BY <2>1, <4>1, <4>5 DEF Inv, Known, Published, Has
      <4>7. /\ got'[p].of = page[job[p].url]
            /\ got'[p].entries = got'[p].of.entries
        BY <4>1, <4>2
      <4>8. Published(got[p].of)'
        BY <2>1, <4>4, <4>7 DEF Published
      <4> QED
        BY <4>1, <4>6, <4>7, <4>8 DEF PullerOK
    <3>3. CASE Answer304(p)
      <4>1. /\ state' = state /\ rows' = rows
            /\ pc[p] = "request" /\ pc'[p] = "unmodified"
            /\ prior'[p] = prior[p] /\ job'[p] = job[p]
            /\ got'[p] = [of |-> page[job[p].url], entries |-> {}]
        BY <1>0, <3>3 DEF Answer304, At, Goto, TypeOK, store
      <4>2. NotModified(prior[p], job[p].url) /\ Known(prior[p])
        BY <3>3, <4>1 DEF Answer304, Inv, PullerOK
      <4>3. Has(job[p].provider, page[job[p].url].entries)
        BY <1>0, <4>1, <4>2, UnmodifiedIsSame
      <4>4. job[p].url \in Url
        BY <1>0, <4>1 DEF TypeOK, Job
      <4>5. Published(page[job[p].url])
        BY <1>0, <4>4, CurrentIsPublished DEF Inv
      <4>6. Known(state)' /\ Known(prior[p])'
        BY <2>1, <4>1, <4>2 DEF Inv, Known, Published, Has
      <4>7. /\ Published(page[job[p].url])'
            /\ Has(job[p].provider, page[job[p].url].entries)'
        BY <2>1, <4>1, <4>3, <4>5 DEF Published, Has
      <4> QED
        BY <2>1, <4>1, <4>2, <4>6, <4>7 DEF PullerOK, NotModified
    <3>4. CASE Insert(p)
      <4>1. /\ state' = state /\ rows' = rows \cup Stored(p)
            /\ pc[p] = "insert" /\ pc'[p] = "save" /\ prior'[p] = prior[p]
            /\ job'[p] = job[p] /\ got'[p] = got[p]
        BY <1>0, <3>4 DEF Insert, At, Goto, TypeOK
      <4>2. Has(job[p].provider, got[p].of.entries)'
        BY <4>1 DEF Inv, PullerOK, Stored, Has
      <4> QED
        BY <2>1, <4>1, <4>2 DEF Inv, PullerOK, Known, Published, Has
    <3>5. CASE SaveState(p)
      <4>1. /\ state' = [of |-> got[p].of, provider |-> job[p].provider]
            /\ rows' = rows /\ pc[p] = "save" /\ pc'[p] = "idle"
        BY <1>0, <3>5 DEF SaveState, At, End, Goto, TypeOK
      <4> QED
        BY <2>1, <4>1 DEF Inv, PullerOK, Known, Published, Has
    <3>6. CASE SaveUnmodified(p)
      <4>1. PICK of \in {got[p].of, prior[p].of} :
                state' = [of |-> of, provider |-> job[p].provider]
        BY <3>6 DEF SaveUnmodified
      <4>2. rows' = rows /\ pc[p] = "unmodified" /\ pc'[p] = "idle"
        BY <1>0, <3>6 DEF SaveUnmodified, At, End, Goto, TypeOK
      <4>3. job[p].provider = prior[p].provider
        BY <1>0, <4>2 DEF TypeOK, Job, State, Whole
      <4>4. Published(of) /\ Has(job[p].provider, of.entries)
        BY <4>1, <4>2, <4>3 DEF Inv, PullerOK, Known
      <4> QED
        BY <2>1, <4>1, <4>2, <4>4 DEF PullerOK, Known, Published, Has
    <3>7. CASE EndDry(p) \/ Fail(p)
      <4>1. state' = state /\ rows' = rows /\ pc'[p] = "idle"
        BY <1>0, <3>7 DEF EndDry, Fail, End, Goto, TypeOK, store
      <4> QED
        BY <2>1, <4>1 DEF Inv, PullerOK, Known, Published, Has
    <3> QED
      BY <1>2, <3>1, <3>2, <3>3, <3>4, <3>5, <3>6, <3>7 DEF PullStep
  <2> QED
    BY <1>0, <2>1, <2>4, <2>5 DEF Inv
<1>3. CASE UNCHANGED vars
  BY <1>0, <1>3 DEF vars, Inv, ServerOK, PullerOK, Known, Published, Has
<1> QED
  BY <1>1, <1>2, <1>3 DEF Next

\* Whatever pulls overlap, fail or are killed, the validators in api_pull_state
\* belong to a page whose entries are all stored.
THEOREM SavedIsStoredHolds == Whole => (Spec => []SavedIsStored)
<1> SUFFICES ASSUME Whole PROVE Spec => []SavedIsStored
  OBVIOUS
<1>1. Init => Inv
  BY InvInit
<1>2. Inv /\ [Next]_vars => Inv'
  BY InvNext
<1>3. Inv => SavedIsStored
  BY DEF Inv, Known, SavedIsStored
<1> QED
  BY <1>1, <1>2, <1>3, PTL DEF Spec

\* A pull that succeeds, with a page or with "not modified", has every entry
\* that the server had.
THEOREM NothingMissedHolds == Whole => (Spec => []NothingMissed)
<1> SUFFICES ASSUME Whole PROVE Spec => []NothingMissed
  OBVIOUS
<1>1. Init => Inv
  BY InvInit
<1>2. Inv /\ [Next]_vars => Inv'
  BY InvNext
<1>3. Inv => NothingMissed
  BY DEF Inv, PullerOK, NothingMissed
<1> QED
  BY <1>1, <1>2, <1>3, PTL DEF Spec
=============================================================================
