-------------------------- MODULE CryptoCacheProofs --------------------------
(***************************************************************************)
(* Proofs about the shared encryption context, for any number of request   *)
(* threads.                                                                *)
(***************************************************************************)
EXTENDS CryptoCache, TLAPS

\* The calls a thread makes after insert_messages found a context.
SealedCall(t) ==
    /\ thread[t].pc \in {"lookup", "publish", "mode"}
    /\ thread[t].site \in {"mapper", "seal"}

\* The flag is never set without the context, and a thread that writes a row
\* goes on with the context it found.
SealedInv ==
    /\ TypeOK
    /\ enabled = "on" => ctx = Key
    /\ \A t \in Thread :
          /\ SealedCall(t) => thread[t].ctx = Key
          /\ At(t, "mode") => /\ thread[t].found = Key
                              /\ thread[t].site \in {"mapper", "map_query"}
          /\ At(t, "write") => thread[t].site = "seal" /\ thread[t].found = Key
    /\ ContentSealed

LEMMA InitTypes == Init => TypeOK
<1>. SUFFICES ASSUME Init PROVE TypeOK
  OBVIOUS
<1>1. searched \in BOOLEAN
  BY DEF Init
<1>2. thread \in [Thread -> Local]
  BY DEF Init, Local, Pc, Site, Context, TermsMode
<1>3. /\ enabled \in {"unknown", "on"}
      /\ ctx \in Context
      /\ terms \in TermsMode
      /\ rows \subseteq [content : Context, index : TermsMode]
  BY DEF Init, Context, TermsMode
<1>. QED BY <1>1, <1>2, <1>3 DEF TypeOK

\* A call keeps the types of the locals.
LEMMA CallTypes ==
  ASSUME TypeOK, NEW t \in Thread, NEW site \in Site, Call(t, site)
  PROVE  thread' \in [Thread -> Local]
<1>. DEFINE called == [thread[t] EXCEPT !.pc = "lookup", !.site = site]
<1>1. thread' = [thread EXCEPT ![t] = called]
  BY DEF Call, TypeOK, Local
<1>2. thread[t] \in Local
  BY DEF TypeOK
<1>3. called \in Local
  BY <1>2 DEF Local, Pc
<1>. HIDE DEF called
<1>. QED BY <1>1, <1>3 DEF TypeOK

\* The cached attributes and the locals of every request keep their types.
THEOREM TypeCorrect == Spec => []TypeOK
<1>. USE CryptoCacheAssumption
<1>1. Init => TypeOK
  BY InitTypes
<1>2. TypeOK /\ [Next]_vars => TypeOK'
  <2>. SUFFICES ASSUME TypeOK, [Next]_vars PROVE TypeOK'
    OBVIOUS
  <2>. USE DEF TypeOK, Local, Pc, Site, Context, TermsMode
  <2>1. CASE UNCHANGED vars
    BY <2>1 DEF vars
  <2>2. ASSUME NEW t \in Thread, ThreadStep(t) PROVE TypeOK'
    <3>1. CASE Ingest(t)
      BY <3>1, CallTypes DEF Ingest, Request
    <3>2. CASE Query(t)
      BY <3>2, CallTypes DEF Query, Request
    <3>3. CASE MeshSearch(t)
      BY <3>3, CallTypes DEF MeshSearch, Request
    <3>4. CASE UseCache(t)
      BY <3>4 DEF UseCache, Return, PcAfter, SiteAfter
    <3>5. CASE ReadMeta(t)
      BY <3>5 DEF ReadMeta, Move
    <3>6. CASE Publish(t)
      BY <3>6 DEF Publish, Return, PcAfter, SiteAfter
    <3>7. CASE ReadTermsMode(t)
      BY <3>7 DEF ReadTermsMode
    <3>8. CASE CommitRow(t)
      <4>1. [content |-> IF thread[t].site = "seal" THEN thread[t].found ELSE None,
             index |-> thread[t].mapper] \in [content : Context, index : TermsMode]
        OBVIOUS
      <4>. QED BY <3>8, <4>1 DEF CommitRow, Move
    <3>9. CASE RunQuery(t)
      BY <3>9 DEF RunQuery, Move
    <3>10. CASE Fail(t)
      BY <3>10 DEF Fail, Move
    <3>. QED
      BY <2>2, <3>1, <3>2, <3>3, <3>4, <3>5, <3>6, <3>7, <3>8, <3>9, <3>10
      DEF ThreadStep
  <2>. QED BY <2>1, <2>2 DEF Next
<1>. QED BY <1>1, <1>2, PTL DEF Spec

LEMMA SealedStep ==
  ASSUME SealedInv, TypeOK', NEW t \in Thread, ThreadStep(t)
  PROVE  SealedInv'
<1>. USE CryptoCacheAssumption
         DEF SealedInv, SealedCall, ContentSealed, At, TypeOK, Local, Pc, Site,
             Context, TermsMode
<1>1. CASE Ingest(t)
  BY <1>1 DEF Ingest, Request, Call
<1>2. CASE Query(t)
  BY <1>2 DEF Query, Request, Call
<1>3. CASE MeshSearch(t)
  BY <1>3 DEF MeshSearch, Request, Call
<1>4. CASE UseCache(t)
  BY <1>4 DEF UseCache, Return, PcAfter, SiteAfter
<1>5. CASE ReadMeta(t)
  BY <1>5 DEF ReadMeta, Move
<1>6. CASE Publish(t)
  BY <1>6 DEF Publish, Return, PcAfter, SiteAfter
<1>7. CASE ReadTermsMode(t)
  BY <1>7 DEF ReadTermsMode
<1>8. CASE CommitRow(t)
  BY <1>8 DEF CommitRow, Move
<1>9. CASE RunQuery(t)
  BY <1>9 DEF RunQuery, Move
<1>10. CASE Fail(t)
  BY <1>10 DEF Fail, Move
<1>. QED
  BY <1>1, <1>2, <1>3, <1>4, <1>5, <1>6, <1>7, <1>8, <1>9, <1>10
  DEF ThreadStep

THEOREM SealedInvariant == Spec => []SealedInv
<1>1. Init => SealedInv
  BY InitTypes, CryptoCacheAssumption
  DEF Init, SealedInv, SealedCall, ContentSealed, At
<1>2. SealedInv /\ TypeOK' /\ [Next]_vars => SealedInv'
  <2>. SUFFICES ASSUME SealedInv, TypeOK', [Next]_vars PROVE SealedInv'
    OBVIOUS
  <2>1. CASE UNCHANGED vars
    BY <2>1 DEF vars, SealedInv, SealedCall, ContentSealed, At, TypeOK
  <2>2. CASE Next
    BY <2>2, SealedStep DEF Next
  <2>. QED BY <2>1, <2>2
<1>. QED BY <1>1, <1>2, TypeCorrect, PTL DEF Spec

\* No interleaving of requests, init() included, writes a message of the
\* encrypted database in plaintext.
THEOREM ContentSealedHolds == Spec => []ContentSealed
<1>1. SealedInv => ContentSealed
  BY DEF SealedInv
<1>. QED BY <1>1, SealedInvariant, PTL

-----------------------------------------------------------------------------
\* Until init() is called the mode is set before the flag and never taken
\* back.
KeyedInv ==
    ~searched =>
        /\ enabled = "on" => terms = "keyed"
        /\ \A t \in Thread :
              /\ thread[t].pc \in {"publish", "mode"} => terms = "keyed"
              /\ thread[t].pc \in {"lookup", "publish"} /\ thread[t].site = "seal"
                 => thread[t].mapper = "keyed"
              /\ thread[t].pc \in {"write", "query"} => thread[t].mapper = "keyed"
        /\ \A row \in rows : row.index = "keyed"

LEMMA KeyedStep ==
  ASSUME SealedInv, KeyedInv, NEW t \in Thread, ThreadStep(t)
  PROVE  KeyedInv'
<1>. USE CryptoCacheAssumption
         DEF KeyedInv, SealedInv, SealedCall, At, TypeOK, Local, Pc, Site,
             Context, TermsMode
<1>1. CASE Ingest(t)
  BY <1>1 DEF Ingest, Request, Call
<1>2. CASE Query(t)
  BY <1>2 DEF Query, Request, Call
<1>3. CASE MeshSearch(t)
  BY <1>3 DEF MeshSearch
<1>4. CASE UseCache(t)
  BY <1>4 DEF UseCache, Return, PcAfter, SiteAfter
<1>5. CASE ReadMeta(t)
  BY <1>5 DEF ReadMeta, Move
<1>6. CASE Publish(t)
  BY <1>6 DEF Publish, Return, PcAfter, SiteAfter
<1>7. CASE ReadTermsMode(t)
  BY <1>7 DEF ReadTermsMode
<1>8. CASE CommitRow(t)
  BY <1>8 DEF CommitRow, Move
<1>9. CASE RunQuery(t)
  BY <1>9 DEF RunQuery, Move
<1>10. CASE Fail(t)
  BY <1>10 DEF Fail, Move
<1>. QED
  BY <1>1, <1>2, <1>3, <1>4, <1>5, <1>6, <1>7, <1>8, <1>9, <1>10
  DEF ThreadStep

\* A store that threads resolve lazily indexes and queries under keyed terms
\* only, as long as no request has called init().
THEOREM TermsKeyedHolds == Spec => []TermsKeyed
<1>1. Init => KeyedInv
  BY CryptoCacheAssumption DEF Init, KeyedInv
<1>2. SealedInv /\ KeyedInv /\ [Next]_vars => KeyedInv'
  <2>. SUFFICES ASSUME SealedInv, KeyedInv, [Next]_vars PROVE KeyedInv'
    OBVIOUS
  <2>1. CASE UNCHANGED vars
    BY <2>1 DEF vars, KeyedInv
  <2>2. CASE Next
    BY <2>2, KeyedStep DEF Next
  <2>. QED BY <2>1, <2>2
<1>3. KeyedInv => TermsKeyed
  BY DEF KeyedInv, TermsKeyed, At
<1>. QED BY <1>1, <1>2, <1>3, SealedInvariant, PTL DEF Spec
=============================================================================
