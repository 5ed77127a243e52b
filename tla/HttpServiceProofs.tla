--------------------------- MODULE HttpServiceProofs ---------------------------
(***************************************************************************)
(* Proofs about HttpService for any number of processes, tokens, commands  *)
(* and requests.                                                           *)
(*                                                                         *)
(* The argument for the service: a process changes the port only to take   *)
(* it when it is free and to give up what it has, so what holds of one     *)
(* process is not disturbed by the steps of another.  For the tokens: a    *)
(* row, once inserted, only changes to revoked, so a token that is good    *)
(* when a request is verified was good when it arrived.                    *)
(***************************************************************************)
EXTENDS HttpService, TLAPS

\* What holds of each process: where it holds the port, and what its loop can
\* be doing where.
ProcOK(p) ==
    /\ phase[p] \in {"bound", "owned", "wait", "closing"} => port = p
    /\ phase[p] = "running" /\ (owned[p] \/ p \in Serve) => thread[p] = "loop"
    /\ thread[p] \in {"begun", "loop"} => port = p
    /\ thread[p] # "none" => phase[p] \in {"wait", "running", "closing", "closed"}
    /\ phase[p] = "closed" => thread[p] = "ended"
    /\ quit[p] => phase[p] \in {"closing", "closed", "gone"}
    /\ owned[p] => phase[p] \in {"owned", "wait", "running"}
    /\ port = p => phase[p] \notin {"off", "gone"}

ServiceInv ==
    /\ ServiceTypeOK
    /\ \A p \in Proc : ProcOK(p)

-----------------------------------------------------------------------------
\* The end of a process, and its steps, leave the others as they are.
Untouched(q) ==
    /\ phase'[q] = phase[q]
    /\ thread'[q] = thread[q]
    /\ owned'[q] = owned[q]
    /\ quit'[q] = quit[q]
    /\ port' = q <=> port = q

LEMMA GoneOthers ==
    ASSUME ServiceTypeOK, NEW p \in Proc, Gone(p), NEW q \in Proc, q # p
    PROVE  Untouched(q)
  BY ServiceAssumption DEF ServiceTypeOK, Gone, Goto, Untouched

LEMMA ShutdownOthers ==
    ASSUME ServiceTypeOK, NEW p \in Proc, Shutdown(p), NEW q \in Proc, q # p
    PROVE  Untouched(q)
  BY DEF ServiceTypeOK, Shutdown, Goto, Untouched

LEMMA Others ==
    ASSUME ServiceTypeOK, \A r \in Proc : ProcOK(r), NEW p \in Proc, ServiceStep(p),
           NEW q \in Proc, q # p
    PROVE  Untouched(q)
<1>1. CASE Launch(p) \/ Reuse(p) \/ ProbeFails(p)
  BY <1>1 DEF ServiceTypeOK, Launch, Reuse, ProbeFails, Goto, Untouched
<1>2. CASE Bind(p) \/ Close(p)
  BY <1>2, ServiceAssumption
     DEF ServiceTypeOK, Bind, Close, Goto, Untouched, In, ProcOK
<1>3. CASE BindFails(p)
  BY <1>3, GoneOthers DEF ServiceTypeOK, BindFails, Goto, Untouched
<1>4. CASE Configure(p)
  BY <1>4 DEF ServiceTypeOK, Configure, Goto, Untouched
<1>5. CASE StartThread(p) \/ Started(p) \/ ProbeAgain(p)
  BY <1>5 DEF ServiceTypeOK, StartThread, Started, ProbeAgain, Goto, Untouched
<1>6. CASE EnterLoop(p) \/ LeaveLoop(p)
  BY <1>6 DEF ServiceTypeOK, EnterLoop, LeaveLoop, Untouched
<1>7. CASE Conflict(p) \/ Join(p) \/ Killed(p)
  BY <1>7, GoneOthers DEF Conflict, Join, Killed
<1>8. CASE Leave(p) \/ Abort(p)
  BY <1>8, GoneOthers, ShutdownOthers DEF Leave, Abort
<1>9. QED
  BY <1>1, <1>2, <1>3, <1>4, <1>5, <1>6, <1>7, <1>8 DEF ServiceStep, Proceed, Loop

LEMMA UntouchedOK ==
    ASSUME NEW q \in Proc, ProcOK(q), Untouched(q)
    PROVE  ProcOK(q)'
  BY DEF ProcOK, Untouched

LEMMA GoneOK ==
    ASSUME ServiceTypeOK, NEW p \in Proc, Gone(p)
    PROVE  ServiceTypeOK' /\ ProcOK(p)'
<1>1. phase'[p] = "gone" /\ thread'[p] = "none" /\ ~owned'[p] /\ port' # p
  BY ServiceAssumption DEF ServiceTypeOK, Gone, Goto
<1>2. ServiceTypeOK'
  BY DEF ServiceTypeOK, Gone, Goto, Phase
<1>3. QED
  BY <1>1, <1>2 DEF ProcOK

LEMMA ShutdownOK ==
    ASSUME ServiceTypeOK, NEW p \in Proc, ProcOK(p), owned[p], Shutdown(p),
           phase[p] # "running" \/ thread[p] = "loop"
    PROVE  ServiceTypeOK' /\ ProcOK(p)'
<1>1. /\ phase'[p] = "closing" /\ ~owned'[p] /\ quit'[p]
      /\ thread' = thread /\ port' = port
  BY DEF ServiceTypeOK, Shutdown, Goto
<1>2. port = p
  BY DEF ProcOK
<1>3. ServiceTypeOK'
  BY DEF ServiceTypeOK, Shutdown, Goto, Phase
<1>4. QED
  BY <1>1, <1>2, <1>3 DEF ProcOK

\* The answer "compatible" to the one who holds the port is its own loop's.
LEMMA OwnAnswer ==
    ASSUME NEW p \in Proc, port = p, "compatible" \in Answers
    PROVE  thread[p] = "loop"
  BY DEF Answers, Serving

LEMMA ServiceStepOK ==
    ASSUME ServiceInv, NEW p \in Proc, ServiceStep(p)
    PROVE  ServiceInv'
<1> USE DEF ServiceInv
<1>1. ServiceTypeOK' /\ ProcOK(p)'
  <2> ProcOK(p)
    OBVIOUS
  <2>1. CASE Launch(p)
    BY <2>1 DEF ServiceTypeOK, ProcOK, Launch, Goto, In, Phase, Starting
  <2>2. CASE Reuse(p)
    BY <2>2, ServiceAssumption
       DEF ServiceTypeOK, ProcOK, Reuse, Goto, In, Phase, Starting, Proc
  <2>3. CASE ProbeFails(p)
    BY <2>3 DEF ServiceTypeOK, ProcOK, ProbeFails, Goto, In, Phase, Starting
  <2>4. CASE Bind(p)
    BY <2>4 DEF ServiceTypeOK, ProcOK, Bind, Goto, In, Phase, Starting
  <2>5. CASE BindFails(p)
    BY <2>5, GoneOK DEF ServiceTypeOK, ProcOK, BindFails, Goto, In, Phase, Starting
  <2>6. CASE Configure(p)
    <3>1. ServiceTypeOK'
      <4>1. phase' \in [Proc -> Phase]
        BY <2>6 DEF ServiceTypeOK, Configure, Goto, Phase, Starting
      <4>2. thread' \in [Proc -> {"none", "begun", "loop", "ended"}]
        BY <2>6 DEF ServiceTypeOK, Configure
      <4>3. owned' \in [Proc -> BOOLEAN]
        BY <2>6 DEF ServiceTypeOK, Configure
      <4>4. QED
        BY <2>6, <4>1, <4>2, <4>3 DEF ServiceTypeOK, Configure
    <3>2. /\ phase[p] = "bound" /\ port' = p /\ quit'[p] = quit[p]
          /\ thread[p] = "none" /\ ~quit[p]
      BY <2>6 DEF ProcOK, Configure, In, ServiceTypeOK
    <3>3. CASE p \in Tui
      <4>1. phase'[p] = "owned" /\ thread'[p] = "none"
        BY <2>6, <3>2, <3>3 DEF ServiceTypeOK, Configure, Goto
      <4>2. QED
        BY <3>1, <3>2, <4>1 DEF ProcOK
    <3>4. CASE p \notin Tui
      <4>1. phase'[p] = "running" /\ thread'[p] = "loop" /\ ~owned'[p]
        BY <2>6, <3>2, <3>4 DEF ServiceTypeOK, Configure, Goto, ProcOK
      <4>2. QED
        BY <3>1, <3>2, <4>1 DEF ProcOK
    <3>5. QED
      BY <3>3, <3>4
  <2>7. CASE StartThread(p)
    BY <2>7 DEF ServiceTypeOK, ProcOK, StartThread, Goto, In, Phase, Starting
  <2>8. CASE Started(p)
    BY <2>8, OwnAnswer DEF ServiceTypeOK, ProcOK, Started, Goto, In, Phase, Starting
  <2>9. CASE ProbeAgain(p)
    <3>1. probes[p] + 1 \in 0..Probes
      BY <2>9, ServiceAssumption DEF ProbeAgain, ServiceTypeOK
    <3>2. QED
      BY <2>9, <3>1 DEF ServiceTypeOK, ProcOK, ProbeAgain, In
  <2>10. CASE EnterLoop(p)
    BY <2>10 DEF ServiceTypeOK, ProcOK, EnterLoop
  <2>11. CASE LeaveLoop(p)
    BY <2>11 DEF ServiceTypeOK, ProcOK, LeaveLoop
  <2>12. CASE Close(p)
    BY <2>12 DEF ServiceTypeOK, ProcOK, Close, Goto, In, Phase
  <2>13. CASE Conflict(p) \/ Join(p) \/ Killed(p)
    BY <2>13, GoneOK DEF Conflict, Join, Killed
  <2>14. CASE Leave(p) \/ Abort(p)
    BY <2>14, GoneOK, ShutdownOK DEF Leave, Abort, ProcOK, In
  <2>15. QED
    BY <2>1, <2>2, <2>3, <2>4, <2>5, <2>6, <2>7, <2>8, <2>9, <2>10, <2>11, <2>12,
       <2>13, <2>14 DEF ServiceStep, Proceed, Loop
<1>2. \A q \in Proc : ProcOK(q)'
  BY <1>1, Others, UntouchedOK
<1>3. QED
  BY <1>1, <1>2

LEMMA OtherStepOK ==
    ASSUME ServiceInv, OtherTakes \/ OtherLeaves
    PROVE  ServiceInv'
<1>1. \A q \in Proc : Untouched(q)
  BY ServiceAssumption DEF OtherTakes, OtherLeaves, Untouched
<1>2. ServiceTypeOK'
  BY DEF ServiceInv, ServiceTypeOK, OtherTakes, OtherLeaves
<1>3. QED
  BY <1>1, <1>2, UntouchedOK DEF ServiceInv

-----------------------------------------------------------------------------
(***************************************************************************)
(* Tokens.                                                                 *)
(***************************************************************************)
\* Rows are only added, or revoked.
Grows ==
    \A t \in Token : Exists(t) =>
        /\ Exists(t)'
        /\ tokens'[t].family = tokens[t].family
        /\ tokens'[t].grant = tokens[t].grant
        /\ tokens'[t].expires = tokens[t].expires
        /\ Active(t)' => Active(t)

RequestOK(r) ==
    /\ req[r].token # None => Exists(req[r].token)
    /\ req[r].pc = "verify" =>
           \A t \in Token, right \in Right \cup {None} :
               t = req[r].token /\ right = req[r].right /\ Good(t, right)
               => req[r].entitled
    /\ req[r].pc \in {"act", "acted"} => req[r].entitled \/ host[r] \in AuthOff

Known ==
    /\ \A t \in held : Exists(t)
    /\ \A a \in Admin : cmd[a] # None => Exists(cmd[a])

TokensInv ==
    /\ TokensTypeOK
    /\ Known
    /\ SecretSurvives
    /\ \A r \in Request : RequestOK(r)

LEMMA RowFacts ==
    ASSUME NEW row \in Row
    PROVE  /\ Revoked(row) \in Row
           /\ Revoked(row).revoked
           /\ Revoked(row).family = row.family
           /\ Revoked(row).grant = row.grant
           /\ Revoked(row).expires = row.expires
           /\ Successor(row) \in Row
           /\ ~Successor(row).revoked
           /\ Successor(row).family = row.family
  BY DEF Row, Revoked, Successor

\* What the commands do to the table.
LEMMA CommandGrows ==
    ASSUME TokensTypeOK, NEW a \in Admin, CommandStep(a)
    PROVE  /\ tokens' \in [Token -> Row \cup {None}]
           /\ Grows
           /\ UNCHANGED <<late, req>>
<1> USE NoRowAssumption
<1>1. ASSUME NEW t \in Token, NEW grant \in Grants, NEW expires \in BOOLEAN,
             Create(a, t, grant, expires)
      PROVE  tokens' \in [Token -> Row \cup {None}] /\ Grows
  <2>1. [grant |-> grant, expires |-> expires, revoked |-> FALSE, family |-> t] \in Row
    BY DEF Row
  <2>2. QED
    BY <1>1, <2>1 DEF Create, New, Exists, Active, Grows, TokensTypeOK
<1>2. ASSUME NEW old \in Token, NEW new \in Token, Rotate(a, old, new)
      PROVE  tokens' \in [Token -> Row \cup {None}] /\ Grows
  <2>1. tokens[old] \in Row /\ new # old
    BY <1>2 DEF Rotate, New, Exists, TokensTypeOK
  <2>2. QED
    BY <1>2, <2>1, RowFacts DEF Rotate, New, Exists, Active, Grows, TokensTypeOK
<1>3. ASSUME NEW t \in Token, Revoke(a, t)
      PROVE  tokens' \in [Token -> Row \cup {None}] /\ Grows
  <2>1. tokens[t] \in Row
    BY <1>3 DEF Revoke, Exists, Active, TokensTypeOK
  <2>2. QED
    BY <1>3, <2>1, RowFacts DEF Revoke, Exists, Active, Grows, TokensTypeOK
<1>4. CASE Show(a) \/ Kill(a)
  BY <1>4 DEF Show, Kill, Exists, Active, Grows, TokensTypeOK
<1>5. UNCHANGED <<late, req>>
  BY DEF CommandStep, Create, Rotate, Revoke, Show, Kill
<1>6. CASE \E t \in Token, grant \in Grants, expires \in BOOLEAN : Create(a, t, grant, expires)
  BY <1>1, <1>5, <1>6
<1>7. CASE \E old, new \in Token : Rotate(a, old, new)
  BY <1>2, <1>5, <1>7
<1>8. CASE \E t \in Token : Revoke(a, t)
  BY <1>3, <1>5, <1>8
<1>9. QED
  BY <1>4, <1>5, <1>6, <1>7, <1>8 DEF CommandStep

LEMMA CommandTypes ==
    ASSUME TokensTypeOK, Known, NEW a \in Admin, CommandStep(a)
    PROVE  TokensTypeOK' /\ Known'
<1>1. /\ tokens' \in [Token -> Row \cup {None}]
      /\ \A t \in Token : Exists(t) => Exists(t)'
      /\ UNCHANGED <<late, req>>
  BY CommandGrows DEF Grows
<1>2. ASSUME NEW t \in Token, NEW grant \in Grants, NEW expires \in BOOLEAN,
             Create(a, t, grant, expires)
      PROVE  TokensTypeOK' /\ Known'
  <2>1. [grant |-> grant, expires |-> expires, revoked |-> FALSE, family |-> t] \in Row
    BY DEF Row
  <2>2. Exists(t)'
    BY <1>2, <2>1, NoRowAssumption DEF Create, Exists, TokensTypeOK
  <2>3. QED
    BY <1>1, <1>2, <2>2 DEF Create, TokensTypeOK, Known
<1>3. ASSUME NEW old \in Token, NEW new \in Token, Rotate(a, old, new)
      PROVE  TokensTypeOK' /\ Known'
  <2>1. tokens[old] \in Row
    BY <1>3 DEF Rotate, Exists, TokensTypeOK
  <2>2. Exists(new)'
    BY <1>3, <2>1, RowFacts, NoRowAssumption DEF Rotate, Exists, TokensTypeOK
  <2>3. QED
    BY <1>1, <1>3, <2>2 DEF Rotate, TokensTypeOK, Known
<1>4. ASSUME NEW t \in Token, Revoke(a, t)
      PROVE  TokensTypeOK' /\ Known'
  <2>1. tokens[t].family \in Token
    BY <1>4 DEF Revoke, Active, Exists, TokensTypeOK, Row
  <2>2. QED
    BY <1>1, <1>4, <2>1 DEF Revoke, TokensTypeOK, Known
<1>5. CASE Show(a)
  BY <1>1, <1>5 DEF Show, TokensTypeOK, Known
<1>6. CASE Kill(a)
  <2>1. tokens[cmd[a]] \in Row
    BY <1>6 DEF Kill, TokensTypeOK, Known, Exists
  <2>2. QED
    BY <1>1, <1>6, <2>1 DEF Kill, TokensTypeOK, Known, Row
<1>7. QED
  BY <1>2, <1>3, <1>4, <1>5, <1>6 DEF CommandStep

\* Families: who has a usable secret.
Usable(t, u) == Active(u) /\ InHand(u) /\ tokens[u].family = tokens[t].family

LEMMA CommandSecrets ==
    ASSUME TokensTypeOK, Known, SecretSurvives, NEW a \in Admin, CommandStep(a)
    PROVE  SecretSurvives'
<1> SUFFICES ASSUME NEW t \in Token, Exists(t)',
                    (tokens[t].family \notin withdrawn \cup lost)'
             PROVE  \E u \in Token : Usable(t, u)'
  BY DEF SecretSurvives, Usable
<1> USE NoRowAssumption
<1>1. Grows
  BY CommandGrows
<1>2. ASSUME Exists(t), tokens[t].family \notin withdrawn \cup lost
      PROVE  \E u \in Token : Usable(t, u) /\ Exists(u)
  BY <1>2 DEF SecretSurvives, Usable, Active
<1>3. ASSUME NEW k \in Token, NEW grant \in Grants, NEW expires \in BOOLEAN,
             Create(a, k, grant, expires)
      PROVE  \E u \in Token : Usable(t, u)'
  <2>1. CASE t = k
    BY <1>3, <2>1 DEF Create, Usable, InHand, Active, Exists, TokensTypeOK, Row
  <2>2. CASE t # k
    <3>1. Exists(t) /\ tokens'[t] = tokens[t]
      BY <1>3, <2>2 DEF Create, Exists, TokensTypeOK
    <3>2. PICK u \in Token : Usable(t, u) /\ Exists(u)
      BY <1>2, <1>3, <3>1 DEF Create
    <3>3. u # k /\ tokens'[u] = tokens[u]
      BY <1>3, <3>2 DEF Create, New, Exists, TokensTypeOK
    <3>4. InHand(u)'
      BY <1>3, <3>2, TokensAssumption DEF Create, Usable, InHand, TokensTypeOK
    <3>5. QED
      BY <3>1, <3>2, <3>3, <3>4 DEF Usable, Active, Exists
  <2>3. QED
    BY <2>1, <2>2
<1>4. ASSUME NEW old \in Token, NEW new \in Token, Rotate(a, old, new)
      PROVE  \E u \in Token : Usable(t, u)'
  <2>1. tokens[old] \in Row /\ new # old
    BY <1>4 DEF Rotate, New, Exists, TokensTypeOK
  <2>2. /\ tokens'[new] = Successor(tokens[old])
        /\ tokens'[old] = Revoked(tokens[old])
        /\ \A u \in Token : u # old /\ u # new => tokens'[u] = tokens[u]
        /\ cmd'[a] = new
    BY <1>4, <2>1 DEF Rotate, TokensTypeOK
  <2>3. Usable(old, new)'
    <3>1. /\ Successor(tokens[old]) \in Row /\ ~Successor(tokens[old]).revoked
          /\ Successor(tokens[old]).family = tokens[old].family
          /\ Revoked(tokens[old]).family = tokens[old].family
      BY <2>1, RowFacts
    <3>2. InHand(new)'
      BY <2>2 DEF InHand
    <3>3. QED
      BY <2>2, <3>1, <3>2 DEF Usable, Active, Exists
  <2>4. CASE tokens'[t].family = tokens[old].family
    BY <2>1, <2>2, <2>3, <2>4, RowFacts DEF Usable
  <2>5. CASE tokens'[t].family # tokens[old].family
    <3>1. t # new /\ t # old
      BY <2>1, <2>2, <2>5, RowFacts
    <3>2. Exists(t) /\ tokens'[t] = tokens[t]
      BY <2>2, <3>1 DEF Exists
    <3>3. PICK u \in Token : Usable(t, u) /\ Exists(u)
      BY <1>2, <1>4, <3>2 DEF Rotate
    <3>4. u # old /\ u # new
      BY <1>4, <2>5, <3>2, <3>3 DEF Usable, Rotate, New
    <3>5. InHand(u)'
      BY <1>4, <3>3, TokensAssumption DEF Rotate, Usable, InHand, TokensTypeOK
    <3>6. QED
      BY <2>2, <3>2, <3>3, <3>4, <3>5 DEF Usable, Active, Exists
  <2>6. QED
    BY <2>4, <2>5
<1>5. ASSUME NEW k \in Token, Revoke(a, k)
      PROVE  \E u \in Token : Usable(t, u)'
  <2>1. tokens[k] \in Row
    BY <1>5 DEF Revoke, Active, Exists, TokensTypeOK
  <2>2. Exists(t)
    BY <1>5, <2>1 DEF Revoke, Exists, TokensTypeOK
  <2>3. tokens'[t].family = tokens[t].family
    BY <1>1, <2>2 DEF Grows
  <2>4. PICK u \in Token : Usable(t, u) /\ Exists(u)
    BY <1>2, <1>5, <2>2, <2>3 DEF Revoke
  <2>5. u # k
    BY <1>5, <2>3, <2>4 DEF Revoke, Usable
  <2>6. tokens'[u] = tokens[u] /\ held' = held /\ cmd' = cmd
    BY <1>5, <2>5 DEF Revoke, TokensTypeOK
  <2>7. QED
    BY <2>3, <2>4, <2>6 DEF Usable, InHand, Active, Exists
<1>6. CASE Show(a) \/ Kill(a)
  <2>1. tokens' = tokens /\ Exists(t)
    BY <1>6 DEF Show, Kill, Exists
  <2>2. PICK u \in Token : Usable(t, u) /\ Exists(u)
    BY <1>2, <1>6, <2>1 DEF Show, Kill
  <2>3. InHand(u)'
    <3>1. CASE u \in held
      BY <1>6, <3>1 DEF Show, Kill, InHand
    <3>2. CASE u \notin held
      <4>1. PICK b \in Admin : u = cmd[b]
        BY <2>2, <3>2 DEF Usable, InHand
      <4>2. CASE b = a
        BY <1>6, <2>1, <2>2, <4>1, <4>2 DEF Show, Kill, Usable, InHand
      <4>3. CASE b # a
        <5>1. cmd'[b] = u
          BY <1>6, <4>1, <4>3 DEF Show, Kill, TokensTypeOK
        <5>2. QED
          BY <5>1 DEF InHand
      <4>4. QED
        BY <4>2, <4>3
    <3>3. QED
      BY <3>1, <3>2
  <2>4. QED
    BY <2>1, <2>2, <2>3 DEF Usable, Active, Exists
<1>7. QED
  BY <1>3, <1>4, <1>5, <1>6 DEF CommandStep

-----------------------------------------------------------------------------
(***************************************************************************)
(* Requests.                                                               *)
(***************************************************************************)
LEMMA GoodBefore ==
    ASSUME NEW t \in Token, NEW right, Exists(t), Grows, late => late', Good(t, right)'
    PROVE  Good(t, right)
  BY DEF Good, Grows, Active

LEMMA RequestKept ==
    ASSUME TokensTypeOK, NEW r \in Request, RequestOK(r), Grows, late => late',
           req'[r] = req[r], host'[r] = host[r]
    PROVE  RequestOK(r)'
<1>1. req[r].token \in Token \cup {None}
  BY DEF TokensTypeOK, Job
<1>2. req'[r].token # None => Exists(req[r].token)'
  BY <1>1 DEF RequestOK, Grows
<1>3. ASSUME NEW t \in Token, NEW right \in Right \cup {None}, req[r].pc = "verify",
             t = req[r].token, right = req[r].right, Good(t, right)'
      PROVE  req[r].entitled
  <2>1. Exists(t)
    BY <1>3, TokensAssumption DEF RequestOK
  <2>2. Good(t, right)
    BY <1>3, <2>1, GoodBefore
  <2>3. QED
    BY <1>3, <2>2 DEF RequestOK
<1>4. QED
  BY <1>2, <1>3 DEF RequestOK

LEMMA IdleOK ==
    ASSUME NEW r \in Request, req'[r] = Idle
    PROVE  RequestOK(r)'
  BY DEF RequestOK, Idle

LEMMA IdleJob == Idle \in Job
  BY DEF Idle, Job

\* Rows that stay as they are.
LEMMA StillGrows ==
    ASSUME tokens' = tokens
    PROVE  Grows
  BY DEF Grows, Exists, Active

LEMMA StillKnown ==
    ASSUME Known, SecretSurvives, UNCHANGED <<tokens, cmd, held, withdrawn, lost>>
    PROVE  Known' /\ SecretSurvives'
  BY DEF Known, SecretSurvives, Exists, Active, InHand

LEMMA ArriveOK ==
    ASSUME TokensInv, NEW r \in Request, NEW t \in Token \cup {None}, NEW right \in Right,
           Arrive(r, t, right)
    PROVE  TokensTypeOK' /\ RequestOK(r)'
<1>1. req'[r] = [pc |-> "verify", token |-> t, right |-> right, entitled |-> Good(t, right)]
  BY DEF Arrive, TokensInv, TokensTypeOK
<1>2. Good(t, right) \in BOOLEAN
  BY DEF Good
<1>3. TokensTypeOK'
  BY <1>2 DEF Arrive, TokensInv, TokensTypeOK, Job
<1>4. t # None => Exists(t)'
  BY DEF Arrive, TokensInv, Known, Exists
<1>5. ASSUME NEW k \in Token, NEW q \in Right \cup {None}, k = t, q = right, Good(k, q)'
      PROVE  Good(t, right)
  BY <1>5 DEF Good, Active, Exists, Arrive
<1>6. QED
  BY <1>1, <1>3, <1>4, <1>5 DEF RequestOK

LEMMA HandleOK ==
    ASSUME TokensInv, host \in [Request -> Proc \cup {None}], NEW r \in Request, Handle(r)
    PROVE  TokensTypeOK' /\ RequestOK(r)'
<1>1. CASE Deny(r) \/ Answer(r)
  <2>1. req' = [req EXCEPT ![r] = Idle] /\ UNCHANGED <<tokens, late, cmd, held, withdrawn, lost>>
    BY <1>1 DEF Deny, Answer
  <2>2. QED
    BY <2>1, IdleJob, IdleOK DEF TokensInv, TokensTypeOK
<1>2. ASSUME NEW phs \in {"act", "acted"}, Step(r, phs),
             UNCHANGED <<tokens, late, cmd, held, withdrawn, lost>>,
             req[r].entitled \/ host[r] \in AuthOff
      PROVE  TokensTypeOK' /\ RequestOK(r)'
  <2>1. /\ req'[r] = [req[r] EXCEPT !.pc = phs]
        /\ req[r] \in Job
    BY <1>2 DEF Step, TokensInv, TokensTypeOK
  <2>2. TokensTypeOK'
    BY <1>2, <2>1 DEF Step, TokensInv, TokensTypeOK, Job
  <2>3. req'[r].pc = phs /\ req'[r].token = req[r].token /\ req'[r].entitled = req[r].entitled
    BY <2>1 DEF Job
  <2>4. host'[r] = host[r] \/ req'[r] = Idle
    BY DEF Handle, TokensInv, TokensTypeOK
  <2>5. req'[r] # Idle
    BY <2>3 DEF Idle
  <2>6. QED
    BY <1>2, <2>2, <2>3, <2>4, <2>5 DEF RequestOK, TokensInv, Exists
<1>3. CASE Verify(r)
  <2>1. req[r].token \in Token /\ req[r].right \in Right \cup {None}
    BY <1>3 DEF Verify, Verified, Good, TokensInv, TokensTypeOK, Job
  <2>2. req[r].entitled
    BY <1>3, <2>1 DEF Verify, Verified, Handles, TokensInv, RequestOK
  <2>3. QED
    BY <1>2, <1>3, <2>2 DEF Verify
<1>4. CASE SkipAuth(r) /\ host[r] \in AuthOff
  BY <1>2, <1>4 DEF SkipAuth
<1>5. CASE Act(r)
  BY <1>2, <1>5 DEF Act, Handles, TokensInv, RequestOK
<1>6. QED
  BY <1>1, <1>3, <1>4, <1>5 DEF Handle, RequestStep

-----------------------------------------------------------------------------
(***************************************************************************)
(* The service and its clients.                                            *)
(***************************************************************************)
Inv ==
    /\ ServiceInv
    /\ TokensInv
    /\ host \in [Request -> Proc \cup {None}]
    /\ cast \in Casts

LEMMA Initially == Init => Inv
<1> SUFFICES ASSUME Init PROVE Inv
  OBVIOUS
<1>1. ServiceInv
  BY ServiceAssumption
     DEF Init, ServiceInit, ServiceInv, ServiceTypeOK, ProcOK, Phase
<1>2. TokensTypeOK
  BY IdleJob DEF Init, TokensInit, TokensTypeOK
<1>3. Known /\ SecretSurvives
  BY DEF Init, TokensInit, Known, SecretSurvives, Exists
<1>4. \A r \in Request : RequestOK(r)
  BY DEF Init, TokensInit, RequestOK, Idle
<1>5. QED
  BY <1>1, <1>2, <1>3, <1>4 DEF Inv, TokensInv, Init

\* What a step of the service leaves to the tokens.
LEMMA ServerStepOK ==
    ASSUME Inv, NEW p \in Proc, ServerStep(p)
    PROVE  Inv'
<1>1. ServiceInv'
  BY ServiceStepOK DEF Inv, ServerStep
<1>2. UNCHANGED <<tokens, late, cmd, held, withdrawn, lost, cast>>
  BY DEF ServerStep
<1>3. Known' /\ SecretSurvives'
  BY <1>2, StillKnown DEF Inv, TokensInv
<1>4. ASSUME NEW r \in Request
      PROVE  \/ req'[r] = Idle
             \/ req'[r] = req[r] /\ host'[r] = host[r]
  BY DEF ServerStep
<1>5. TokensTypeOK' /\ host' \in [Request -> Proc \cup {None}]
  BY <1>2, IdleJob DEF ServerStep, Inv, TokensInv, TokensTypeOK
<1>6. ASSUME NEW r \in Request
      PROVE  RequestOK(r)'
  BY <1>2, <1>4, IdleOK, RequestKept, StillGrows DEF Inv, TokensInv
<1>7. QED
  BY <1>1, <1>2, <1>3, <1>5, <1>6 DEF Inv, TokensInv

LEMMA ConnectOK ==
    ASSUME Inv, NEW r \in Request, NEW p \in Proc, NEW t \in Token \cup {None},
           NEW right \in Right, Connect(r, p, t, right)
    PROVE  Inv'
<1>1. /\ UNCHANGED <<tokens, late, cmd, held, withdrawn, lost, cast>>
      /\ \A q \in Request : q # r => req'[q] = req[q] /\ host'[q] = host[q]
      /\ host' \in [Request -> Proc \cup {None}]
  BY DEF Connect, Arrive, Inv, TokensInv, TokensTypeOK
<1>2. ServiceInv'
  <2>1. UNCHANGED serviceVars
    BY DEF Connect
  <2>2. QED
    BY <2>1 DEF Inv, ServiceInv, ServiceTypeOK, ProcOK, serviceVars
<1>3. TokensTypeOK' /\ RequestOK(r)'
  BY ArriveOK DEF Connect, Inv
<1>4. \A q \in Request : RequestOK(q)'
  BY <1>1, <1>3, RequestKept, StillGrows DEF Inv, TokensInv
<1>5. Known' /\ SecretSurvives'
  BY <1>1, StillKnown DEF Inv, TokensInv
<1>6. QED
  BY <1>1, <1>2, <1>3, <1>4, <1>5 DEF Inv, TokensInv

LEMMA HandlesOK ==
    ASSUME Inv, NEW r \in Request, Handle(r)
    PROVE  Inv'
<1>1. /\ UNCHANGED <<tokens, late, cmd, held, withdrawn, lost>>
      /\ \A q \in Request : q # r => req'[q] = req[q]
  BY DEF Handle, RequestStep, SkipAuth, Act, Answer, Verify, Deny, Step, Inv, TokensInv,
         TokensTypeOK
<1>2. /\ UNCHANGED cast
      /\ \A q \in Request : q # r => host'[q] = host[q]
      /\ host' \in [Request -> Proc \cup {None}]
  BY DEF Handle, Inv
<1>3. ServiceInv'
  <2>1. UNCHANGED serviceVars
    BY DEF Handle
  <2>2. QED
    BY <2>1 DEF Inv, ServiceInv, ServiceTypeOK, ProcOK, serviceVars
<1>4. TokensTypeOK' /\ RequestOK(r)'
  BY HandleOK DEF Inv
<1>5. \A q \in Request : RequestOK(q)'
  BY <1>1, <1>2, <1>4, RequestKept, StillGrows DEF Inv, TokensInv
<1>6. Known' /\ SecretSurvives'
  BY <1>1, StillKnown DEF Inv, TokensInv
<1>7. QED
  BY <1>2, <1>3, <1>4, <1>5, <1>6 DEF Inv, TokensInv

LEMMA CommandOK ==
    ASSUME Inv, NEW a \in Admin, Command(a)
    PROVE  Inv'
<1>1. CommandStep(a) /\ UNCHANGED <<host, cast>>
  BY DEF Command
<1>2. ServiceInv'
  <2>1. UNCHANGED serviceVars
    BY DEF Command
  <2>2. QED
    BY <2>1 DEF Inv, ServiceInv, ServiceTypeOK, ProcOK, serviceVars
<1>3. Grows /\ UNCHANGED <<late, req>>
  BY <1>1, CommandGrows DEF Inv, TokensInv
<1>4. TokensTypeOK' /\ Known' /\ SecretSurvives'
  BY <1>1, CommandTypes, CommandSecrets DEF Inv, TokensInv
<1>5. \A r \in Request : RequestOK(r)'
  BY <1>1, <1>3, RequestKept DEF Inv, TokensInv
<1>6. QED
  BY <1>1, <1>2, <1>4, <1>5 DEF Inv, TokensInv

LEMMA ClockOK ==
    ASSUME Inv, Clock
    PROVE  Inv'
<1>1. /\ UNCHANGED <<tokens, cmd, held, req, withdrawn, lost, host, cast>>
      /\ late'
  BY DEF Clock, Expire
<1>2. ServiceInv'
  <2>1. UNCHANGED serviceVars
    BY DEF Clock
  <2>2. QED
    BY <2>1 DEF Inv, ServiceInv, ServiceTypeOK, ProcOK, serviceVars
<1>3. TokensTypeOK'
  BY DEF Clock, Expire, Inv, TokensInv, TokensTypeOK
<1>4. Known' /\ SecretSurvives'
  BY <1>1, StillKnown DEF Inv, TokensInv
<1>5. \A r \in Request : RequestOK(r)'
  BY <1>1, RequestKept, StillGrows DEF Inv, TokensInv
<1>6. QED
  BY <1>1, <1>2, <1>3, <1>4, <1>5 DEF Inv, TokensInv

LEMMA TokensStill ==
    ASSUME TokensInv, UNCHANGED <<tokenVars, host>>
    PROVE  TokensInv'
<1>1. UNCHANGED <<tokens, late, cmd, held, req, withdrawn, lost, host>>
  BY DEF tokenVars
<1>2. Known' /\ SecretSurvives'
  BY <1>1, StillKnown DEF TokensInv
<1>3. \A r \in Request : RequestOK(r)'
  BY <1>1, RequestKept, StillGrows DEF TokensInv
<1>4. QED
  BY <1>1, <1>2, <1>3 DEF TokensInv, TokensTypeOK

LEMMA Invariance == Spec => []Inv
<1>1. Inv /\ [Next]_vars => Inv'
  <2> SUFFICES ASSUME Inv, [Next]_vars PROVE Inv'
    OBVIOUS
  <2>1. ASSUME NEW p \in Proc, ServerStep(p) PROVE Inv'
    BY <2>1, ServerStepOK
  <2>2. ASSUME NEW r \in Request, NEW p \in Proc, NEW t \in Token \cup {None},
               NEW right \in Right, Connect(r, p, t, right)
        PROVE  Inv'
    BY <2>2, ConnectOK
  <2>3. ASSUME NEW r \in Request, Handle(r) PROVE Inv'
    BY <2>3, HandlesOK
  <2>4. ASSUME NEW a \in Admin, Command(a) PROVE Inv'
    BY <2>4, CommandOK
  <2>5. CASE Clock
    BY <2>5, ClockOK
  <2>6. CASE OtherStep
    BY <2>6, OtherStepOK, TokensStill DEF OtherStep, Inv
  <2>7. CASE UNCHANGED vars
    <3>1. UNCHANGED serviceVars /\ UNCHANGED <<tokenVars, host>> /\ cast' = cast
      BY <2>7 DEF vars
    <3>2. ServiceInv'
      BY <3>1 DEF Inv, ServiceInv, ServiceTypeOK, ProcOK, serviceVars
    <3>3. QED
      BY <3>1, <3>2, TokensStill DEF Inv
  <2>8. QED
    BY <2>1, <2>2, <2>3, <2>4, <2>5, <2>6, <2>7 DEF Next
<1>2. QED
  BY <1>1, Initially, PTL DEF Spec

\* Types of the service, the tokens and the requests.
THEOREM TypeCorrect == Spec => []TypeOK
<1>1. Inv => TypeOK
  BY DEF Inv, TypeOK, ServiceInv, TokensInv
<1>2. QED
  BY <1>1, Invariance, PTL

\* A session that owns a service has it answering on the port, a loop that
\* answers has the port, and the port is never held by a process that ended.
THEOREM ServedHolds == Spec => []Served
<1>1. Inv => Served
  BY DEF Inv, ServiceInv, ProcOK, Served, In, Serving
<1>2. QED
  BY <1>1, Invariance, PTL

\* Operations are carried out only for requests that arrived with a good token.
THEOREM OnlyTheEntitledHolds == Spec => []OnlyTheEntitled
<1>1. Inv => OnlyTheEntitled
  BY DEF Inv, TokensInv, RequestOK, OnlyTheEntitled, Handles
<1>2. QED
  BY <1>1, Invariance, PTL

\* No family of tokens loses its last usable secret by a rotation.
THEOREM SecretSurvivesHolds == Spec => []SecretSurvives
<1>1. Inv => SecretSurvives
  BY DEF Inv, TokensInv
<1>2. QED
  BY <1>1, Invariance, PTL
=============================================================================
