------------------------------ MODULE HttpTokens ------------------------------
(***************************************************************************)
(* Bearer tokens of the HTTP API (auth.py, service_api.py): commands       *)
(* create, rotate and revoke the tokens of a database while requests that  *)
(* present them are verified, and then served, by other processes.         *)
(*                                                                         *)
(* A command commits first and shows the secret afterwards; a request is   *)
(* verified by one read and acts later, under no lock.                     *)
(*                                                                         *)
(* Data abstraction.  A token is its identifier; a secret is known to the  *)
(* users (held) once a command has shown it.  A right is a project with a  *)
(* scope, or a query over all projects, which no token grants.  All tokens *)
(* that expire do so at one moment.  The token file is left out: a secret  *)
(* is shown before it is written there. So is last_used_at, which nothing  *)
(* reads: verify_bearer updates it in a transaction of its own.            *)
(***************************************************************************)
EXTENDS Naturals

CONSTANTS
    Token,      \* token identifiers
    Admin,      \* processes that run `auth token create|rotate|revoke`
    Request,    \* handler threads, one request each at a time
    Right,      \* what an endpoint can require
    Grants,     \* the sets of rights that a token can be created with
    None        \* no token

ASSUME TokensAssumption ==
    /\ Grants \subseteq SUBSET Right
    /\ None \notin Token

VARIABLES
    tokens,     \* the table project_http_tokens
    late,       \* whether the moment of expiry is over
    cmd,        \* per admin: the new token it has yet to show, or None
    held,       \* tokens whose secret was shown
    req,        \* per handler thread: its request
    withdrawn,  \* history: families of tokens that lost one to `revoke`
    lost        \* history: families that lost a secret to a killed command

tokenVars == <<tokens, late, cmd, held, req, withdrawn, lost>>

-----------------------------------------------------------------------------
\* family (history): the token that a chain of rotations began with.
Row == [grant : Grants, expires : BOOLEAN, revoked : BOOLEAN,
        family : Token]

ASSUME NoRowAssumption == None \notin Row

\* entitled (history): whether the token was good when the request arrived.
Job == [pc : {"idle", "verify", "act", "acted"},
        token : Token \cup {None}, right : Right \cup {None}, entitled : BOOLEAN]

Idle == [pc |-> "idle", token |-> None, right |-> None, entitled |-> FALSE]

TokensTypeOK ==
    /\ tokens \in [Token -> Row \cup {None}]
    /\ late \in BOOLEAN
    /\ cmd \in [Admin -> Token \cup {None}]
    /\ held \subseteq Token
    /\ req \in [Request -> Job]
    /\ withdrawn \subseteq Token
    /\ lost \subseteq Token

TokensInit ==
    /\ tokens = [t \in Token |-> None]
    /\ late = FALSE
    /\ cmd = [a \in Admin |-> None]
    /\ held = {}
    /\ req = [r \in Request |-> Idle]
    /\ withdrawn = {}
    /\ lost = {}

Exists(t) == tokens[t] # None
Active(t) == Exists(t) /\ ~tokens[t].revoked

\* Fresh identifiers are interchangeable: they are used in one order.
New(t) == ~Exists(t) /\ t = CHOOSE u \in Token : ~Exists(u)

-----------------------------------------------------------------------------
(***************************************************************************)
(* Commands.  Each changes the table in one write transaction.             *)
(***************************************************************************)
Create(a, t, grant, expires) ==
    /\ cmd[a] = None
    /\ New(t)
    /\ tokens' = [tokens EXCEPT ![t] = [grant |-> grant, expires |-> expires,
                     revoked |-> FALSE, family |-> t]]
    /\ cmd' = [cmd EXCEPT ![a] = t]
    /\ UNCHANGED <<late, held, req, withdrawn, lost>>

Revoked(row) == [row EXCEPT !.revoked = TRUE]
Successor(row) == [row EXCEPT !.revoked = FALSE]

RotateInTwo(a, old, new) ==
    /\ cmd[a] = None
    /\ Exists(old) /\ New(new)
    /\ \/ /\ tokens' = [tokens EXCEPT ![old] = Revoked(@), ![new] = Successor(tokens[old])]
          /\ cmd' = [cmd EXCEPT ![a] = new]
       \/ /\ tokens' = [tokens EXCEPT ![old] = Revoked(@)]
          /\ UNCHANGED cmd
    /\ UNCHANGED <<late, held, req, withdrawn, lost>>

\* The old token may be revoked, or expired, already.
Rotate(a, old, new) ==
    /\ cmd[a] = None
    /\ Exists(old) /\ New(new)
    /\ tokens' = [tokens EXCEPT ![old] = Revoked(@), ![new] = Successor(tokens[old])]
    /\ cmd' = [cmd EXCEPT ![a] = new]
    /\ UNCHANGED <<late, held, req, withdrawn, lost>>

Revoke(a, t) ==
    /\ cmd[a] = None
    /\ Active(t)
    /\ tokens' = [tokens EXCEPT ![t] = Revoked(@)]
    /\ withdrawn' = withdrawn \cup {tokens[t].family}
    /\ UNCHANGED <<late, cmd, held, req, lost>>

Show(a) ==
    /\ cmd[a] # None
    /\ held' = held \cup {cmd[a]}
    /\ cmd' = [cmd EXCEPT ![a] = None]
    /\ UNCHANGED <<tokens, late, req, withdrawn, lost>>

\* The command is killed after its commit: only the hash is stored.
Kill(a) ==
    /\ cmd[a] # None
    /\ lost' = lost \cup {tokens[cmd[a]].family}
    /\ cmd' = [cmd EXCEPT ![a] = None]
    /\ UNCHANGED <<tokens, late, held, req, withdrawn>>

Expire ==
    /\ ~late
    /\ late' = TRUE
    /\ UNCHANGED <<tokens, cmd, held, req, withdrawn, lost>>

-----------------------------------------------------------------------------
(***************************************************************************)
(* Requests: do_GET and do_POST call _require_scope, then the operation.   *)
(***************************************************************************)
Good(t, right) ==
    /\ t # None
    /\ Active(t)
    /\ ~(tokens[t].expires /\ late)
    /\ right \in tokens[t].grant

GoodIfRevoked(t, right) ==
    /\ t # None
    /\ Exists(t)
    /\ ~(tokens[t].expires /\ late)
    /\ right \in tokens[t].grant

\* verify_bearer reads the row once; everything it can go wrong in denies.
Verified(t, right) == Good(t, right)

Step(r, phase) == req' = [req EXCEPT ![r].pc = phase]
Handles(r, phase) == req[r].pc = phase

\* A request presents a token that was shown, or nothing that is one.
Arrive(r, t, right) ==
    /\ Handles(r, "idle")
    /\ t \in held \cup {None}
    /\ req' = [req EXCEPT ![r] = [pc |-> "verify", token |-> t, right |-> right,
                                  entitled |-> Good(t, right)]]
    /\ UNCHANGED <<tokens, late, cmd, held, withdrawn, lost>>

Verify(r) ==
    /\ Handles(r, "verify")
    /\ Verified(req[r].token, req[r].right)
    /\ Step(r, "act")
    /\ UNCHANGED <<tokens, late, cmd, held, withdrawn, lost>>

\* 401 or 403; also for a token that was good, when the read fails.
Deny(r) ==
    /\ Handles(r, "verify")
    /\ req' = [req EXCEPT ![r] = Idle]
    /\ UNCHANGED <<tokens, late, cmd, held, withdrawn, lost>>

\* auth_mode "off": _require_scope returns at once.
SkipAuth(r) ==
    /\ Handles(r, "verify")
    /\ Step(r, "act")
    /\ UNCHANGED <<tokens, late, cmd, held, withdrawn, lost>>

Act(r) ==
    /\ Handles(r, "act")
    /\ Step(r, "acted")
    /\ UNCHANGED <<tokens, late, cmd, held, withdrawn, lost>>

\* The answer is sent, or the operation failed (500).
Answer(r) ==
    /\ req[r].pc \in {"act", "acted"}
    /\ req' = [req EXCEPT ![r] = Idle]
    /\ UNCHANGED <<tokens, late, cmd, held, withdrawn, lost>>

CommandStep(a) ==
    \/ \E t \in Token, grant \in Grants, expires \in BOOLEAN : Create(a, t, grant, expires)
    \/ \E old, new \in Token : Rotate(a, old, new)
    \/ \E t \in Token : Revoke(a, t)
    \/ Show(a)
    \/ Kill(a)

RequestStep(r) == Verify(r) \/ Deny(r) \/ Act(r) \/ Answer(r)

-----------------------------------------------------------------------------
InHand(t) == t \in held \/ \E a \in Admin : cmd[a] = t

\* Every family of tokens keeps an active one whose secret is held, or about to
\* be shown, unless one of it was revoked on purpose or a command was killed
\* before it showed a secret (rotate_token revokes and inserts in one
\* transaction), however rotations of one token overlap.
SecretSurvives ==
    \A t \in Token : Exists(t) =>
        \/ tokens[t].family \in withdrawn \cup lost
        \/ \E u \in Token :
               Active(u) /\ InHand(u) /\ tokens[u].family = tokens[t].family
=============================================================================
