------------------------------ MODULE HttpService ------------------------------
(***************************************************************************)
(* The service and its clients: requests arrive at the loop that holds the *)
(* port, each in a daemon thread of that process (ThreadingHTTPServer),    *)
(* which goes on while the loop ends and is dropped when the process ends. *)
(* Meanwhile tokens are created, rotated and revoked by other processes.   *)
(***************************************************************************)
EXTENDS SupervisedService, HttpTokens

CONSTANTS
    AuthOff,    \* `serve` processes with auth_mode "off"
    Casts       \* for model checking: which actors take part together

ASSUME HttpAssumption ==
    /\ AuthOff \subseteq Serve
    /\ None \notin Proc

VARIABLES
    host,       \* per handler thread: the process it belongs to, or None
    cast        \* the actors that take part

vars == <<serviceVars, tokenVars, host, cast>>

-----------------------------------------------------------------------------
TypeOK ==
    /\ ServiceTypeOK
    /\ TokensTypeOK
    /\ host \in [Request -> Proc \cup {None}]
    /\ cast \in Casts

Init ==
    /\ ServiceInit
    /\ TokensInit
    /\ host = [r \in Request |-> None]
    /\ cast \in Casts
    /\ port = Other => Other \in cast

Ends(r, p) == host[r] = p /\ phase'[p] = "gone"

\* The daemon threads of a process end with it.
ServerStep(p) ==
    /\ ServiceStep(p)
    /\ req' = [r \in Request |-> IF Ends(r, p) THEN Idle ELSE req[r]]
    /\ host' = [r \in Request |-> IF Ends(r, p) THEN None ELSE host[r]]
    /\ UNCHANGED <<tokens, late, cmd, held, withdrawn, lost, cast>>

Connect(r, p, t, right) ==
    /\ port = p
    /\ Serving(p)
    /\ Arrive(r, t, right)
    /\ host' = [host EXCEPT ![r] = p]
    /\ UNCHANGED <<serviceVars, cast>>

Handle(r) ==
    /\ host[r] # None
    /\ IF host[r] \in AuthOff
       THEN SkipAuth(r) \/ Act(r) \/ Answer(r)
       ELSE RequestStep(r)
    /\ host' = [host EXCEPT ![r] = IF req'[r] = Idle THEN None ELSE @]
    /\ UNCHANGED <<serviceVars, cast>>

Command(a) == CommandStep(a) /\ UNCHANGED <<serviceVars, host, cast>>

Clock == Expire /\ UNCHANGED <<serviceVars, host, cast>>

OtherStep == (OtherTakes \/ OtherLeaves) /\ UNCHANGED <<tokenVars, host, cast>>

Next ==
    \/ \E p \in cast \cap Proc : ServerStep(p)
    \/ \E r \in cast \cap Request, p \in Proc, t \in Token \cup {None}, right \in Right :
           Connect(r, p, t, right)
    \/ \E r \in cast \cap Request : Handle(r)
    \/ \E a \in cast \cap Admin : Command(a)
    \/ Clock
    \/ Other \in cast /\ OtherStep

\* Processes and their threads run; probes, joins and the poll of the loop have
\* timeouts. Users, clients and commands need not do anything.
Fairness ==
    \A p \in Proc :
        /\ WF_vars(ServerStep(p) /\ Proceed(p))
        /\ WF_vars(ServerStep(p) /\ Loop(p))

Spec == Init /\ [][Next]_vars /\ Fairness

-----------------------------------------------------------------------------
\* An operation is carried out only for a request whose token, when it arrived,
\* was there, neither revoked nor expired, and granted the right required,
\* unless the process that serves it runs without authentication: what was
\* revoked, or expired, before a request arrives serves it nothing, whatever
\* rotations and restarts of the service overlap with it.
OnlyTheEntitled ==
    \A r \in Request : Handles(r, "acted") => req[r].entitled \/ host[r] \in AuthOff

\* start() and shutdown() end: a process that starts or stops gets to its
\* session or to its end, unless it is stuck as described with Stuck.
Settles == \A p \in Proc : Busy(p) ~> ~Busy(p) \/ Stuck(p)
=============================================================================
