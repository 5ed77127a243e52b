--------------------------- MODULE SupervisedService ---------------------------
(***************************************************************************)
(* The HTTP service on one loopback port (supervised_service.py,           *)
(* run_service in service_api.py): `tui --with-service` processes probe    *)
(* the port, reuse the service they find or bind the port and own a server *)
(* thread that they stop when they leave; `serve` processes bind and serve *)
(* in their main thread; another program may hold the port.                *)
(*                                                                         *)
(* A socket listens from the bind on, but nobody answers before the server *)
(* loop runs: a probe in between times out, like one of a busy server.     *)
(***************************************************************************)
EXTENDS Naturals

CONSTANTS
    Tui,        \* processes of `memorymesh tui --with-service`
    Serve,      \* processes of `memorymesh serve`
    Other,      \* another program on the port
    Free,       \* the port is not bound
    Probes      \* how often start() probes its own server (40)

Proc == Tui \cup Serve

ASSUME ServiceAssumption ==
    /\ Tui \cap Serve = {}
    /\ {Other, Free} \cap Proc = {}
    /\ Other # Free
    /\ Probes \in Nat \ {0}

VARIABLES
    port,       \* who holds the port
    phase,      \* per process: where it is
    thread,     \* per process: its server loop
    owned,      \* per process: SupervisedService.owned
    quit,       \* per process: shutdown() has asked its loop to end
    probes      \* per process: probes of its own server so far

serviceVars == <<port, phase, thread, owned, quit, probes>>

-----------------------------------------------------------------------------
Starting == {"probe", "bind", "raced", "bound", "owned", "wait"}
Phase == Starting \cup {"off", "running", "closing", "closed", "gone"}

ServiceTypeOK ==
    /\ port \in Proc \cup {Other, Free}
    /\ phase \in [Proc -> Phase]
    /\ thread \in [Proc -> {"none", "begun", "loop", "ended"}]
    /\ owned \in [Proc -> BOOLEAN]
    /\ quit \in [Proc -> BOOLEAN]
    /\ probes \in [Proc -> 0..Probes]

ServiceInit ==
    /\ port \in {Other, Free}
    /\ phase = [p \in Proc |-> "off"]
    /\ thread = [p \in Proc |-> "none"]
    /\ owned = [p \in Proc |-> FALSE]
    /\ quit = [p \in Proc |-> FALSE]
    /\ probes = [p \in Proc |-> 0]

In(p, here) == phase[p] = here
Goto(p, there) == phase' = [phase EXCEPT ![p] = there]

\* The loop of p may handle one more request after it was asked to end.
Serving(p) == thread[p] = "loop"

\* What probe_health can report: a compatible memorymesh, another program, or
\* a failure; /health needs the server loop of whoever holds the port.
Answers ==
    {"failed"}
    \cup (IF \E p \in Proc : port = p /\ Serving(p) THEN {"compatible"} ELSE {})
    \cup (IF port = Other THEN {"unrelated"} ELSE {})

\* The process ends: its threads and its socket end with it.
Gone(p) ==
    /\ Goto(p, "gone")
    /\ port' = IF port = p THEN Free ELSE port
    /\ thread' = [thread EXCEPT ![p] = "none"]
    /\ owned' = [owned EXCEPT ![p] = FALSE]
    /\ UNCHANGED <<quit, probes>>

-----------------------------------------------------------------------------
(***************************************************************************)
(* start().                                                                *)
(***************************************************************************)
Launch(p) ==
    /\ In(p, "off")
    /\ Goto(p, IF p \in Tui THEN "probe" ELSE "bind")
    /\ UNCHANGED <<port, thread, owned, quit, probes>>

Reuse(p) ==
    /\ p \in Tui
    /\ phase[p] \in {"probe", "raced"}
    /\ "compatible" \in Answers
    /\ Goto(p, "running")
    /\ UNCHANGED <<port, thread, owned, quit, probes>>

\* Nobody answered; mesh.init() follows before the bind.
ProbeFails(p) ==
    /\ In(p, "probe")
    /\ "failed" \in Answers
    /\ Goto(p, "bind")
    /\ UNCHANGED <<port, thread, owned, quit, probes>>

\* port_conflict_unrelated, port_conflict: the command ends with an error.
Conflict(p) ==
    /\ \/ In(p, "probe") /\ "unrelated" \in Answers
       \/ In(p, "raced") /\ {"failed", "unrelated"} \cap Answers # {}
    /\ Gone(p)

Bind(p) ==
    /\ In(p, "bind")
    /\ port = Free
    /\ port' = p
    /\ Goto(p, "bound")
    /\ UNCHANGED <<thread, owned, quit, probes>>

\* `serve` does not handle the error.
BindFails(p) ==
    /\ In(p, "bind")
    /\ port # Free
    /\ IF p \in Tui
       THEN Goto(p, "raced") /\ UNCHANGED <<port, thread, owned, quit, probes>>
       ELSE Gone(p)

\* The attributes of the server, build_health_payload last; then owned.
Configure(p) ==
    /\ In(p, "bound")
    /\ IF p \in Tui
       THEN /\ Goto(p, "owned")
            /\ owned' = [owned EXCEPT ![p] = TRUE]
            /\ UNCHANGED thread
       ELSE /\ Goto(p, "running")
            /\ thread' = [thread EXCEPT ![p] = "loop"]
            /\ UNCHANGED owned
    /\ UNCHANGED <<port, quit, probes>>

StartThread(p) ==
    /\ In(p, "owned")
    /\ thread' = [thread EXCEPT ![p] = "begun"]
    /\ Goto(p, "wait")
    /\ UNCHANGED <<port, owned, quit, probes>>

AssumeStarted(p) ==
    /\ In(p, "wait")
    /\ probes[p] < Probes
    /\ Goto(p, "running")
    /\ UNCHANGED <<port, thread, owned, quit, probes>>

Started(p) ==
    /\ In(p, "wait")
    /\ probes[p] < Probes
    /\ "compatible" \in Answers
    /\ Goto(p, "running")
    /\ UNCHANGED <<port, thread, owned, quit, probes>>

ProbeOnceMore(p) ==
    /\ In(p, "wait")
    /\ "failed" \in Answers
    /\ probes[p] <= Probes
    /\ probes' = [probes EXCEPT ![p] = @ + 1]
    /\ UNCHANGED <<port, phase, thread, owned, quit>>

ProbeAgain(p) ==
    /\ In(p, "wait")
    /\ "failed" \in Answers
    /\ probes[p] < Probes
    /\ probes' = [probes EXCEPT ![p] = @ + 1]
    /\ UNCHANGED <<port, phase, thread, owned, quit>>

-----------------------------------------------------------------------------
(***************************************************************************)
(* serve_forever() in the thread, and shutdown().                          *)
(***************************************************************************)
EnterLoop(p) ==
    /\ thread[p] = "begun"
    /\ thread' = [thread EXCEPT ![p] = "loop"]
    /\ UNCHANGED <<port, phase, owned, quit, probes>>

LeaveLoop(p) ==
    /\ thread[p] = "loop"
    /\ quit[p]
    /\ thread' = [thread EXCEPT ![p] = "ended"]
    /\ UNCHANGED <<port, phase, owned, quit, probes>>

ShutdownUnasked(p) ==
    /\ owned' = [owned EXCEPT ![p] = FALSE]
    /\ Goto(p, "closing")
    /\ UNCHANGED <<port, thread, quit, probes>>

\* shutdown(): owned is cleared and the loop asked to end.
Shutdown(p) ==
    /\ owned' = [owned EXCEPT ![p] = FALSE]
    /\ quit' = [quit EXCEPT ![p] = TRUE]
    /\ Goto(p, "closing")
    /\ UNCHANGED <<port, thread, probes>>

\* The user leaves, or an error ends the session: the finally clause of tui().
\* start_failed calls shutdown() too; `serve` ends with its interrupt.
Leave(p) ==
    /\ \/ In(p, "running")
       \/ In(p, "wait") /\ probes[p] = Probes
    /\ IF owned[p] THEN Shutdown(p) ELSE Gone(p)

\* An interrupt, or a step of start() that raises (mesh.init(),
\* build_health_payload, Thread.start()), reaches the same clause.
Abort(p) ==
    /\ phase[p] \in Starting
    /\ IF owned[p] THEN Shutdown(p) ELSE Gone(p)

\* server.shutdown() returns once the loop has ended; then server_close().
Close(p) ==
    /\ In(p, "closing")
    /\ thread[p] = "ended"
    /\ port' = Free
    /\ Goto(p, "closed")
    /\ UNCHANGED <<thread, owned, quit, probes>>

\* thread.join() returns and the command ends.
Join(p) == In(p, "closed") /\ Gone(p)

Killed(p) == phase[p] \notin {"off", "gone"} /\ Gone(p)

OtherTakes == port = Free /\ port' = Other /\ UNCHANGED <<phase, thread, owned, quit, probes>>
OtherLeaves == port = Other /\ port' = Free /\ UNCHANGED <<phase, thread, owned, quit, probes>>

\* What a process goes on to do by itself.
Proceed(p) ==
    \/ Reuse(p) \/ ProbeFails(p) \/ Conflict(p)
    \/ Bind(p) \/ BindFails(p) \/ Configure(p)
    \/ StartThread(p) \/ Started(p) \/ ProbeAgain(p)
    \/ In(p, "wait") /\ Leave(p)
    \/ Close(p) \/ Join(p)

Loop(p) == EnterLoop(p) \/ LeaveLoop(p)

ServiceStep(p) ==
    \/ Launch(p) \/ Proceed(p) \/ Loop(p)
    \/ Leave(p) \/ Abort(p) \/ Killed(p)

-----------------------------------------------------------------------------
\* A process in its session that owns a service has it on the port and
\* answering (start() reports "started" only after a probe); a loop that
\* answers has the port, in start() and in shutdown() (server_close() comes
\* after shutdown()); and a port that is bound belongs to a live process.
Served ==
    /\ \A p \in Proc : In(p, "running") /\ (owned[p] \/ p \in Serve) => Serving(p) /\ ~quit[p]
    /\ \A p \in Proc : Serving(p) => port = p
    /\ \A p \in Proc : port = p => phase[p] \notin {"off", "gone"}

\* shutdown() waits for a loop that was never begun, when Thread.start() raised
\* or the interrupt came between owned = True and it.
Stuck(p) == In(p, "closing") /\ thread[p] = "none"

Busy(p) == phase[p] \in Starting \cup {"closing", "closed"}
=============================================================================
