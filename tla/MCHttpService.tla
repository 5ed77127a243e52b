---------------------------- MODULE MCHttpService ----------------------------
(* Instances of HttpService for TLC. *)
EXTENDS HttpService

CONSTANTS t1, t2, s, o, a1, a2, r1, k1, k2, k3

\* A scope of the project, and the query over all projects.
MCRight == {"read", "all"}
MCGrants == {{"read"}}

\* Terminal interfaces and a server contend for the port; a service of each
\* kind has a client, one while tokens change; commands overlap.
MCCasts == {{t1, t2, s, Other}, {s, r1, a1}, {t1, r1}, {o, r1}, {a1, a2}}
=============================================================================
