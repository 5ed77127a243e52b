---------------------------- MODULE MCMeshSearch ----------------------------
(* Instances of MeshSearch for TLC: a conversation of two messages and one *)
(* of one message, two workers.                                            *)
EXTENDS MeshSearch

CONSTANTS e1, e2, e3, c1, c2, w1, w2

MCConvOf == [e \in Entry |-> IF e = e3 THEN c2 ELSE c1]
\* A query that shares no term with anything, and one that finds one
\* conversation.
MCQueries == {{}, {e1, e2}}

\* Which operations the two workers run together: each pair that writes the
\* same rows, and a search next to what fills the project.
Mix(a, b) == [w \in Worker |-> IF w = w1 THEN a ELSE b]
MCMixes == {Mix({"sync", "compress"}, {"compress"}),
            Mix({"import", "compress"}, {"compress"}),
            Mix({"sync", "catalog"}, {"catalog"}),
            Mix({"sync"}, {"sync", "embed"}),
            Mix({"sync", "embed"}, {"search"})}
=============================================================================
