------------------------------- MODULE MCMesh -------------------------------
(* Instances of Mesh for TLC: a conversation of two messages and one of    *)
(* one message, two workers.                                               *)
EXTENDS Mesh

CONSTANTS e1, e2, e3, c1, c2, w1, w2, b1, b2, l1, l2, all, p1, p2,
          f1, f2

MCConvOf == [e \in Entry |-> IF e = e3 THEN c2 ELSE c1]
\* A query that shares no term with anything, and one that finds one
\* conversation.
MCQueries == {{}, {e1, e2}}

\* Two parts of ids that agree in 40 characters, one of which is found in
\* both ids, and the whole of the source provider.
MCRowsOf == [l \in Label |-> IF l = l2 THEN {e3} ELSE Entry]
MCPathOf == [l \in Label |-> IF l = all THEN p2 ELSE p1]

MCBackendOf == [w \in Worker |-> IF w = w1 THEN b1 ELSE b2]

\* Two old rows of the same content, a malformed one, and another.
MCLegacyRows == <<e3, None, e3, e1>>

\* Which operations the two workers run together: each pair that writes the
\* same rows or files, and a search next to what fills the project.
Mix(a, b) == [w \in Worker |-> IF w = w1 THEN a ELSE b]
MCMixes == {Mix({"sync", "compress"}, {"compress"}),
            Mix({"sync", "compress", "brief"}, {"compress"}),
            Mix({"import", "compress"}, {"compress"}),
            Mix({"sync", "catalog"}, {"catalog"}),
            Mix({"sync"}, {"sync", "embed"}),
            Mix({"sync", "embed"}, {"search"}),
            Mix({"store", "transfer"}, {"transfer"}),
            Mix({"legacy", "store"}, {"legacy", "store"}),
            Mix({"legacy"}, {"store", "embed"}),
            Mix({"aider"}, {"aider"}),
            Mix({"encrypt"}, {"encrypt"}),
            Mix({"encrypt"}, {"store"})}
=============================================================================
