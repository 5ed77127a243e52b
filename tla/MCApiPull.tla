------------------------------ MODULE MCApiPull ------------------------------
(* Instances of ApiPull for TLC. *)
EXTENDS ApiPull, TLC

\* No action or property tells these apart.
Symmetry == Permutations(Puller) \cup Permutations(Entry)
                \cup Permutations(Url) \cup Permutations(Provider)
=============================================================================
