--------------------------- MODULE MCNativeInstall ---------------------------
(* Instances of NativeInstall for TLC. *)
EXTENDS NativeInstall, TLC, FiniteSetsExt

\* No action or property tells processes, generated files or projects apart.
Symmetry == Permutations(Proc) \cup Permutations(Gen) \cup Permutations(Project)

\* Bound: no state after the one in which reports name a third destination
\* that was not restored.
NamedBound == MapThenSumSet(LAMBDA p : Cardinality(errors[p]), Proc) <= 2
=============================================================================
